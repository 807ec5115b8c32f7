---------------------------- MODULE ScheduleProofs ----------------------------
(***************************************************************************)
(* The optimistic lock on next_run_at, for any number of overlapping ticks *)
(* and instances and any expressions.                                      *)
(***************************************************************************)
EXTENDS Schedule, TLAPS

\* A firing computed by cron-parser is a time after the present.
LEMMA NextFireLater ==
    ASSUME NEW c \in Crons, NEW z \in Zones, NEW t \in Times
    PROVE  NextFire[<<c, z, t>>] \in Nat /\ NextFire[<<c, z, t>>] > t
BY ScheduleConstants

\* Type correctness.  A tick beyond the query has seen a time the clock has
\* reached.
SeenDue == \A i \in Ticks : tpc[i] # "idle" =>
               seen[i].nextAt \in Times /\ seen[i].nextAt <= now

TypeInv == TypeOK /\ SeenDue

LEMMA TypeInit == Init => TypeInv
<1> SUFFICES ASSUME Init PROVE TypeInv OBVIOUS
<1>1. now \in Times /\ 0 \in Times BY ScheduleConstants DEF Init, Times
<1>2. nextAt \in Nat BY <1>1, NextFireLater DEF Init
<1>3. seen \in [Ticks -> Rows] BY DEF Init, Rows
<1> QED BY <1>1, <1>2, <1>3 DEF Init, TypeInv, TypeOK, SeenDue

\* A PATCH leaves next_run_at alone or puts it in the future.
LEMMA PatchNext ==
    ASSUME TypeOK, NEW e \in Editors, NEW c \in Crons \cup {Keep},
           NEW z \in Zones \cup {Keep}, NEW b, Patch(e, c, z, b)
    PROVE  nextAt' = nextAt \/ (nextAt' \in Nat /\ nextAt' > now)
<1> DEFINE newCron == IF c = Keep THEN read[e][1] ELSE c
           newZone == IF z = Keep THEN read[e][2] ELSE z
<1>1. newCron \in Crons /\ newZone \in Zones /\ now \in Times
    BY DEF TypeOK
<1>2. nextAt' = nextAt \/ nextAt' = NextFire[<<newCron, newZone, now>>]
    BY DEF Patch
<1> HIDE DEF newCron, newZone
<1> QED BY <1>1, <1>2, NextFireLater

LEMMA TypeStep == TypeInv /\ [Next]_vars => TypeInv'
<1> SUFFICES ASSUME TypeInv, [Next]_vars PROVE TypeInv' OBVIOUS
<1> USE DEF TypeInv, rowVars, tickVars, editVars
<1>0. CASE UNCHANGED vars BY <1>0 DEF vars, TypeOK, SeenDue
<1>1. CASE Clock
  <2>1. now' \in Times /\ now' = now + 1 /\ now \in Int
      BY <1>1, ScheduleConstants DEF Clock, Times, TypeOK
  <2>2. tpc' = tpc /\ seen' = seen BY <1>1 DEF Clock
  <2>3. \A t \in Times : t <= now => t <= now'
      BY <2>1, ScheduleConstants DEF Times
  <2>4. SeenDue' BY <2>2, <2>3 DEF SeenDue
  <2> QED BY <1>1, <2>1, <2>4 DEF Clock, TypeOK
<1>2. CASE DepsChange BY <1>2 DEF DepsChange, TypeOK, SeenDue
<1>3. CASE DeleteSchedule BY <1>3 DEF DeleteSchedule, TypeOK, SeenDue
<1>4. ASSUME NEW e \in Editors, Edit(e) PROVE TypeInv'
  <2>1. CASE PatchRead(e) BY <2>1 DEF PatchRead, TypeOK, SeenDue
  <2>2. CASE PatchTooLate(e) BY <2>2 DEF PatchTooLate, TypeOK, SeenDue
  <2>3. ASSUME NEW c \in Crons \cup {Keep}, NEW z \in Zones \cup {Keep},
               NEW b \in BOOLEAN \cup {Keep}, Patch(e, c, z, b)
        PROVE  TypeInv'
    <3>1. nextAt' \in Nat BY <2>3, PatchNext DEF TypeOK
    <3>2. cron' \in Crons /\ zone' \in Zones BY <2>3 DEF Patch, TypeOK
    <3>3. enabled' \in BOOLEAN BY <2>3 DEF Patch, TypeOK
    <3> QED BY <2>3, <3>1, <3>2, <3>3 DEF Patch, TypeOK, SeenDue
  <2> QED BY <1>4, <2>1, <2>2, <2>3 DEF Edit
<1>5. ASSUME NEW i \in Ticks, Tick(i) \/ TickFails(i) PROVE TypeInv'
  <2>1. CASE FindDue(i)
    <3>1. seen' \in [Ticks -> Rows] BY <2>1 DEF FindDue, TypeOK, Rows
    <3>2. nextAt \in Times /\ nextAt <= now
        BY <2>1, ScheduleConstants DEF FindDue, TypeOK, Times
    <3>3. /\ seen'[i].nextAt = nextAt /\ now' = now
          /\ \A j \in Ticks : j # i => tpc'[j] = tpc[j] /\ seen'[j] = seen[j]
        BY <2>1 DEF FindDue, TypeOK
    <3>4. SeenDue' BY <3>2, <3>3 DEF SeenDue
    <3> QED BY <2>1, <3>1, <3>4 DEF FindDue, TypeOK
  <2>2. CASE ComputeNext(i)
    <3>1. seen[i].cron \in Crons /\ seen[i].zone \in Zones
        BY DEF TypeOK, Rows
    <3>2. newNext' \in [Ticks -> Nat]
        BY <2>2, <3>1, NextFireLater DEF ComputeNext, TypeOK
    <3>3. tpc' \in [Ticks -> {"idle", "due", "computed", "claim", "trigger"}]
        BY <2>2 DEF ComputeNext, TypeOK
    <3>4. SeenDue' BY <2>2 DEF ComputeNext, TypeOK, SeenDue
    <3> QED BY <2>2, <3>2, <3>3, <3>4 DEF ComputeNext, TypeOK
  <2>3. CASE DepsBlock(i) \/ DepsPass(i) \/ ClaimLost(i) \/ TickFails(i)
      BY <2>3 DEF DepsBlock, DepsPass, ClaimLost, TickFails, TypeOK, SeenDue
  <2>4. CASE Claim(i)
    <3> DEFINE t == seen[i].nextAt
    <3>0. t \in Times /\ claimed[t] \in Nat
        BY <2>4 DEF Claim, TypeOK, SeenDue
    <3> HIDE DEF t
    <3>1. claimed' \in [Times -> Nat] BY <2>4, <3>0 DEF Claim, TypeOK, t
    <3>2. tpc' \in [Ticks -> {"idle", "due", "computed", "claim", "trigger"}]
        BY <2>4 DEF Claim, TypeOK
    <3>3. SeenDue' BY <2>4 DEF Claim, TypeOK, SeenDue
    <3>4. nextAt' \in Nat BY <2>4 DEF Claim, TypeOK
    <3> QED BY <2>4, <3>1, <3>2, <3>3, <3>4 DEF Claim, TypeOK
  <2>5. CASE TriggerRun(i)
    <3> DEFINE t == seen[i].nextAt
    <3>0. t \in Times /\ fired[t] \in Nat
        BY <2>5 DEF TriggerRun, TypeOK, SeenDue
    <3> HIDE DEF t
    <3>1. fired' \in [Times -> Nat] BY <2>5, <3>0 DEF TriggerRun, TypeOK, t
    <3> QED BY <2>5, <3>1 DEF TriggerRun, TypeOK, SeenDue
  <2> QED BY <1>5, <2>1, <2>2, <2>3, <2>4, <2>5 DEF Tick
<1> QED BY <1>0, <1>1, <1>2, <1>3, <1>4, <1>5 DEF Next

-----------------------------------------------------------------------------
(* Why a tick fires once: next_run_at has moved past every time that was   *)
(* claimed, and a tick that is about to trigger is the only one that       *)
(* claimed its time.                                                       *)

PastClaims == \A t \in Times : claimed[t] > 0 => t < nextAt /\ t <= now

Advances == \A i \in Ticks : tpc[i] \in {"computed", "claim"} =>
                newNext[i] > seen[i].nextAt

Triggering ==
    \A i \in Ticks : tpc[i] = "trigger" =>
        /\ claimed[seen[i].nextAt] = 1
        /\ fired[seen[i].nextAt] = 0
        /\ \A j \in Ticks : (tpc[j] = "trigger"
                             /\ seen[j].nextAt = seen[i].nextAt) => i = j

ClaimInv == TypeInv /\ FiredOnce /\ PastClaims /\ Advances /\ Triggering

LEMMA ClaimInit == Init => ClaimInv
BY TypeInit DEF Init, ClaimInv, FiredOnce, PastClaims, Advances, Triggering

LEMMA ClaimStep == ClaimInv /\ [Next]_vars => ClaimInv'
<1> SUFFICES ASSUME ClaimInv, [Next]_vars PROVE ClaimInv' OBVIOUS
<1>t. TypeInv' BY TypeStep DEF ClaimInv
<1>n. now \in Int /\ nextAt \in Int /\ Times \subseteq Int
    BY ScheduleConstants DEF ClaimInv, TypeInv, TypeOK, Times
<1> USE DEF rowVars, tickVars, editVars
<1>0. CASE UNCHANGED vars
    BY <1>0, <1>t DEF vars, ClaimInv, FiredOnce, PastClaims, Advances,
                      Triggering
<1>1. CASE Clock
  <2>1. now' > now /\ now' \in Int BY <1>1, <1>n DEF Clock
  <2>2. UNCHANGED <<nextAt, tpc, seen, newNext, claimed, fired>>
      BY <1>1 DEF Clock
  <2>3. PastClaims' BY <1>n, <2>1, <2>2 DEF ClaimInv, PastClaims
  <2> QED BY <1>t, <2>2, <2>3 DEF ClaimInv, FiredOnce, Advances, Triggering
<1>2. CASE DepsChange
    BY <1>2, <1>t DEF DepsChange, ClaimInv, FiredOnce, PastClaims, Advances,
                      Triggering
<1>3. CASE DeleteSchedule
    BY <1>3, <1>t DEF DeleteSchedule, ClaimInv, FiredOnce, PastClaims,
                      Advances, Triggering
<1>4. ASSUME NEW e \in Editors, Edit(e) PROVE ClaimInv'
  <2>0. UNCHANGED <<now, tpc, seen, newNext, claimed, fired>>
      BY <1>4 DEF Edit, PatchRead, PatchTooLate, Patch
  <2>1. nextAt' = nextAt \/ nextAt' > now
    <3>1. ASSUME NEW c \in Crons \cup {Keep}, NEW z \in Zones \cup {Keep},
                 NEW b \in BOOLEAN \cup {Keep}, Patch(e, c, z, b)
          PROVE  nextAt' = nextAt \/ nextAt' > now
        BY <3>1, PatchNext DEF ClaimInv, TypeInv
    <3> QED BY <1>4, <3>1 DEF Edit, PatchRead, PatchTooLate
  <2>2. nextAt' \in Int BY <1>t DEF TypeInv, TypeOK
  <2>3. PastClaims' BY <1>n, <2>0, <2>1, <2>2 DEF ClaimInv, PastClaims
  <2> QED BY <1>t, <2>0, <2>3 DEF ClaimInv, FiredOnce, Advances, Triggering
<1>5. ASSUME NEW i \in Ticks, Tick(i) \/ TickFails(i) PROVE ClaimInv'
  <2>1. CASE FindDue(i)
      BY <2>1, <1>t DEF FindDue, ClaimInv, TypeInv, TypeOK, FiredOnce,
                        PastClaims, Advances, Triggering
  <2>2. CASE ComputeNext(i)
    <3>1. seen[i].cron \in Crons /\ seen[i].zone \in Zones /\ now \in Times
        BY DEF ClaimInv, TypeInv, TypeOK, Rows
    <3>2. seen[i].nextAt <= now /\ seen[i].nextAt \in Int
        BY <2>2, <1>n DEF ComputeNext, ClaimInv, TypeInv, SeenDue
    <3> DEFINE f == NextFire[<<seen[i].cron, seen[i].zone, now>>]
    <3>f. f \in Nat /\ f > now BY <3>1, NextFireLater
    <3>g. newNext'[i] = f BY <2>2 DEF ComputeNext, ClaimInv, TypeInv, TypeOK
    <3> HIDE DEF f
    <3>3. newNext'[i] > seen[i].nextAt BY <1>n, <3>2, <3>f, <3>g
    <3>4. \A j \in Ticks : j # i => tpc'[j] = tpc[j]
                                    /\ newNext'[j] = newNext[j]
        BY <2>2 DEF ComputeNext, ClaimInv, TypeInv, TypeOK
    <3>5. tpc'[i] # "trigger" /\ UNCHANGED <<now, nextAt, seen, claimed, fired>>
        BY <2>2 DEF ComputeNext, ClaimInv, TypeInv, TypeOK
    <3>6. Advances' BY <3>3, <3>4, <3>5 DEF ClaimInv, Advances
    <3>7. Triggering' BY <3>4, <3>5 DEF ClaimInv, Triggering
    <3> QED BY <1>t, <3>5, <3>6, <3>7 DEF ClaimInv, FiredOnce, PastClaims
  <2>3. CASE DepsBlock(i) \/ DepsPass(i) \/ ClaimLost(i) \/ TickFails(i)
      BY <2>3, <1>t DEF DepsBlock, DepsPass, ClaimLost, TickFails, ClaimInv,
                        TypeInv, TypeOK, FiredOnce, PastClaims, Advances,
                        Triggering
  <2>4. CASE Claim(i)
    <3> DEFINE t == seen[i].nextAt
    <3>1. t \in Times /\ t <= now /\ nextAt = t /\ nextAt' > t
        BY <2>4 DEF Claim, Claimable, ClaimInv, TypeInv, SeenDue, Advances
    <3>2. claimed[t] = 0 /\ fired[t] = 0
        BY <1>n, <3>1 DEF ClaimInv, TypeInv, TypeOK, PastClaims, FiredOnce
    <3> HIDE DEF t
    <3>3. \A u \in Times : claimed'[u] = IF u = t THEN 1 ELSE claimed[u]
        BY <2>4, <3>1, <3>2 DEF Claim, ClaimInv, TypeInv, TypeOK, t
    <3>4. \A j \in Ticks : tpc'[j] = IF j = i THEN "trigger" ELSE tpc[j]
        BY <2>4 DEF Claim, ClaimInv, TypeInv, TypeOK
    <3>5. UNCHANGED <<now, seen, newNext, fired>> BY <2>4 DEF Claim
    <3>6. FiredOnce'
        BY <3>2, <3>3, <3>5 DEF ClaimInv, FiredOnce
    <3>7. nextAt' \in Int BY <1>t DEF TypeInv, TypeOK
    <3>8. PastClaims'
        BY <1>n, <3>1, <3>3, <3>5, <3>7 DEF ClaimInv, PastClaims
    <3>9. Advances' BY <3>4, <3>5 DEF ClaimInv, Advances
    <3>10. \A j \in Ticks : tpc[j] = "trigger" =>
               seen[j].nextAt # t /\ seen[j].nextAt \in Times
        BY <3>2 DEF ClaimInv, Triggering, TypeInv, SeenDue
    <3>11. Triggering'
        BY <3>1, <3>2, <3>3, <3>4, <3>5, <3>10 DEF ClaimInv, Triggering, t
    <3> QED BY <1>t, <3>6, <3>8, <3>9, <3>11 DEF ClaimInv
  <2>5. CASE TriggerRun(i)
    <3> DEFINE t == seen[i].nextAt
    <3>1. t \in Times /\ claimed[t] = 1 /\ fired[t] = 0
        BY <2>5 DEF TriggerRun, ClaimInv, TypeInv, SeenDue, Triggering
    <3> HIDE DEF t
    <3>2. \A u \in Times : fired'[u] = IF u = t THEN 1 ELSE fired[u]
        BY <2>5, <3>1 DEF TriggerRun, ClaimInv, TypeInv, TypeOK, t
    <3>3. \A j \in Ticks : tpc'[j] = IF j = i THEN "idle" ELSE tpc[j]
        BY <2>5 DEF TriggerRun, ClaimInv, TypeInv, TypeOK
    <3>4. UNCHANGED <<now, nextAt, seen, newNext, claimed>>
        BY <2>5 DEF TriggerRun
    <3>5. FiredOnce' BY <3>1, <3>2, <3>4 DEF ClaimInv, FiredOnce
    <3>6. PastClaims' /\ Advances'
        BY <3>3, <3>4 DEF ClaimInv, PastClaims, Advances
    <3>7. \A j \in Ticks : (j # i /\ tpc[j] = "trigger") =>
              seen[j].nextAt # t /\ seen[j].nextAt \in Times
        BY <2>5 DEF TriggerRun, ClaimInv, TypeInv, SeenDue, Triggering, t
    <3>8. Triggering'
        BY <3>2, <3>3, <3>4, <3>7 DEF ClaimInv, Triggering
    <3> QED BY <1>t, <3>5, <3>6, <3>8 DEF ClaimInv
  <2> QED BY <1>5, <2>1, <2>2, <2>3, <2>4, <2>5 DEF Tick
<1> QED BY <1>0, <1>1, <1>2, <1>3, <1>4, <1>5 DEF Next

-----------------------------------------------------------------------------
(* Why a stale tick cannot overwrite an edit: next_run_at never comes back *)
(* to a time some tick has seen, so a tick whose time is still there saw   *)
(* the row as it is.  With one editor at a time the edit is of that row.   *)

ReadIsRow == \A e \in Editors : epc[e] = "read" => read[e] = <<cron, zone>>

SeenIsRow ==
    \A i \in Ticks : tpc[i] # "idle" =>
        /\ seen[i].nextAt <= nextAt
        /\ seen[i].nextAt = nextAt => seen[i].cron = cron /\ seen[i].zone = zone

ComputedFromSeen ==
    \A i \in Ticks : tpc[i] \in {"computed", "claim"} =>
        \E t \in Times : newNext[i] = NextFire[<<seen[i].cron, seen[i].zone, t>>]

RowInv == ClaimInv /\ NextIsOfRow /\ ReadIsRow /\ SeenIsRow /\ ComputedFromSeen

LEMMA RowInit == Init => RowInv
<1> SUFFICES ASSUME Init PROVE RowInv OBVIOUS
<1>1. 0 \in Times BY ScheduleConstants DEF Times
<1>2. NextIsOfRow BY <1>1 DEF Init, NextIsOfRow
<1> QED BY ClaimInit, <1>2
        DEF Init, RowInv, ReadIsRow, SeenIsRow, ComputedFromSeen

LEMMA RowStep ==
    ASSUME \A e, f \in Editors : e = f, RowInv, [Next]_vars
    PROVE  RowInv'
<1>c. ClaimInv' BY ClaimStep DEF RowInv
<1>n. now \in Int /\ nextAt \in Int /\ Times \subseteq Int /\ now \in Times
    BY ScheduleConstants DEF RowInv, ClaimInv, TypeInv, TypeOK, Times
<1>t. TypeOK /\ TypeOK' BY <1>c DEF RowInv, ClaimInv, TypeInv
<1>s. \A i \in Ticks : tpc[i] # "idle" =>
          seen[i].nextAt \in Int /\ seen[i].nextAt <= now
    BY <1>n DEF RowInv, ClaimInv, TypeInv, SeenDue
<1> USE DEF rowVars, tickVars, editVars
<1>0. CASE UNCHANGED vars
    BY <1>0, <1>c DEF vars, RowInv, NextIsOfRow, ReadIsRow, SeenIsRow,
                      ComputedFromSeen
<1>1. CASE Clock \/ DepsChange \/ DeleteSchedule
    BY <1>1, <1>c DEF Clock, DepsChange, DeleteSchedule, RowInv, NextIsOfRow,
                      ReadIsRow, SeenIsRow, ComputedFromSeen
<1>2. ASSUME NEW e \in Editors, PatchRead(e) \/ PatchTooLate(e) PROVE RowInv'
  <2>1. UNCHANGED <<cron, zone, nextAt, tpc, seen, newNext>>
      BY <1>2 DEF PatchRead, PatchTooLate
  <2>2. ReadIsRow'
      BY <1>2, <1>t DEF PatchRead, PatchTooLate, RowInv, TypeOK, ReadIsRow
  <2> QED BY <1>c, <2>1, <2>2 DEF RowInv, NextIsOfRow, SeenIsRow,
                                  ComputedFromSeen
<1>3. ASSUME NEW e \in Editors, NEW c \in Crons \cup {Keep},
             NEW z \in Zones \cup {Keep}, NEW b \in BOOLEAN \cup {Keep},
             Patch(e, c, z, b)
      PROVE  RowInv'
  <2>1. UNCHANGED <<now, tpc, seen, newNext, read>> BY <1>3 DEF Patch
  <2>2. read[e][1] = cron /\ read[e][2] = zone
      BY <1>3 DEF Patch, RowInv, ReadIsRow
  <2>3. NextIsOfRow'
    <3>1. CASE c = Keep /\ z = Keep
        BY <1>3, <3>1 DEF Patch, RowInv, NextIsOfRow
    <3>2. CASE ~(c = Keep /\ z = Keep)
      <4>1. nextAt' = NextFire[<<cron', zone', now>>]
          BY <1>3, <2>2, <3>2 DEF Patch
      <4> QED BY <4>1, <1>n DEF NextIsOfRow, Times
    <3> QED BY <3>1, <3>2
  <2>4. ReadIsRow'
      BY <1>3, <1>t DEF Patch, TypeOK, ReadIsRow
  <2>5. (UNCHANGED <<cron, zone, nextAt>>) \/ (nextAt' \in Nat /\ nextAt' > now)
    <3>1. c = Keep /\ z = Keep => UNCHANGED <<cron, zone, nextAt>>
        BY <1>3 DEF Patch
    <3>2. ~(c = Keep /\ z = Keep) => nextAt' = NextFire[<<cron', zone', now>>]
        BY <1>3, <2>2 DEF Patch
    <3>3. cron' \in Crons /\ zone' \in Zones BY <1>t DEF TypeOK
    <3> QED BY <1>n, <3>1, <3>2, <3>3, NextFireLater
  <2>6. SeenIsRow' BY <1>n, <1>s, <2>1, <2>5 DEF RowInv, SeenIsRow
  <2> QED BY <1>c, <2>1, <2>3, <2>4, <2>6 DEF RowInv, ComputedFromSeen
<1>4. ASSUME NEW i \in Ticks, Tick(i) \/ TickFails(i) PROVE RowInv'
  <2>0. UNCHANGED <<cron, zone, epc, read>>
      BY <1>4 DEF Tick, FindDue, ComputeNext, DepsBlock, DepsPass, Claim,
                  ClaimLost, TriggerRun, TickFails
  <2>r. ReadIsRow' BY <2>0 DEF RowInv, ReadIsRow
  <2>o. \A j \in Ticks : j # i => tpc'[j] = tpc[j] /\ seen'[j] = seen[j]
                                  /\ newNext'[j] = newNext[j]
      BY <1>4, <1>t DEF Tick, FindDue, ComputeNext, DepsBlock, DepsPass, Claim,
                        ClaimLost, TriggerRun, TickFails, TypeOK
  <2>1. CASE FindDue(i)
    <3>1. seen'[i] = [cron |-> cron, zone |-> zone, nextAt |-> nextAt]
          /\ tpc'[i] = "due" /\ nextAt' = nextAt
        BY <2>1, <1>t DEF FindDue, TypeOK
    <3>2. SeenIsRow' BY <1>n, <2>0, <2>o, <3>1 DEF RowInv, SeenIsRow
    <3>3. ComputedFromSeen' BY <2>o, <3>1 DEF RowInv, ComputedFromSeen
    <3> QED BY <1>c, <2>0, <2>r, <3>1, <3>2, <3>3 DEF RowInv, NextIsOfRow
  <2>2. CASE ComputeNext(i)
    <3>1. seen' = seen /\ nextAt' = nextAt /\ tpc[i] # "idle"
        BY <2>2 DEF ComputeNext
    <3>2. newNext'[i] = NextFire[<<seen[i].cron, seen[i].zone, now>>]
        BY <2>2, <1>t DEF ComputeNext, TypeOK
    <3>3. SeenIsRow' BY <2>0, <2>o, <3>1 DEF RowInv, SeenIsRow
    <3>4. ComputedFromSeen'
        BY <1>n, <2>o, <3>1, <3>2 DEF RowInv, ComputedFromSeen, Times
    <3> QED BY <1>c, <2>0, <2>r, <3>1, <3>3, <3>4 DEF RowInv, NextIsOfRow
  <2>3. CASE Claim(i)
    <3>1. seen' = seen /\ newNext' = newNext /\ nextAt' = newNext[i]
          /\ nextAt = seen[i].nextAt /\ tpc[i] = "claim" /\ tpc'[i] = "trigger"
        BY <2>3, <1>t DEF Claim, Claimable, TypeOK
    <3>2. nextAt' > nextAt /\ nextAt' \in Int
        BY <3>1, <1>t DEF RowInv, ClaimInv, Advances, TypeOK
    <3>3. NextIsOfRow'
        BY <2>0, <3>1 DEF RowInv, SeenIsRow, ComputedFromSeen, NextIsOfRow,
                          Times
    <3>4. SeenIsRow'
        BY <1>n, <1>s, <2>o, <3>1, <3>2 DEF RowInv, SeenIsRow
    <3>5. ComputedFromSeen' BY <2>o, <3>1 DEF RowInv, ComputedFromSeen
    <3> QED BY <1>c, <2>r, <3>3, <3>4, <3>5 DEF RowInv
  <2>4. CASE DepsPass(i)
    <3>1. seen' = seen /\ newNext' = newNext /\ nextAt' = nextAt
          /\ tpc[i] = "computed"
        BY <2>4 DEF DepsPass
    <3>2. SeenIsRow' BY <2>0, <2>o, <3>1 DEF RowInv, SeenIsRow
    <3>3. ComputedFromSeen' BY <2>o, <3>1 DEF RowInv, ComputedFromSeen
    <3> QED BY <1>c, <2>0, <2>r, <3>1, <3>2, <3>3 DEF RowInv, NextIsOfRow
  <2>5. CASE DepsBlock(i) \/ ClaimLost(i) \/ TriggerRun(i) \/ TickFails(i)
    <3>1. seen' = seen /\ newNext' = newNext /\ nextAt' = nextAt
          /\ tpc'[i] = "idle"
        BY <2>5, <1>t DEF DepsBlock, ClaimLost, TriggerRun, TickFails, TypeOK
    <3>2. SeenIsRow' BY <2>0, <2>o, <3>1 DEF RowInv, SeenIsRow
    <3>3. ComputedFromSeen' BY <2>o, <3>1 DEF RowInv, ComputedFromSeen
    <3> QED BY <1>c, <2>0, <2>r, <3>1, <3>2, <3>3 DEF RowInv, NextIsOfRow
  <2> QED BY <1>4, <2>1, <2>2, <2>3, <2>4, <2>5 DEF Tick
<1> QED BY <1>0, <1>1, <1>2, <1>3, <1>4 DEF Next, Edit

\* Every variable keeps its type; a tick that is under way has read a
\* next_run_at that is due.
THEOREM TypeCorrect == Spec => []TypeOK
<1>1. Init => TypeInv BY TypeInit
<1>2. TypeInv /\ [Next]_vars => TypeInv' BY TypeStep
<1>3. TypeInv => TypeOK BY DEF TypeInv
<1> QED BY <1>1, <1>2, <1>3, PTL DEF Spec

\* However many instances and overlapping ticks race, and whoever edits the
\* schedule meanwhile, a next_run_at is claimed once and fires at most once.
THEOREM TickFiresAtMostOnce == Spec => []FiredOnce
<1>1. Init => ClaimInv BY ClaimInit
<1>2. ClaimInv /\ [Next]_vars => ClaimInv' BY ClaimStep
<1>3. ClaimInv => FiredOnce BY DEF ClaimInv
<1> QED BY <1>1, <1>2, <1>3, PTL DEF Spec

\* With one editor at a time, a tick that read the row before an edit never
\* writes its stale firing over the edited row: next_run_at is always a firing
\* of the row's own expression in the row's own zone.  (Two editors break
\* this.)
THEOREM EditsSurviveTicks ==
    ASSUME \A e, f \in Editors : e = f
    PROVE  Spec => []NextIsOfRow
<1>1. Init => RowInv BY RowInit
<1>2. RowInv /\ [Next]_vars => RowInv' BY RowStep
<1>3. RowInv => NextIsOfRow BY DEF RowInv
<1> QED BY <1>1, <1>2, <1>3, PTL DEF Spec
===============================================================================
