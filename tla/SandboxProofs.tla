---------------------------- MODULE SandboxProofs ----------------------------
(***************************************************************************)
(* Proofs about Sandbox for any number of executions, pool members and     *)
(* reconnect chains, any thresholds and any number of crashes and recycles *)
(* of the sandbox.                                                         *)
(***************************************************************************)
EXTENDS Sandbox, FiniteSetTheorems, TLAPS

States == {"none", "STARTING", "ACTIVE", "DRAINING_OLD"}
Steps == {"idle", "ready", "write", "catch", "done", "unrecorded"} \cup Waiting

\* A write of an execution's row is refused.
Refused(e) == MarkRunningFails(e) \/ WriteFails(e) \/ WriteKilledFails(e)

\* An execution that waits is in flight on its instance or reported killed.
Accounted ==
    \A e \in Execs : epc[e] \in Waiting =>
        /\ at[e] \in Instances
        /\ e \in inflight[at[e]] \/ e \in killed

\* An instance that has never been the primary has nothing to drain.
Fresh(i) ==
    /\ i # primary
    /\ i \notin retired
    /\ drain[i] = "none"
    /\ inflight[i] = {}

PoolIsFresh ==
    /\ primary <= created
    /\ \A i \in warmPool : i <= created
    /\ \A i \in Instances : (i \in warmPool \/ i > created) => Fresh(i)

\* Only a drain in place drains the primary, and an instance that has been
\* replaced is closed with nothing in flight and never comes back.
DrainOrder ==
    /\ drain[primary] # "none" => isDraining
    /\ primary \notin retired
    /\ \A i \in Instances \ {primary} :
          drain[i] = "command" \/ i \in retired => inflight[i] = {}
    /\ \A i \in retired : drain[i] = "none"

-----------------------------------------------------------------------------
(* Types.                                                                  *)

\* What replenishPool returns: instances of the pool it was given, and new
\* ones beyond those created before.
LEMMA ReplenishFacts ==
    ASSUME TypeOK,
           NEW pool \in SUBSET Instances, NEW st \in [Instances -> States],
           NEW draining \in BOOLEAN,
           Replenish(pool, st, draining)
    PROVE  /\ created' \in Instances
           /\ created <= created'
           /\ warmPool' \subseteq Instances
           /\ state' \in [Instances -> States]
           /\ \A i \in warmPool' : i \in pool \/ (created < i /\ i <= created')
    <1>1. Cardinality(pool) \in Nat
        <2>1. IsFiniteSet(Instances)
            BY FS_Interval, SandboxConstants DEF Instances
        <2>2. IsFiniteSet(pool)
            BY <2>1, FS_Subset
        <2> QED BY <2>2, FS_CardinalityType
    <1>2. /\ created \in Nat /\ 1 <= created /\ created <= MaxInstances
          /\ MaxInstances \in Nat
        BY SandboxConstants DEF TypeOK, Instances
    <1>3. PICK room \in Int : room = IF draining THEN 0 ELSE PoolSize - Cardinality(pool)
        BY <1>1, SandboxConstants
    <1>4. PICK last : last = IF room <= 0 THEN created
                             ELSE IF created + room <= MaxInstances THEN created + room
                             ELSE MaxInstances
        OBVIOUS
    <1>5. last \in Nat /\ created <= last /\ last <= MaxInstances
        BY <1>2, <1>3, <1>4
    <1>6. /\ created' = last
          /\ warmPool' = pool \cup ((created + 1) .. last)
          /\ state' = [i \in Instances |-> IF i \in (created + 1) .. last
                                           THEN "STARTING" ELSE st[i]]
        BY <1>3, <1>4 DEF Replenish
    <1>7. created' \in Instances /\ created <= created'
        BY <1>2, <1>5, <1>6 DEF Instances
    <1>8. warmPool' \subseteq Instances
        BY <1>2, <1>5, <1>6 DEF Instances
    <1>9. state' \in [Instances -> States]
        BY <1>6 DEF States
    <1>10. \A i \in warmPool' : i \in pool \/ (created < i /\ i <= created')
        BY <1>2, <1>5, <1>6
    <1> QED BY <1>7, <1>8, <1>9, <1>10

\* What triggerRecycle leaves: the primary it drains stays or gives way to a
\* pool member.
LEMMA RecycleFacts ==
    ASSUME TypeOK, Recycle
    PROVE  /\ ~isDraining
           /\ primary' \in Instances
           /\ created' \in Instances
           /\ created <= created'
           /\ warmPool' \subseteq Instances
           /\ state' \in [Instances -> States]
           /\ misses' \in 0 .. PingMissThreshold
           /\ isDraining' \in BOOLEAN
           /\ drain' = [drain EXCEPT ![primary] = "wait"]
           /\ \/ primary' = primary /\ isDraining'
              \/ primary' \in warmPool
           /\ \A i \in warmPool' :
                 \/ i \in warmPool /\ (i = primary' => i = primary)
                 \/ created < i /\ i <= created'
    <1>0. ~isDraining /\ primary \in Instances /\ 0 \in 0 .. PingMissThreshold
        BY SandboxConstants DEF Recycle, TypeOK
    <1>1. ASSUME NEW c \in warmPool, Promote(c)
          PROVE  /\ primary' = c
                 /\ created' \in Instances /\ created <= created'
                 /\ warmPool' \subseteq Instances
                 /\ state' \in [Instances -> States]
                 /\ misses' = 0 /\ isDraining' = isDraining
                 /\ drain' = [drain EXCEPT ![primary] = "wait"]
                 /\ \A i \in warmPool' :
                      i \in warmPool \ {c} \/ (created < i /\ i <= created')
        <2>1. warmPool \ {c} \in SUBSET Instances
            BY DEF TypeOK
        <2>2. [state EXCEPT ![primary] = "DRAINING_OLD"] \in [Instances -> States]
            BY DEF TypeOK, States
        <2>3. Replenish(warmPool \ {c}, [state EXCEPT ![primary] = "DRAINING_OLD"], FALSE)
            BY <1>1 DEF Promote
        <2>4. /\ created' \in Instances /\ created <= created'
              /\ warmPool' \subseteq Instances
              /\ state' \in [Instances -> States]
              /\ \A i \in warmPool' :
                   i \in warmPool \ {c} \/ (created < i /\ i <= created')
            BY <2>1, <2>2, <2>3, ReplenishFacts
        <2> QED BY <1>1, <2>4 DEF Promote
    <1>2. CASE DrainInPlace
        <2>1. state' \in [Instances -> States]
            BY <1>2 DEF DrainInPlace, TypeOK, States
        <2>2. created <= created
            BY DEF TypeOK, Instances
        <2> QED BY <1>0, <1>2, <2>1, <2>2 DEF DrainInPlace, TypeOK
    <1>3. CASE \E c \in warmPool : Promote(c)
        <2>1. PICK c \in warmPool : Promote(c)
            BY <1>3
        <2> QED BY <1>0, <1>1, <2>1 DEF TypeOK
    <1> QED BY <1>2, <1>3 DEF Recycle

LEMMA TypeInit == Init => TypeOK
    <1> SUFFICES ASSUME Init PROVE TypeOK
        OBVIOUS
    <1>1. /\ 1 \in Instances /\ 0 \in Nat /\ 0 \in 0 .. PingMissThreshold
          /\ 0 \in 0 .. MaxCrashes /\ 0 \in 0 .. MaxRecycles
          /\ 0 \in 0 .. MaxWriteFailures
        BY SandboxConstants DEF Instances
    <1>2. /\ up \in [Instances -> BOOLEAN] /\ conn \in [Instances -> BOOLEAN]
          /\ state \in [Instances -> States]
        BY DEF Init, States
    <1>3. /\ inflight \in [Instances -> SUBSET Execs]
          /\ runCount \in [Instances -> Nat]
          /\ pings \in [Instances -> Nat]
          /\ drain \in [Instances -> {"none", "wait", "command"}]
        BY <1>1 DEF Init
    <1>4. /\ recon \in [Reconnects -> {"none", "timer", "connecting"}]
          /\ target \in [Reconnects -> Instances]
        BY <1>1 DEF Init
    <1>5. /\ epc \in [Execs -> Steps]
          /\ at \in [Execs -> Instances \cup {NoInstance}]
          /\ row \in [Execs -> {"none", "running", "ended"}]
        BY DEF Init, Steps
    <1> QED
        BY <1>1, <1>2, <1>3, <1>4, <1>5 DEF Init, TypeOK, States, Steps

\* The steps of an execution keep the types.
LEMMA TypeDispatch ==
    ASSUME TypeOK, NEW e \in Execs,
           MarkRunning(e) \/ Dispatch(e) \/ Answer(e) \/ Refused(e)
    PROVE  TypeOK'
    <1> USE DEF poolVars, procVars, pingVars, healthVars, drainVars, execVars, killVars, bounds
    <1>1. CASE MarkRunning(e)
        BY <1>1 DEF MarkRunning, TypeOK
    <1>2. CASE RouteRefused(e)
        BY <1>2 DEF RouteRefused, TypeOK
    <1>3. CASE Settle(e)
        <2>1. inflight' \in [Instances -> SUBSET Execs]
            BY <1>3 DEF Settle, RecordCompletion, TypeOK
        <2>2. at' \in [Execs -> Instances \cup {NoInstance}]
            BY <1>3 DEF Settle, RecordCompletion, TypeOK
        <2>3. epc' \in [Execs -> Steps]
            BY <1>3 DEF Settle, TypeOK, Steps
        <2> QED BY <1>3, <2>1, <2>2, <2>3 DEF Settle, TypeOK, Steps
    <1>4. CASE WriteRow(e)
        BY <1>4 DEF WriteRow, TypeOK
    <1>5. CASE WriteKilled(e)
        BY <1>5 DEF WriteKilled, TypeOK
    <1>6. CASE Route(e)
        <2>1. inflight' \in [Instances -> SUBSET Execs]
            BY <1>6 DEF Route, TypeOK
        <2>2. at' \in [Execs -> Instances \cup {NoInstance}]
            BY <1>6 DEF Route, TypeOK
        <2>3. epc' \in [Execs -> Steps]
            BY <1>6 DEF Route, TypeOK, Waiting, Steps
        <2>4. runCount' \in [Instances -> Nat]
            <3>1. PICK m \in Nat : runCount' = [runCount EXCEPT ![primary] = m]
                BY <1>6 DEF Route, TypeOK
            <3> QED BY <3>1 DEF TypeOK
        <2>5. UNCHANGED <<procVars, pingVars, row, killVars, bounds>>
            BY <1>6 DEF Route
        <2>6. CASE Recycle
            <3>1. drain' \in [Instances -> {"none", "wait", "command"}]
                BY <2>6, RecycleFacts DEF TypeOK
            <3>2. UNCHANGED <<retired, recon, target, armed>>
                BY <2>6 DEF Recycle
            <3> QED
                BY <2>1, <2>2, <2>3, <2>4, <2>5, <2>6, <3>1, <3>2, RecycleFacts
                DEF TypeOK, States, Steps
        <2>7. CASE NoRecycle
            BY <2>1, <2>2, <2>3, <2>4, <2>5, <2>7 DEF NoRecycle, TypeOK, Steps
        <2> QED BY <1>6, <2>6, <2>7 DEF Route
    <1>7. CASE Refused(e)
        <2>1. refusals' \in 0 .. MaxWriteFailures
            BY <1>7, SandboxConstants
            DEF Refused, MarkRunningFails, WriteFails, WriteKilledFails, TypeOK
        <2>2. epc' \in [Execs -> Steps]
            BY <1>7 DEF Refused, MarkRunningFails, WriteFails, WriteKilledFails, TypeOK, Steps
        <2>3. CASE MarkRunningFails(e) \/ WriteFails(e)
            BY <2>1, <2>2, <2>3 DEF MarkRunningFails, WriteFails, TypeOK, Steps
        <2>4. CASE WriteKilledFails(e)
            BY <2>1, <2>4 DEF WriteKilledFails, TypeOK
        <2> QED BY <1>7, <2>3, <2>4 DEF Refused
    <1> QED
        BY <1>1, <1>2, <1>3, <1>4, <1>5, <1>6, <1>7
        DEF Dispatch, Answer, Timeout, Rejected

\* The steps of one instance keep the types.
LEMMA TypeInstance ==
    ASSUME TypeOK, NEW i \in Instances,
           \/ ProcessCrash(i) \/ ProcessRestart(i) \/ PoolConnect(i)
           \/ Drain(i) \/ PingOk(i)
    PROVE  TypeOK'
    <1> USE DEF poolVars, procVars, pingVars, healthVars, drainVars, execVars, killVars, bounds
    <1>0. ASSUME Reject(i)
          PROVE  /\ epc' \in [Execs -> Steps]
                 /\ pings' \in [Instances -> Nat]
                 /\ lostPings' \in Nat
        <2>1. epc' \in [Execs -> Steps]
            BY <1>0 DEF Reject, TypeOK, Waiting, Steps
        <2>2. pings' \in [Instances -> Nat] /\ lostPings' \in Nat
            BY <1>0 DEF Reject, TypeOK
        <2> QED BY <2>1, <2>2
    <1>1. CASE ProcessCrash(i)
        <2>1. crashes' \in 0 .. MaxCrashes
            BY <1>1, SandboxConstants DEF ProcessCrash, TypeOK
        <2>2. /\ epc' \in [Execs -> Steps]
              /\ pings' \in [Instances -> Nat]
              /\ lostPings' \in Nat
            BY <1>0, <1>1 DEF ProcessCrash
        <2>3. up' \in [Instances -> BOOLEAN] /\ conn' \in [Instances -> BOOLEAN]
            BY <1>1 DEF ProcessCrash, TypeOK
        <2> QED BY <1>1, <2>1, <2>2, <2>3 DEF ProcessCrash, TypeOK, Steps
    <1>2. CASE ProcessRestart(i)
        BY <1>2 DEF ProcessRestart, TypeOK
    <1>3. CASE PoolConnect(i)
        <2>1. /\ state' \in [Instances -> {"none", "STARTING", "ACTIVE", "DRAINING_OLD"}]
              /\ conn' \in [Instances -> BOOLEAN]
              /\ warmPool' \subseteq Instances
            BY <1>3 DEF PoolConnect, TypeOK
        <2> QED BY <1>3, <2>1 DEF PoolConnect, TypeOK
    <1>4. CASE Drained(i)
        BY <1>4 DEF Drained, TypeOK
    <1>5. CASE GraceExpires(i)
        <2>1. inflight' \in [Instances -> SUBSET Execs]
            BY <1>5 DEF GraceExpires, TypeOK
        <2>2. killing' \subseteq Execs /\ killed' \subseteq Execs
            BY <1>5 DEF GraceExpires, OnCrash, TypeOK
        <2>3. drain' \in [Instances -> {"none", "wait", "command"}]
            BY <1>5 DEF GraceExpires, TypeOK
        <2> QED BY <1>5, <2>1, <2>2, <2>3 DEF GraceExpires, TypeOK
    <1>6. CASE DrainEnds(i)
        <2>1. drain' \in [Instances -> {"none", "wait", "command"}]
            BY <1>6 DEF DrainEnds, TypeOK
        <2>2. UNCHANGED <<primary, up, inflight, runCount, healthVars, row,
                          at, killVars, bounds>>
            BY <1>6 DEF DrainEnds
        <2>3. CASE i = primary
            <3>1. [state EXCEPT ![i] = "ACTIVE"] \in [Instances -> States]
                BY DEF TypeOK, States
            <3>2. warmPool \in SUBSET Instances
                BY DEF TypeOK
            <3>3. Replenish(warmPool, [state EXCEPT ![i] = "ACTIVE"], FALSE)
                BY <1>6, <2>3 DEF DrainEnds
            <3>4. /\ created' \in Instances /\ warmPool' \subseteq Instances
                  /\ state' \in [Instances -> States]
                BY <3>1, <3>2, <3>3, ReplenishFacts
            <3>5. isDraining' = FALSE /\ UNCHANGED <<conn, retired, epc, pingVars>>
                BY <1>6, <2>3 DEF DrainEnds
            <3> QED BY <2>1, <2>2, <3>4, <3>5 DEF TypeOK, States
        <2>4. CASE i # primary
            <3>1. /\ conn' \in [Instances -> BOOLEAN]
                  /\ retired' \subseteq Instances
                BY <1>6, <2>4 DEF DrainEnds, TypeOK
            <3>2. /\ epc' \in [Execs -> Steps]
                  /\ pings' \in [Instances -> Nat]
                  /\ lostPings' \in Nat
                BY <1>0, <1>6, <2>4 DEF DrainEnds
            <3>3. UNCHANGED <<warmPool, created, state, isDraining>>
                BY <1>6, <2>4 DEF DrainEnds
            <3> QED BY <2>1, <2>2, <3>1, <3>2, <3>3 DEF TypeOK, Steps
        <2> QED BY <2>3, <2>4
    <1>7. CASE PingOk(i)
        <2>0. /\ 0 \in 0 .. PingMissThreshold
              /\ [state EXCEPT ![primary] = "ACTIVE"] \in [Instances -> States]
              /\ warmPool \in SUBSET Instances
              /\ isDraining \in BOOLEAN
            BY SandboxConstants DEF TypeOK, States
        <2>3. pings' \in [Instances -> Nat]
            BY <1>7 DEF PingOk, TypeOK
        <2>1. CASE state[primary] = "STARTING"
            <3>1. Replenish(warmPool, [state EXCEPT ![primary] = "ACTIVE"], isDraining)
                BY <1>7, <2>1 DEF PingOk
            <3>2. /\ created' \in Instances /\ warmPool' \subseteq Instances
                  /\ state' \in [Instances -> States]
                BY <2>0, <3>1, ReplenishFacts
            <3>3. armed' = TRUE
                BY <1>7, <2>1 DEF PingOk
            <3>4. UNCHANGED <<primary, procVars, inflight, runCount, lostPings, recon,
                              target, drainVars, execVars, at, killVars, bounds>> /\ misses' = 0
                BY <1>7 DEF PingOk
            <3> QED BY <2>0, <2>3, <3>2, <3>3, <3>4 DEF TypeOK, States
        <2>2. CASE state[primary] # "STARTING"
            BY <2>0, <1>7, <2>2, <2>3 DEF PingOk, TypeOK
        <2> QED BY <2>1, <2>2
    <1> QED BY <1>1, <1>2, <1>3, <1>4, <1>5, <1>6, <1>7 DEF Drain

\* The manager's own steps keep the types.
LEMMA TypeManager ==
    ASSUME TypeOK,
           \/ \E c \in Reconnects : Reconnect(c)
           \/ SendPing \/ PingMiss \/ CrashRecovery \/ RecycleTimer
    PROVE  TypeOK'
    <1> USE DEF poolVars, procVars, pingVars, healthVars, drainVars, execVars, killVars, bounds
    <1>0. /\ 0 \in 0 .. PingMissThreshold
          /\ [state EXCEPT ![primary] = "ACTIVE"] \in [Instances -> States]
          /\ warmPool \in SUBSET Instances
          /\ isDraining \in BOOLEAN
        BY SandboxConstants DEF TypeOK, States
    <1>1. ASSUME NEW c \in Reconnects, ReconnectTimer(c) PROVE TypeOK'
        <2>1. /\ recon' \in [Reconnects -> {"none", "timer", "connecting"}]
              /\ target' \in [Reconnects -> Instances]
            BY <1>1 DEF ReconnectTimer, TypeOK
        <2> QED BY <1>1, <2>1 DEF ReconnectTimer, TypeOK
    <1>2. ASSUME NEW c \in Reconnects, ReconnectOk(c) PROVE TypeOK'
        <2>1. /\ recon' \in [Reconnects -> {"none", "timer", "connecting"}]
              /\ conn' \in [Instances -> BOOLEAN]
            BY <1>2 DEF ReconnectOk, TypeOK
        <2>2. Replenish(warmPool, [state EXCEPT ![primary] = "ACTIVE"], isDraining)
            BY <1>2 DEF ReconnectOk
        <2>3. /\ created' \in Instances /\ warmPool' \subseteq Instances
              /\ state' \in [Instances -> States]
            BY <1>0, <2>2, ReplenishFacts
        <2> QED BY <1>0, <1>2, <2>1, <2>3 DEF ReconnectOk, TypeOK, States
    <1>3. ASSUME NEW c \in Reconnects, ReconnectFails(c) PROVE TypeOK'
        <2>1. recon' \in [Reconnects -> {"none", "timer", "connecting"}]
            BY <1>3 DEF ReconnectFails, TypeOK
        <2> QED BY <1>3, <2>1 DEF ReconnectFails, TypeOK
    <1>4. CASE SendPing
        <2>1. /\ pings' \in [Instances -> Nat]
              /\ lostPings' \in Nat
            BY <1>4 DEF SendPing, TypeOK
        <2> QED BY <1>4, <2>1 DEF SendPing, TypeOK
    <1>5. CASE PingMiss
        <2>1. misses' \in 0 .. PingMissThreshold
            BY <1>5, SandboxConstants DEF PingMiss, TypeOK
        <2>2. lostPings' \in Nat
            BY <1>5 DEF PingMiss, LosePing, TypeOK
        <2> QED BY <1>5, <2>1, <2>2 DEF PingMiss, TypeOK
    <1>6. CASE CrashRecovery
        <2>1. /\ inflight' \in [Instances -> SUBSET Execs]
              /\ runCount' \in [Instances -> Nat]
            BY <1>6 DEF CrashRecovery, TypeOK
        <2>2. killing' \subseteq Execs /\ killed' \subseteq Execs
            BY <1>6 DEF CrashRecovery, OnCrash, TypeOK
        <2>3. recon' \in [Reconnects -> {"none", "timer", "connecting"}]
            <3>1. ScheduleReconnect
                BY <1>6 DEF CrashRecovery
            <3> QED BY <3>1 DEF ScheduleReconnect, TypeOK
        <2>4. state' \in [Instances -> {"none", "STARTING", "ACTIVE", "DRAINING_OLD"}]
            BY <1>6 DEF CrashRecovery, TypeOK
        <2>5. misses' = 0 /\ UNCHANGED <<primary, warmPool, created, procVars, pings,
                                         target, armed, drainVars, execVars, at, bounds>>
            BY <1>6 DEF CrashRecovery
        <2>6. lostPings' \in Nat
            BY <1>6 DEF CrashRecovery, LosePing, TypeOK
        <2> QED BY <1>0, <2>1, <2>2, <2>3, <2>4, <2>5, <2>6 DEF TypeOK
    <1>7. CASE RecycleTimer
        <2>1. recycles' \in 0 .. MaxRecycles
            BY <1>7, SandboxConstants DEF RecycleTimer, TypeOK
        <2>2. UNCHANGED <<procVars, inflight, pingVars, execVars, at, killVars, crashes, refusals>>
            BY <1>7 DEF RecycleTimer
        <2>3. runCount' \in [Instances -> Nat]
            BY <1>7 DEF RecycleTimer, TypeOK
        <2>4. CASE Recycle
            <3>1. drain' \in [Instances -> {"none", "wait", "command"}]
                BY <2>4, RecycleFacts DEF TypeOK
            <3>2. UNCHANGED <<retired, recon, target, armed>>
                BY <2>4 DEF Recycle
            <3> QED
                BY <2>1, <2>2, <2>3, <2>4, <3>1, <3>2, RecycleFacts DEF TypeOK, States
        <2>5. CASE NoRecycle
            BY <2>1, <2>2, <2>3, <2>5 DEF NoRecycle, TypeOK
        <2> QED BY <1>7, <2>4, <2>5 DEF RecycleTimer
    <1> QED BY <1>1, <1>2, <1>3, <1>4, <1>5, <1>6, <1>7 DEF Reconnect

LEMMA TypeStep == TypeOK /\ [Next]_vars => TypeOK'
    <1> SUFFICES ASSUME TypeOK, [Next]_vars PROVE TypeOK'
        OBVIOUS
    <1>1. CASE UNCHANGED vars
        BY <1>1 DEF vars, poolVars, procVars, pingVars, healthVars, drainVars, execVars,
                    killVars, bounds, TypeOK
    <1> QED BY <1>1, TypeDispatch, TypeInstance, TypeManager DEF Next, Refused

\* The manager's instances, timers and executions keep their types.
THEOREM TypeCorrect == Spec => []TypeOK
    BY TypeInit, TypeStep, PTL DEF Spec

-----------------------------------------------------------------------------
(* What is in flight.                                                      *)

Tracking == InflightTracked /\ Accounted

\* Steps that neither start, settle nor report an execution.
LEMMA TrackingStays ==
    Tracking /\ UNCHANGED <<inflight, at, epc, killed>> => Tracking'
    BY DEF Tracking, InflightTracked, Accounted

\* Reporting what an instance has in flight keeps every waiting execution
\* accounted for.
LEMMA ReportKeepsTracking ==
    ASSUME TypeOK, Tracking, NEW i \in Instances,
           OnCrash(inflight[i]),
           inflight' = [inflight EXCEPT ![i] = {}],
           UNCHANGED <<at, epc>>
    PROVE  Tracking'
    <1>1. InflightTracked'
        BY DEF Tracking, InflightTracked, TypeOK
    <1>2. killed' = killed \cup inflight[i]
        BY DEF OnCrash
    <1>3. \A j \in Instances : inflight[j] = inflight'[j] \/ j = i
        BY DEF TypeOK
    <1>4. Accounted'
        BY <1>2, <1>3 DEF Tracking, Accounted
    <1> QED BY <1>1, <1>4 DEF Tracking

\* A rejected request is still waited for.
LEMMA RejectKeepsTracking ==
    ASSUME TypeOK, Tracking, NEW i \in Instances, Reject(i),
           UNCHANGED <<inflight, at, killed>>
    PROVE  Tracking'
    <1>1. \A e \in Execs : epc'[e] \in Waiting <=> epc[e] \in Waiting
        BY DEF Reject, Waiting, TypeOK
    <1>2. \A j \in Instances : inflight[j] \subseteq Execs
        BY DEF TypeOK
    <1> QED BY <1>1, <1>2 DEF Tracking, InflightTracked, Accounted

\* Sending and settling an execution.
LEMMA DispatchKeepsTracking ==
    ASSUME TypeOK, Tracking, NEW e \in Execs,
           MarkRunning(e) \/ Dispatch(e) \/ Answer(e) \/ Refused(e)
    PROVE  Tracking'
    <1> USE DEF poolVars, procVars, pingVars, healthVars, drainVars, execVars, killVars, bounds
    <1>0. /\ \A j \in Instances : inflight[j] \subseteq Execs
          /\ primary \in Instances
          /\ NoInstance \notin Instances
        BY SandboxConstants DEF TypeOK, Instances
    <1>1. ASSUME epc[e] \notin Waiting,
                 \E x \in {"ready", "write", "catch", "done", "unrecorded"} : epc' = [epc EXCEPT ![e] = x],
                 UNCHANGED <<inflight, at, killed>>
          PROVE  Tracking'
        <2>1. \A d \in Execs : epc'[d] \in Waiting <=> epc[d] \in Waiting
            BY <1>1 DEF Waiting, TypeOK
        <2> QED BY <1>0, <1>1, <2>1 DEF Tracking, InflightTracked, Accounted
    <1>2. CASE MarkRunning(e)
        BY <1>1, <1>2 DEF MarkRunning, Waiting
    <1>3. CASE RouteRefused(e)
        BY <1>1, <1>3 DEF RouteRefused, Waiting
    <1>4. CASE WriteRow(e)
        BY <1>1, <1>4 DEF WriteRow, Waiting
    <1>5. CASE WriteKilled(e) \/ WriteKilledFails(e)
        BY <1>5, TrackingStays DEF WriteKilled, WriteKilledFails
    <1>8. CASE MarkRunningFails(e) \/ WriteFails(e)
        BY <1>1, <1>8 DEF MarkRunningFails, WriteFails, Waiting
    <1>6. CASE Route(e)
        <2>1. /\ inflight' = [inflight EXCEPT ![primary] = inflight[primary] \cup {e}]
              /\ at' = [at EXCEPT ![e] = primary]
              /\ killed' = killed
              /\ epc[e] \notin Waiting
            BY <1>6 DEF Route, Waiting
        <2>2. /\ epc'[e] \in Waiting /\ at'[e] = primary
              /\ \A d \in Execs \ {e} : epc'[d] = epc[d] /\ at'[d] = at[d]
            BY <1>6, <2>1 DEF Route, Waiting, TypeOK
        <2>3. \A j \in Instances : inflight'[j] = IF j = primary
                                   THEN inflight[j] \cup {e} ELSE inflight[j]
            BY <2>1 DEF TypeOK
        <2>4. \A j \in Instances : e \notin inflight[j]
            BY <2>1 DEF Tracking, InflightTracked
        <2>5. InflightTracked'
            <3> SUFFICES ASSUME NEW j \in Instances, NEW d \in inflight'[j]
                         PROVE  epc'[d] \in Waiting /\ at'[d] = j
                BY DEF InflightTracked
            <3>1. CASE d = e
                <4>1. j = primary
                    BY <2>3, <2>4, <3>1
                <4> QED BY <2>2, <3>1, <4>1
            <3>2. CASE d # e
                <4>1. d \in inflight[j]
                    BY <2>3, <3>2
                <4>2. d \in Execs \ {e} /\ epc[d] \in Waiting /\ at[d] = j
                    BY <1>0, <3>2, <4>1 DEF Tracking, InflightTracked
                <4> QED BY <2>2, <4>2
            <3> QED BY <3>1, <3>2
        <2>6. Accounted'
            BY <1>0, <2>1, <2>2, <2>3 DEF Tracking, Accounted
        <2> QED BY <2>5, <2>6 DEF Tracking
    <1>7. CASE Settle(e)
        <2>1. /\ epc'[e] \notin Waiting
              /\ \A d \in Execs \ {e} : epc'[d] = epc[d] /\ at'[d] = at[d]
              /\ killed' = killed
            BY <1>7 DEF Settle, RecordCompletion, Waiting, TypeOK
        <2>2. \A j \in Instances : inflight'[j] = IF j = at[e] THEN inflight[j] \ {e}
                                                  ELSE inflight[j]
            BY <1>7 DEF Settle, RecordCompletion
        <2>3. \A j \in Instances : e \notin inflight'[j]
            BY <2>2 DEF Tracking, InflightTracked
        <2>4. \A j \in Instances : inflight'[j] \subseteq inflight[j]
            BY <2>2
        <2>5. InflightTracked'
            BY <1>0, <2>1, <2>3, <2>4 DEF Tracking, InflightTracked
        <2>6. Accounted'
            BY <2>1, <2>2 DEF Tracking, Accounted
        <2> QED BY <2>5, <2>6 DEF Tracking
    <1> QED
        BY <1>2, <1>3, <1>4, <1>5, <1>6, <1>7, <1>8
        DEF Dispatch, Answer, Timeout, Rejected, Refused

LEMMA TrackingStep == TypeOK /\ Tracking /\ [Next]_vars => Tracking'
    <1> SUFFICES ASSUME TypeOK, Tracking, [Next]_vars PROVE Tracking'
        OBVIOUS
    <1> USE DEF poolVars, procVars, pingVars, healthVars, drainVars, execVars, killVars, bounds
    <1>1. CASE UNCHANGED vars
        BY <1>1, TrackingStays DEF vars
    <1>2. ASSUME NEW i \in Instances, ProcessCrash(i) PROVE Tracking'
        BY <1>2, RejectKeepsTracking DEF ProcessCrash
    <1>3. ASSUME NEW i \in Instances, ProcessRestart(i) \/ PoolConnect(i) \/ Drained(i)
                                      \/ PingOk(i)
          PROVE  Tracking'
        BY <1>3, TrackingStays DEF ProcessRestart, PoolConnect, Drained, PingOk
    <1>4. ASSUME NEW i \in Instances, GraceExpires(i) PROVE Tracking'
        BY <1>4, ReportKeepsTracking DEF GraceExpires
    <1>5. ASSUME NEW i \in Instances, DrainEnds(i) PROVE Tracking'
        <2>1. UNCHANGED <<inflight, at, killed>> /\ (UNCHANGED epc \/ Reject(i))
            BY <1>5 DEF DrainEnds
        <2> QED BY <2>1, TrackingStays, RejectKeepsTracking
    <1>6. ASSUME NEW c \in Reconnects, Reconnect(c) PROVE Tracking'
        BY <1>6, TrackingStays DEF Reconnect, ReconnectTimer, ReconnectOk, ReconnectFails
    <1>7. CASE SendPing \/ PingMiss \/ RecycleTimer
        BY <1>7, TrackingStays DEF SendPing, PingMiss, RecycleTimer
    <1>8. CASE CrashRecovery
        <2>1. primary \in Instances
            BY DEF TypeOK
        <2> QED BY <1>8, <2>1, ReportKeepsTracking DEF CrashRecovery
    <1> QED
        BY <1>1, <1>2, <1>3, <1>4, <1>5, <1>6, <1>7, <1>8, DispatchKeepsTracking
        DEF Next, Drain, Refused

LEMMA TrackingInit == Init => Tracking
    BY DEF Init, Tracking, InflightTracked, Accounted, Waiting

\* Every id in inflightIds is an execution that waits on that instance.
THEOREM InflightIsTracked == Spec => []InflightTracked
    <1>1. Init => TypeOK /\ Tracking
        BY TypeInit, TrackingInit
    <1>2. TypeOK /\ Tracking /\ [Next]_vars => (TypeOK /\ Tracking)'
        BY TypeStep, TrackingStep
    <1>3. Tracking => InflightTracked
        BY DEF Tracking
    <1> QED BY <1>1, <1>2, <1>3, PTL DEF Spec

\* Only an execution that is still waited for is ever reported killed.
LEMMA ReportIsTrue ==
    ASSUME TypeOK, InflightTracked, [Next]_vars
    PROVE  \A e \in killed' \ killed : epc[e] \in Waiting
    <1> USE DEF poolVars, procVars, pingVars, healthVars, drainVars, execVars, killVars, bounds
    <1>1. CASE UNCHANGED killed
        BY <1>1
    <1>2. ASSUME NEW i \in Instances, OnCrash(inflight[i])
          PROVE  \A e \in killed' \ killed : epc[e] \in Waiting
        BY <1>2 DEF OnCrash, InflightTracked
    <1>3. \/ UNCHANGED killed
          \/ \E i \in Instances : OnCrash(inflight[i])
        <2>1. ASSUME NEW e \in Execs, MarkRunning(e) \/ Dispatch(e) \/ Answer(e) \/ Refused(e)
              PROVE  UNCHANGED killed
            BY <2>1 DEF MarkRunning, Dispatch, Answer, RouteRefused, Route, Timeout,
                        Rejected, Settle, WriteRow, WriteKilled, Refused,
                        MarkRunningFails, WriteFails, WriteKilledFails
        <2>2. ASSUME NEW i \in Instances, ProcessCrash(i) \/ ProcessRestart(i)
                                          \/ PoolConnect(i) \/ Drained(i) \/ DrainEnds(i)
                                          \/ PingOk(i)
              PROVE  UNCHANGED killed
            BY <2>2 DEF ProcessCrash, ProcessRestart, PoolConnect, Drained, DrainEnds,
                        PingOk
        <2>3. ASSUME NEW i \in Instances, GraceExpires(i) PROVE OnCrash(inflight[i])
            BY <2>3 DEF GraceExpires
        <2>4. ASSUME NEW c \in Reconnects, Reconnect(c) PROVE UNCHANGED killed
            BY <2>4 DEF Reconnect, ReconnectTimer, ReconnectOk, ReconnectFails
        <2>5. CASE SendPing \/ PingMiss \/ RecycleTimer
            BY <2>5 DEF SendPing, PingMiss, RecycleTimer
        <2>6. CASE CrashRecovery
            BY <2>6 DEF CrashRecovery, TypeOK
        <2>7. CASE UNCHANGED vars
            BY <2>7 DEF vars
        <2> QED BY <2>1, <2>2, <2>3, <2>4, <2>5, <2>6, <2>7 DEF Next, Drain, Refused
    <1> QED BY <1>1, <1>2, <1>3

\* onCrash never reports an execution whose completion was recorded.
THEOREM NoFalseKillEver == Spec => NoFalseKill
    <1>1. TypeOK /\ InflightTracked /\ [Next]_vars =>
              [\A e \in killed' \ killed : epc[e] \in Waiting]_vars
        BY ReportIsTrue
    <1> QED BY <1>1, TypeCorrect, InflightIsTracked, PTL DEF Spec, NoFalseKill

-----------------------------------------------------------------------------
(* Which instances drain.                                                  *)

Roster == PoolIsFresh /\ DrainOrder

\* Steps that leave the pool, the drains and what is in flight alone.
LEMMA RosterStays ==
    Roster /\ UNCHANGED <<primary, warmPool, created, inflight, isDraining, drain, retired>>
        => Roster'
    BY DEF Roster, PoolIsFresh, DrainOrder, Fresh

\* Taking ids out of inflightIds harms nothing.
LEMMA RosterShrinks ==
    ASSUME Roster, TypeOK,
           UNCHANGED <<primary, warmPool, created, isDraining, drain, retired>>,
           \A i \in Instances : inflight'[i] \subseteq inflight[i]
    PROVE  Roster'
    <1>1. PoolIsFresh'
        BY DEF Roster, PoolIsFresh, Fresh
    <1>2. DrainOrder'
        BY DEF Roster, DrainOrder
    <1> QED BY <1>1, <1>2 DEF Roster

\* Filling up the pool brings in unused instances only.
LEMMA RosterReplenishes ==
    ASSUME Roster, TypeOK,
           UNCHANGED <<primary, inflight, isDraining, drain, retired>>,
           created' \in Instances, created <= created', warmPool' \subseteq Instances,
           \A i \in warmPool' : i \in warmPool \/ (created < i /\ i <= created')
    PROVE  Roster'
    <1>1. /\ created \in Int /\ created' \in Int /\ primary \in Int
          /\ \A i \in Instances : i \in Int
        BY SandboxConstants DEF TypeOK, Instances
    <1>2. primary' <= created'
        BY <1>1 DEF Roster, PoolIsFresh
    <1>3. \A i \in warmPool' : i <= created'
        BY <1>1 DEF Roster, PoolIsFresh
    <1>4. ASSUME NEW i \in Instances, i \in warmPool' \/ i > created' PROVE Fresh(i)'
        <2>1. i \in warmPool \/ i > created
            BY <1>1, <1>4
        <2> QED BY <2>1 DEF Roster, PoolIsFresh, Fresh
    <1>5. DrainOrder'
        BY DEF Roster, DrainOrder
    <1> QED BY <1>2, <1>3, <1>4, <1>5 DEF Roster, PoolIsFresh

\* A recycle drains a primary that nothing drained before and hands over to
\* an instance that was never drained.
LEMMA RosterRecycles ==
    ASSUME Roster, TypeOK, Recycle,
           \A i \in Instances \ {primary} : inflight'[i] = inflight[i]
    PROVE  Roster'
    <1>0. /\ primary \in Instances
          /\ primary' \in Instances
          /\ \A i \in Instances : i \in Int
          /\ created \in Instances /\ created' \in Instances
          /\ drain \in [Instances -> {"none", "wait", "command"}]
          /\ retired \subseteq Instances
          /\ warmPool \subseteq Instances /\ warmPool' \subseteq Instances
        <2>1. \A i \in Instances : i \in Int
            BY SandboxConstants DEF Instances
        <2>2. /\ primary' \in Instances /\ created' \in Instances
              /\ warmPool' \subseteq Instances
            BY RecycleFacts
        <2>3. /\ primary \in Instances /\ created \in Instances
              /\ drain \in [Instances -> {"none", "wait", "command"}]
              /\ retired \subseteq Instances
              /\ warmPool \subseteq Instances
            BY DEF TypeOK
        <2> QED BY <2>1, <2>2, <2>3
    <1>1. /\ created <= created' /\ ~isDraining
          /\ \/ primary' = primary /\ isDraining'
             \/ primary' \in warmPool
          /\ \A i \in warmPool' :
                \/ i \in warmPool /\ (i = primary' => i = primary)
                \/ created < i /\ i <= created'
          /\ retired' = retired
        BY RecycleFacts DEF Recycle
    <1>2. \A i \in Instances : drain'[i] = IF i = primary THEN "wait" ELSE drain[i]
        BY <1>0, RecycleFacts
    <1>3. /\ primary <= created
          /\ \A i \in warmPool : i <= created /\ Fresh(i)
        BY <1>0 DEF Roster, PoolIsFresh
    <1>4. primary' <= created
        BY <1>1, <1>3
    <1>5. primary' <= created' /\ \A i \in warmPool' : i <= created'
        BY <1>0, <1>1, <1>3, <1>4
    <1>6. ASSUME NEW i \in Instances, i \in warmPool' \/ i > created' PROVE Fresh(i)'
        <2>1. i # primary'
            BY <1>0, <1>1, <1>3, <1>4, <1>6 DEF Fresh
        <2>2. i \in warmPool \/ i > created
            BY <1>0, <1>1, <1>6
        <2>3. Fresh(i)
            BY <2>2 DEF Roster, PoolIsFresh
        <2> QED BY <1>1, <1>2, <2>1, <2>3 DEF Fresh
    <1>7. drain'[primary'] # "none" => isDraining'
        BY <1>0, <1>1, <1>2, <1>3 DEF Fresh
    <1>8. primary' \notin retired'
        BY <1>1, <1>3 DEF Fresh, Roster, DrainOrder
    <1>9. \A i \in retired : i # primary /\ drain[i] = "none"
        BY DEF Roster, DrainOrder
    <1>10. \A i \in Instances \ {primary'} :
              drain'[i] = "command" \/ i \in retired' => inflight'[i] = {}
        BY <1>1, <1>2, <1>9 DEF Roster, DrainOrder
    <1>11. \A i \in retired' : drain'[i] = "none"
        BY <1>0, <1>1, <1>2, <1>9
    <1> QED
        BY <1>5, <1>6, <1>7, <1>8, <1>10, <1>11 DEF Roster, PoolIsFresh, DrainOrder

\* A drain that ends.
LEMMA RosterDrains ==
    ASSUME Roster, TypeOK, NEW i \in Instances, Drain(i)
    PROVE  Roster'
    <1> USE DEF poolVars, procVars, pingVars, healthVars, drainVars, execVars, killVars, bounds
    <1>0. /\ drain \in [Instances -> {"none", "wait", "command"}]
          /\ inflight \in [Instances -> SUBSET Execs]
          /\ primary \in Instances /\ warmPool \subseteq Instances
          /\ retired \subseteq Instances
        BY DEF TypeOK
    <1>1. CASE Drained(i) \/ GraceExpires(i)
        <2>1. /\ drain[i] = "wait"
              /\ drain' = [drain EXCEPT ![i] = "command"]
              /\ UNCHANGED <<primary, warmPool, created, isDraining, retired>>
            BY <1>1 DEF Drained, GraceExpires
        <2>2. inflight'[i] = {} /\ \A j \in Instances \ {i} : inflight'[j] = inflight[j]
            BY <1>0, <1>1 DEF Drained, GraceExpires
        <2>3. \A j \in Instances : drain'[j] = IF j = i THEN "command" ELSE drain[j]
            BY <1>0, <2>1
        <2>4. i \notin warmPool /\ ~(i > created) /\ i \notin retired
            BY <2>1 DEF Roster, PoolIsFresh, DrainOrder, Fresh
        <2>5. PoolIsFresh'
            BY <2>1, <2>2, <2>3, <2>4 DEF Roster, PoolIsFresh, Fresh
        <2>6. drain'[primary'] # "none" => isDraining'
            BY <1>0, <2>1, <2>3 DEF Roster, DrainOrder
        <2>7. \A j \in Instances \ {primary} :
                 drain'[j] = "command" \/ j \in retired => inflight'[j] = {}
            BY <2>2, <2>3 DEF Roster, DrainOrder
        <2>8. \A j \in retired : drain'[j] = "none"
            BY <1>0, <2>3, <2>4 DEF Roster, DrainOrder
        <2> QED BY <2>1, <2>5, <2>6, <2>7, <2>8 DEF Roster, DrainOrder
    <1>2. CASE DrainEnds(i)
        <2>1. /\ drain[i] = "command"
              /\ drain' = [drain EXCEPT ![i] = "none"]
              /\ UNCHANGED <<primary, inflight>>
            BY <1>2 DEF DrainEnds
        <2>2. \A j \in Instances : drain'[j] = IF j = i THEN "none" ELSE drain[j]
            BY <1>0, <2>1
        <2>3. i \notin warmPool /\ ~(i > created) /\ i \notin retired
            BY <2>1 DEF Roster, PoolIsFresh, DrainOrder, Fresh
        <2>4. CASE i = primary
            <3>1. [state EXCEPT ![i] = "ACTIVE"] \in [Instances -> States]
                BY DEF TypeOK, States
            <3>2. /\ Replenish(warmPool, [state EXCEPT ![i] = "ACTIVE"], FALSE)
                  /\ UNCHANGED retired
                BY <1>2, <2>4 DEF DrainEnds
            <3>3. /\ created' \in Instances /\ created <= created'
                  /\ warmPool' \subseteq Instances
                  /\ \A j \in warmPool' : j \in warmPool \/ (created < j /\ j <= created')
                BY <1>0, <3>1, <3>2, ReplenishFacts
            <3>4. /\ created \in Int /\ created' \in Int /\ primary \in Int
                  /\ \A j \in Instances : j \in Int
                BY <3>3, SandboxConstants DEF TypeOK, Instances
            <3>5. primary' <= created' /\ \A j \in warmPool' : j <= created'
                BY <2>1, <3>3, <3>4 DEF Roster, PoolIsFresh
            <3>6. ASSUME NEW j \in Instances, j \in warmPool' \/ j > created'
                  PROVE  Fresh(j)'
                <4>1. j \in warmPool \/ j > created
                    BY <3>3, <3>4, <3>6
                <4>2. Fresh(j)
                    BY <4>1 DEF Roster, PoolIsFresh
                <4> QED BY <2>1, <2>2, <3>2, <4>2 DEF Fresh
            <3>7. DrainOrder'
                BY <1>0, <2>1, <2>2, <2>4, <3>2 DEF Roster, DrainOrder
            <3> QED BY <3>5, <3>6, <3>7 DEF Roster, PoolIsFresh
        <2>5. CASE i # primary
            <3>1. /\ UNCHANGED <<warmPool, created, isDraining>>
                  /\ retired' = retired \cup {i}
                BY <1>2, <2>5 DEF DrainEnds
            <3>2. inflight[i] = {}
                BY <2>1, <2>5 DEF Roster, DrainOrder
            <3>3. PoolIsFresh'
                BY <2>1, <2>2, <2>3, <3>1 DEF Roster, PoolIsFresh, Fresh
            <3>4. DrainOrder'
                BY <1>0, <2>1, <2>2, <2>5, <3>1, <3>2 DEF Roster, DrainOrder
            <3> QED BY <3>3, <3>4 DEF Roster
        <2> QED BY <2>4, <2>5
    <1> QED BY <1>1, <1>2 DEF Drain

\* An execution is put on the primary or settles.
LEMMA RosterDispatches ==
    ASSUME Roster, TypeOK, NEW e \in Execs,
           MarkRunning(e) \/ Dispatch(e) \/ Answer(e) \/ Refused(e)
    PROVE  Roster'
    <1> USE DEF poolVars, procVars, pingVars, healthVars, drainVars, execVars, killVars, bounds
    <1>1. CASE \/ MarkRunning(e) \/ RouteRefused(e) \/ WriteRow(e) \/ WriteKilled(e)
               \/ Refused(e)
        BY <1>1, RosterStays
        DEF MarkRunning, RouteRefused, WriteRow, WriteKilled, Refused,
            MarkRunningFails, WriteFails, WriteKilledFails
    <1>2. CASE Settle(e)
        <2>1. \A i \in Instances : inflight'[i] \subseteq inflight[i]
            BY <1>2 DEF Settle, RecordCompletion
        <2> QED BY <1>2, <2>1, RosterShrinks DEF Settle
    <1>3. CASE Route(e)
        <2>1. \A i \in Instances \ {primary} : inflight'[i] = inflight[i]
            BY <1>3 DEF Route, TypeOK
        <2>2. CASE Recycle
            BY <2>1, <2>2, RosterRecycles
        <2>3. CASE NoRecycle
            <3>1. UNCHANGED <<primary, warmPool, created, isDraining, drain, retired>>
                BY <2>3 DEF NoRecycle
            <3>2. PoolIsFresh'
                BY <2>1, <3>1 DEF Roster, PoolIsFresh, Fresh
            <3>3. DrainOrder'
                BY <2>1, <3>1 DEF Roster, DrainOrder
            <3> QED BY <3>2, <3>3 DEF Roster
        <2> QED BY <1>3, <2>2, <2>3 DEF Route
    <1> QED
        BY <1>1, <1>2, <1>3 DEF Dispatch, Answer, Timeout, Rejected

LEMMA RosterStep == TypeOK /\ Roster /\ [Next]_vars => Roster'
    <1> SUFFICES ASSUME TypeOK, Roster, [Next]_vars PROVE Roster'
        OBVIOUS
    <1> USE DEF poolVars, procVars, pingVars, healthVars, drainVars, execVars, killVars, bounds
    <1>0. /\ [state EXCEPT ![primary] = "ACTIVE"] \in [Instances -> States]
          /\ warmPool \in SUBSET Instances
          /\ isDraining \in BOOLEAN
        BY DEF TypeOK, States
    <1>1. CASE UNCHANGED vars
        BY <1>1, RosterStays DEF vars
    <1>2. ASSUME NEW i \in Instances, ProcessCrash(i) \/ ProcessRestart(i)
          PROVE  Roster'
        BY <1>2, RosterStays DEF ProcessCrash, ProcessRestart
    <1>3. ASSUME NEW i \in Instances, PoolConnect(i) PROVE Roster'
        <2>1. warmPool' \subseteq warmPool
            BY <1>3 DEF PoolConnect
        <2>2. UNCHANGED <<primary, created, inflight, isDraining, drain, retired>>
            BY <1>3 DEF PoolConnect
        <2> QED BY <2>1, <2>2 DEF Roster, PoolIsFresh, DrainOrder, Fresh
    <1>4. ASSUME Replenish(warmPool, [state EXCEPT ![primary] = "ACTIVE"], isDraining),
                 UNCHANGED <<primary, inflight, isDraining, drain, retired>>
          PROVE  Roster'
        <2>1. /\ created' \in Instances /\ created <= created'
              /\ warmPool' \subseteq Instances
              /\ \A i \in warmPool' : i \in warmPool \/ (created < i /\ i <= created')
            BY <1>0, <1>4, ReplenishFacts
        <2> QED BY <1>4, <2>1, RosterReplenishes
    <1>5. ASSUME NEW c \in Reconnects, Reconnect(c) PROVE Roster'
        <2>1. CASE ReconnectTimer(c) \/ ReconnectFails(c)
            BY <2>1, RosterStays DEF ReconnectTimer, ReconnectFails
        <2>2. CASE ReconnectOk(c)
            BY <1>4, <2>2 DEF ReconnectOk
        <2> QED BY <1>5, <2>1, <2>2 DEF Reconnect
    <1>6. ASSUME NEW i \in Instances, PingOk(i) PROVE Roster'
        <2>1. CASE state[primary] = "STARTING"
            BY <1>4, <1>6, <2>1 DEF PingOk
        <2>2. CASE state[primary] # "STARTING"
            BY <1>6, <2>2, RosterStays DEF PingOk
        <2> QED BY <2>1, <2>2
    <1>7. CASE SendPing \/ PingMiss
        BY <1>7, RosterStays DEF SendPing, PingMiss
    <1>8. CASE CrashRecovery
        <2>1. \A i \in Instances : inflight'[i] \subseteq inflight[i]
            BY <1>8 DEF CrashRecovery, TypeOK
        <2> QED BY <1>8, <2>1, RosterShrinks DEF CrashRecovery
    <1>9. CASE RecycleTimer
        <2>1. CASE Recycle
            BY <1>9, <2>1, RosterRecycles DEF RecycleTimer
        <2>2. CASE NoRecycle
            BY <1>9, <2>2, RosterStays DEF RecycleTimer, NoRecycle
        <2> QED BY <1>9, <2>1, <2>2 DEF RecycleTimer
    <1> QED
        BY <1>1, <1>2, <1>3, <1>5, <1>6, <1>7, <1>8, <1>9, RosterDrains,
           RosterDispatches DEF Next, Refused

LEMMA RosterInit == Init => Roster
    <1> SUFFICES ASSUME Init PROVE Roster
        OBVIOUS
    <1>1. 1 \in Instances /\ \A i \in Instances : i \in Int
        BY SandboxConstants DEF Instances
    <1>2. PoolIsFresh
        BY <1>1 DEF Init, PoolIsFresh, Fresh
    <1>3. DrainOrder
        BY <1>1 DEF Init, DrainOrder
    <1> QED BY <1>2, <1>3 DEF Roster

\* An execution left on an instance that was closed has been reported killed.
THEOREM CutOffIsAlwaysReported == Spec => []CutOffIsReported
    <1>1. Init => TypeOK /\ Tracking /\ Roster
        BY TypeInit, TrackingInit, RosterInit
    <1>2. TypeOK /\ Tracking /\ Roster /\ [Next]_vars => (TypeOK /\ Tracking /\ Roster)'
        BY TypeStep, TrackingStep, RosterStep
    <1>3. TypeOK /\ Tracking /\ Roster => CutOffIsReported
        <2> SUFFICES ASSUME TypeOK, Tracking, Roster, NEW e \in Execs,
                            epc[e] \in Waiting, at[e] \in retired
                     PROVE  e \in killed
            BY DEF CutOffIsReported
        <2>1. at[e] \in Instances \ {primary}
            BY DEF Roster, DrainOrder, TypeOK
        <2>2. inflight[at[e]] = {}
            BY <2>1 DEF Roster, DrainOrder
        <2> QED BY <2>2 DEF Tracking, Accounted
    <1> QED BY <1>1, <1>2, <1>3, PTL DEF Spec
==============================================================================
