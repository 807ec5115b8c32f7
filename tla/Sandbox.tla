------------------------------- MODULE Sandbox -------------------------------
(***************************************************************************)
(* Executions on the isolated-vm sandboxes of the Execution Service:       *)
(* dispatchExecution routes an execution to the primary sandbox instance,  *)
(* the sandbox manager pings the primary, recovers from its crash and      *)
(* recycles it -- by promoting a member of the warm pool and retiring the  *)
(* old primary, or by draining it in place -- and handleSandboxCrash marks *)
(* executions as killed.                                                   *)
(*                                                                         *)
(* Instances are numbered in the order they are created.  The sandbox      *)
(* processes and Docker's restarts are the environment; a process that is  *)
(* alive answers pings and drain commands, however late.                   *)
(***************************************************************************)
EXTENDS Integers, FiniteSets

CONSTANTS
    Execs,             \* executions
    MaxInstances,      \* bound: instances ever created
    PoolSize,          \* warmPoolSize; 0 when createClient is not given
    RecycleAfter,      \* recycleAfterCount: 1000 by default
    PingMissThreshold, \* PING_MISS_THRESHOLD: 3 in the code
    Reconnects,        \* chains of reconnect timers that may overlap
    NoInstance,        \* an execution that is not in executionInstanceMap
    MaxPings,          \* bound: pings under way at once
    MaxCrashes,        \* bound: crashes of sandbox processes
    MaxRecycles,       \* bound: firings of the recycle timer
    MaxWriteFailures   \* bound: writes the database refuses

ASSUME SandboxConstants ==
    /\ MaxInstances \in Nat \ {0}
    /\ PoolSize \in Nat
    /\ RecycleAfter \in Nat \ {0}
    /\ PingMissThreshold \in Nat \ {0}
    /\ MaxPings \in Nat \ {0}
    /\ MaxCrashes \in Nat
    /\ MaxRecycles \in Nat
    /\ MaxWriteFailures \in Nat
    /\ NoInstance \notin Nat

VARIABLES
    primary,    \* the instance that receives new executions
    warmPool,   \* instances waiting to be promoted
    created,    \* poolSequence, plus the first primary
    state,      \* SandboxInstance.state, "none" before it is created
    up,         \* the instance's process is alive
    conn,       \* the instance's client has an open socket
    inflight,   \* SandboxInstance.inflightIds
    runCount,   \* SandboxInstance.runCount
    pings,      \* pings an instance's client has sent and awaits
    lostPings,  \* pings that were rejected, before performPing goes on
    misses,     \* consecutivePingMisses
    isDraining, \* the manager's flag, set by a drain in place
    drain,      \* where waitForInflightDrain and what follows it stand
    retired,    \* instances whose client drainAndCloseInstance has closed
    recon,      \* scheduleReconnect: each chain's timer or connect, ...
    target,     \* ... and the instance whose client it connects
    armed,      \* the recycle timer is set
    epc,        \* where the dispatch of each execution stands
    at,         \* executionInstanceMap
    row,        \* executions.status: "none" when queued; "ended" is any of
                \* success, error, timeout and killed
    killing,    \* handleSandboxCrash: updates to killed under way
    killed,     \* history: executions passed to onCrash
    crashes, recycles, refusals  \* counters of the bounds

poolVars == <<primary, warmPool, created, state>>
procVars == <<up, conn>>
pingVars == <<pings, lostPings>>
healthVars == <<misses, recon, target, armed>>
drainVars == <<isDraining, drain, retired>>
execVars == <<epc, row>>
killVars == <<killing, killed>>
bounds == <<crashes, recycles, refusals>>
vars == <<poolVars, procVars, inflight, runCount, pingVars, healthVars,
          drainVars, execVars, at, killVars, bounds>>

Instances == 1 .. MaxInstances
Waiting == {"sent", "rejected"}  \* the response is still awaited

TypeOK ==
    /\ primary \in Instances
    /\ warmPool \subseteq Instances
    /\ created \in Instances
    /\ state \in [Instances -> {"none", "STARTING", "ACTIVE", "DRAINING_OLD"}]
    /\ up \in [Instances -> BOOLEAN]
    /\ conn \in [Instances -> BOOLEAN]
    /\ inflight \in [Instances -> SUBSET Execs]
    /\ runCount \in [Instances -> Nat]
    /\ pings \in [Instances -> Nat]
    /\ lostPings \in Nat
    /\ misses \in 0 .. PingMissThreshold
    /\ isDraining \in BOOLEAN
    /\ drain \in [Instances -> {"none", "wait", "command"}]
    /\ retired \subseteq Instances
    /\ recon \in [Reconnects -> {"none", "timer", "connecting"}]
    /\ target \in [Reconnects -> Instances]
    /\ armed \in BOOLEAN
    /\ epc \in [Execs -> {"idle", "ready", "write", "catch", "done",
                          "unrecorded"} \cup Waiting]
    /\ at \in [Execs -> Instances \cup {NoInstance}]
    /\ row \in [Execs -> {"none", "running", "ended"}]
    /\ killing \subseteq Execs
    /\ killed \subseteq Execs
    /\ crashes \in 0 .. MaxCrashes
    /\ recycles \in 0 .. MaxRecycles
    /\ refusals \in 0 .. MaxWriteFailures

\* The service connects to the sandbox before the manager is created.
Init ==
    /\ primary = 1
    /\ warmPool = {}
    /\ created = 1
    /\ state = [i \in Instances |-> IF i = 1 THEN "STARTING" ELSE "none"]
    /\ up = [i \in Instances |-> TRUE]
    /\ conn = [i \in Instances |-> i = 1]
    /\ inflight = [i \in Instances |-> {}]
    /\ runCount = [i \in Instances |-> 0]
    /\ pings = [i \in Instances |-> 0]
    /\ lostPings = 0
    /\ misses = 0
    /\ isDraining = FALSE
    /\ drain = [i \in Instances |-> "none"]
    /\ retired = {}
    /\ recon = [c \in Reconnects |-> "none"]
    /\ target = [c \in Reconnects |-> 1]
    /\ armed = FALSE
    /\ epc = [e \in Execs |-> "idle"]
    /\ at = [e \in Execs |-> NoInstance]
    /\ row = [e \in Execs |-> "none"]
    /\ killing = {}
    /\ killed = {}
    /\ crashes = 0
    /\ recycles = 0
    /\ refusals = 0

-----------------------------------------------------------------------------
(* Building blocks of the sandbox manager.                                 *)

\* replenishPool: the pool is filled up with new instances, numbered on from
\* those created so far, unless draining; st is the state of the others.
Replenish(pool, st, draining) ==
    LET room == IF draining THEN 0 ELSE PoolSize - Cardinality(pool)
        last == IF room <= 0 THEN created
                ELSE IF created + room <= MaxInstances THEN created + room
                ELSE MaxInstances
        new  == (created + 1) .. last
    IN  /\ created' = last
        /\ warmPool' = pool \cup new
        /\ state' = [i \in Instances |-> IF i \in new THEN "STARTING" ELSE st[i]]

\* onCrash: handleSandboxCrash starts an update to killed for each.
OnCrash(ids) ==
    /\ killing' = killing \cup ids
    /\ killed' = killed \cup ids

\* The socket of an instance closes: its pending requests are rejected.
Reject(i) ==
    /\ epc' = [e \in Execs |-> IF epc[e] = "sent" /\ at[e] = i THEN "rejected"
                               ELSE epc[e]]
    /\ pings' = [pings EXCEPT ![i] = 0]
    /\ lostPings' = lostPings + pings[i]

\* triggerRecycle, from a state with these inflight ids and run counts.
\* Blue-green when a pool member is ACTIVE, whether or not it still lives.
Promote(c) ==
    /\ state[c] = "ACTIVE"
    /\ primary' = c
    /\ drain' = [drain EXCEPT ![primary] = "wait"]
    /\ Replenish(warmPool \ {c}, [state EXCEPT ![primary] = "DRAINING_OLD"],
                 FALSE)
    /\ misses' = 0
    /\ UNCHANGED isDraining

\* Otherwise drain in place.
DrainInPlace ==
    /\ \A c \in warmPool : state[c] # "ACTIVE"
    /\ isDraining' = TRUE
    /\ state' = [state EXCEPT ![primary] = "DRAINING_OLD"]
    /\ drain' = [drain EXCEPT ![primary] = "wait"]
    /\ UNCHANGED <<primary, warmPool, created, misses>>

Recycle ==
    /\ ~isDraining
    /\ (\E c \in warmPool : Promote(c)) \/ DrainInPlace
    /\ UNCHANGED <<retired, recon, target, armed>>

NoRecycle == UNCHANGED <<poolVars, healthVars, drainVars>>

\* Mutant: the completion is taken from the primary of the moment.
CompleteOnPrimary(e) ==
    /\ inflight' = [inflight EXCEPT ![primary] = @ \ {e}]
    /\ at' = [at EXCEPT ![e] = NoInstance]

\* recordCompletion.
RecordCompletion(e) ==
    /\ inflight' = [i \in Instances |-> IF i = at[e] THEN inflight[i] \ {e}
                                        ELSE inflight[i]]
    /\ at' = [at EXCEPT ![e] = NoInstance]

-----------------------------------------------------------------------------
(* dispatchExecution and routeToIsolatedVm.                                *)

MarkRunning(e) ==
    /\ epc[e] = "idle"
    /\ epc' = [epc EXCEPT ![e] = "ready"]
    /\ row' = [row EXCEPT ![e] = "running"]
    /\ UNCHANGED <<poolVars, procVars, inflight, runCount, pingVars, healthVars,
                   drainVars, at, killVars, bounds>>

\* The write of running is refused: on to the catch block.
MarkRunningFails(e) ==
    /\ refusals < MaxWriteFailures
    /\ refusals' = refusals + 1
    /\ epc[e] = "idle"
    /\ epc' = [epc EXCEPT ![e] = "catch"]
    /\ UNCHANGED <<poolVars, procVars, inflight, runCount, pingVars, healthVars,
                   drainVars, row, at, killVars, crashes, recycles>>

\* Mutant: the catch block does not reach the row.
RouteRefusedSilently(e) ==
    /\ epc[e] = "ready"
    /\ state[primary] # "ACTIVE"
    /\ epc' = [epc EXCEPT ![e] = "done"]
    /\ UNCHANGED <<poolVars, procVars, inflight, runCount, pingVars, healthVars,
                   drainVars, row, at, killVars, bounds>>

\* getPrimary throws: the catch block writes error.
RouteRefused(e) ==
    /\ epc[e] = "ready"
    /\ state[primary] # "ACTIVE"
    /\ epc' = [epc EXCEPT ![e] = "catch"]
    /\ UNCHANGED <<poolVars, procVars, inflight, runCount, pingVars, healthVars,
                   drainVars, row, at, killVars, bounds>>

\* getPrimary, recordRun and the write of the request, with no await between
\* them; the threshold recycles the primary the execution was just put on.
Route(e) ==
    LET n == runCount[primary] + 1 IN
    /\ epc[e] = "ready"
    /\ state[primary] = "ACTIVE"
    /\ inflight' = [inflight EXCEPT ![primary] = @ \cup {e}]
    /\ at' = [at EXCEPT ![e] = primary]
    /\ epc' = [epc EXCEPT ![e] = IF conn[primary] THEN "sent" ELSE "rejected"]
    /\ IF n >= RecycleAfter /\ ~isDraining
       THEN /\ Recycle
            /\ runCount' = [runCount EXCEPT ![primary] =
                               IF isDraining' THEN 0 ELSE n]
       ELSE NoRecycle /\ runCount' = [runCount EXCEPT ![primary] = n]
    /\ UNCHANGED <<procVars, pingVars, row, killVars, bounds>>

\* The race is decided: a response, the timer, or the lost connection.
Settle(e) ==
    /\ RecordCompletion(e)
    /\ epc' = [epc EXCEPT ![e] = "write"]
    /\ UNCHANGED <<poolVars, procVars, runCount, pingVars, healthVars,
                   drainVars, row, killVars, bounds>>

Answer(e) == epc[e] = "sent" /\ conn[at[e]] /\ Settle(e)
Timeout(e) == epc[e] = "sent" /\ Settle(e)
Rejected(e) == epc[e] = "rejected" /\ Settle(e)

\* updateStatus is unconditional, and so is the update to killed.
WriteRow(e) ==
    /\ epc[e] \in {"write", "catch"}
    /\ epc' = [epc EXCEPT ![e] = "done"]
    /\ row' = [row EXCEPT ![e] = "ended"]
    /\ UNCHANGED <<poolVars, procVars, inflight, runCount, pingVars, healthVars,
                   drainVars, at, killVars, bounds>>

\* A write that is refused leads to the catch block, which writes error; when
\* that is refused too, nobody hears of it.
WriteFails(e) ==
    /\ refusals < MaxWriteFailures
    /\ refusals' = refusals + 1
    /\ \/ /\ epc[e] = "write"
          /\ epc' = [epc EXCEPT ![e] = "catch"]
       \/ /\ epc[e] = "catch"
          /\ epc' = [epc EXCEPT ![e] = "unrecorded"]
    /\ UNCHANGED <<poolVars, procVars, inflight, runCount, pingVars, healthVars,
                   drainVars, row, at, killVars, crashes, recycles>>

WriteKilled(e) ==
    /\ e \in killing
    /\ killing' = killing \ {e}
    /\ row' = [row EXCEPT ![e] = "ended"]
    /\ UNCHANGED <<poolVars, procVars, inflight, runCount, pingVars, healthVars,
                   drainVars, epc, at, killed, bounds>>

\* Only logged.
WriteKilledFails(e) ==
    /\ refusals < MaxWriteFailures
    /\ refusals' = refusals + 1
    /\ e \in killing
    /\ killing' = killing \ {e}
    /\ UNCHANGED <<poolVars, procVars, inflight, runCount, pingVars, healthVars,
                   drainVars, execVars, at, killed, crashes, recycles>>

-----------------------------------------------------------------------------
(* The sandbox processes.                                                  *)

ProcessCrash(i) ==
    /\ crashes < MaxCrashes
    /\ crashes' = crashes + 1
    /\ state[i] # "none"
    /\ up[i]
    /\ up' = [up EXCEPT ![i] = FALSE]
    /\ conn' = [conn EXCEPT ![i] = FALSE]
    /\ Reject(i)
    /\ UNCHANGED <<poolVars, inflight, runCount, healthVars, drainVars,
                   row, at, killVars, recycles, refusals>>

\* Docker's restart policy.
ProcessRestart(i) ==
    /\ ~up[i]
    /\ up' = [up EXCEPT ![i] = TRUE]
    /\ UNCHANGED <<poolVars, conn, inflight, runCount, pingVars, healthVars,
                   drainVars, execVars, at, killVars, bounds>>

-----------------------------------------------------------------------------
(* Health checks and crash recovery.                                       *)

\* performPing, to its await: the interval does not wait for the last ping.
\* Without a socket the ping is rejected.
SendPing ==
    /\ \A i \in Instances : pings[i] + lostPings < MaxPings
    /\ IF conn[primary]
       THEN pings' = [pings EXCEPT ![primary] = @ + 1] /\ UNCHANGED lostPings
       ELSE lostPings' = lostPings + 1 /\ UNCHANGED pings
    /\ UNCHANGED <<poolVars, procVars, inflight, runCount, healthVars,
                   drainVars, execVars, at, killVars, bounds>>

\* An instance answers: the primary of that moment, if it is starting, becomes
\* active.
PingOk(i) ==
    /\ pings[i] > 0
    /\ pings' = [pings EXCEPT ![i] = @ - 1]
    /\ misses' = 0
    /\ IF state[primary] = "STARTING"
       THEN /\ armed' = TRUE
            /\ Replenish(warmPool, [state EXCEPT ![primary] = "ACTIVE"],
                         isDraining)
       ELSE UNCHANGED <<armed, warmPool, created, state>>
    /\ UNCHANGED <<primary, procVars, inflight, runCount, lostPings, recon,
                   target, drainVars, execVars, at, killVars, bounds>>

\* A rejection counts against the primary of that moment, whichever instance
\* it was that did not answer.
LosePing == lostPings > 0 /\ lostPings' = lostPings - 1

\* Mutant: no threshold.
PingMissOnly ==
    /\ LosePing
    /\ misses' = misses + 1
    /\ UNCHANGED <<pings, poolVars, procVars, inflight, runCount, recon, target,
                   armed, drainVars, execVars, at, killVars, bounds>>

\* Not often enough.
PingMiss ==
    /\ LosePing
    /\ misses + 1 < PingMissThreshold
    /\ misses' = misses + 1
    /\ UNCHANGED <<pings, poolVars, procVars, inflight, runCount, recon, target,
                   armed, drainVars, execVars, at, killVars, bounds>>

\* scheduleReconnect on a chain that is free (overlapping chains are bounded).
ScheduleReconnect ==
    IF \E c \in Reconnects : recon[c] = "none"
    THEN \E c \in Reconnects :
            recon[c] = "none" /\ recon' = [recon EXCEPT ![c] = "timer"]
    ELSE UNCHANGED recon

\* Mutant: recovery waits for the sandbox to come back by itself.
RecoverPassively ==
    /\ LosePing
    /\ misses + 1 >= PingMissThreshold
    /\ misses' = 0
    /\ state' = [state EXCEPT ![primary] = "STARTING"]
    /\ OnCrash(inflight[primary])
    /\ inflight' = [inflight EXCEPT ![primary] = {}]
    /\ runCount' = [runCount EXCEPT ![primary] = 0]
    /\ UNCHANGED <<primary, warmPool, created, procVars, pings, recon, target,
                   armed, drainVars, execVars, at, bounds>>

\* triggerCrashRecovery, whatever state the primary is in.
CrashRecovery ==
    /\ LosePing
    /\ misses + 1 >= PingMissThreshold
    /\ misses' = 0
    /\ state' = [state EXCEPT ![primary] = "STARTING"]
    /\ OnCrash(inflight[primary])
    /\ inflight' = [inflight EXCEPT ![primary] = {}]
    /\ runCount' = [runCount EXCEPT ![primary] = 0]
    /\ ScheduleReconnect
    /\ UNCHANGED <<primary, warmPool, created, procVars, pings, target, armed,
                   drainVars, execVars, at, bounds>>

\* The timer fires; a drain in place makes it end the chain.
ReconnectTimer(c) ==
    /\ recon[c] = "timer"
    /\ recon' = [recon EXCEPT ![c] = IF isDraining THEN "none"
                                     ELSE "connecting"]
    /\ target' = [target EXCEPT ![c] = primary]
    /\ UNCHANGED <<poolVars, procVars, inflight, runCount, pingVars, misses,
                   armed, drainVars, execVars, at, killVars, bounds>>

\* connect resolves: the primary of that moment, which may be another one or
\* draining by then, is set active.
ReconnectOk(c) ==
    /\ recon[c] = "connecting"
    /\ up[target[c]]
    /\ recon' = [recon EXCEPT ![c] = "none"]
    /\ conn' = [conn EXCEPT ![target[c]] = TRUE]
    /\ misses' = 0
    /\ armed' = TRUE
    /\ Replenish(warmPool, [state EXCEPT ![primary] = "ACTIVE"], isDraining)
    /\ UNCHANGED <<primary, up, inflight, runCount, pingVars, target,
                   drainVars, execVars, at, killVars, bounds>>

ReconnectFails(c) ==
    /\ recon[c] = "connecting"
    /\ ~up[target[c]]
    /\ recon' = [recon EXCEPT ![c] = IF isDraining THEN "none" ELSE "timer"]
    /\ UNCHANGED <<poolVars, procVars, inflight, runCount, pingVars, misses,
                   target, armed, drainVars, execVars, at, killVars, bounds>>

\* connectPoolInstance; a member that cannot connect leaves the pool.
PoolConnect(i) ==
    /\ i \in warmPool
    /\ state[i] = "STARTING"
    /\ IF up[i]
       THEN /\ state' = [state EXCEPT ![i] = "ACTIVE"]
            /\ conn' = [conn EXCEPT ![i] = TRUE]
            /\ UNCHANGED warmPool
       ELSE /\ warmPool' = warmPool \ {i}
            /\ UNCHANGED <<state, conn>>
    /\ UNCHANGED <<primary, created, up, inflight, runCount, pingVars,
                   healthVars, drainVars, execVars, at, killVars, bounds>>

-----------------------------------------------------------------------------
(* Recycling.                                                              *)

\* The timer fires whatever state the primary is in.
RecycleTimer ==
    /\ armed
    /\ recycles < MaxRecycles
    /\ recycles' = recycles + 1
    /\ IF isDraining THEN NoRecycle /\ UNCHANGED runCount
       ELSE /\ Recycle
            /\ runCount' = IF isDraining' THEN [runCount EXCEPT ![primary] = 0]
                           ELSE runCount
    /\ UNCHANGED <<procVars, inflight, pingVars, execVars, at, killVars,
                   crashes, refusals>>

\* Mutant: the instance is closed without waiting for what it runs.
DrainAtOnce(i) ==
    /\ drain[i] = "wait"
    /\ drain' = [drain EXCEPT ![i] = "command"]
    /\ UNCHANGED <<poolVars, procVars, inflight, runCount, pingVars, healthVars,
                   isDraining, retired, execVars, at, killVars, bounds>>

\* waitForInflightDrain: nothing in flight, ...
Drained(i) ==
    /\ drain[i] = "wait"
    /\ inflight[i] = {}
    /\ drain' = [drain EXCEPT ![i] = "command"]
    /\ UNCHANGED <<poolVars, procVars, inflight, runCount, pingVars, healthVars,
                   isDraining, retired, execVars, at, killVars, bounds>>

\* ... or the grace period is over and what remains is reported killed.
GraceExpires(i) ==
    /\ drain[i] = "wait"
    /\ inflight[i] # {}
    /\ OnCrash(inflight[i])
    /\ inflight' = [inflight EXCEPT ![i] = {}]
    /\ drain' = [drain EXCEPT ![i] = "command"]
    /\ UNCHANGED <<poolVars, procVars, runCount, pingVars, healthVars,
                   isDraining, retired, execVars, at, bounds>>

\* The drain command was answered or rejected.  In place, the primary is set
\* active again, connected or not; a retiring instance's client is closed.
DrainEnds(i) ==
    /\ drain[i] = "command"
    /\ drain' = [drain EXCEPT ![i] = "none"]
    /\ IF i = primary
       THEN /\ isDraining' = FALSE
            /\ Replenish(warmPool, [state EXCEPT ![i] = "ACTIVE"], FALSE)
            /\ UNCHANGED <<conn, retired, epc, pingVars>>
       ELSE /\ conn' = [conn EXCEPT ![i] = FALSE]
            /\ retired' = retired \cup {i}
            /\ Reject(i)
            /\ UNCHANGED <<warmPool, created, state, isDraining>>
    /\ UNCHANGED <<primary, up, inflight, runCount, healthVars, row,
                   at, killVars, bounds>>

-----------------------------------------------------------------------------
Dispatch(e) ==
    \/ RouteRefused(e) \/ Route(e) \/ Timeout(e) \/ Rejected(e) \/ WriteRow(e)
    \/ WriteKilled(e)

Reconnect(c) == ReconnectTimer(c) \/ ReconnectOk(c) \/ ReconnectFails(c)
Drain(i) == Drained(i) \/ GraceExpires(i) \/ DrainEnds(i)

Next ==
    \/ \E e \in Execs : \/ MarkRunning(e) \/ Dispatch(e) \/ Answer(e)
                        \/ MarkRunningFails(e) \/ WriteFails(e)
                        \/ WriteKilledFails(e)
    \/ \E i \in Instances : \/ ProcessCrash(i) \/ ProcessRestart(i)
                            \/ PoolConnect(i) \/ Drain(i) \/ PingOk(i)
    \/ \E c \in Reconnects : Reconnect(c)
    \/ SendPing \/ PingMiss \/ CrashRecovery \/ RecycleTimer

Spec == Init /\ [][Next]_vars

\* Promises settle, timers fire, pings go on and Docker restarts what died;
\* callers, crashes, the database's refusals and the recycle timer owe nothing.
FairSpec ==
    /\ Spec
    /\ \A e \in Execs : WF_vars(Dispatch(e))
    /\ \A i \in Instances : /\ WF_vars(ProcessRestart(i))
                            /\ WF_vars(PoolConnect(i))
                            /\ WF_vars(Drain(i))
                            /\ WF_vars(PingOk(i))
    /\ \A c \in Reconnects : WF_vars(Reconnect(c))
    /\ WF_vars(SendPing) /\ WF_vars(PingMiss \/ CrashRecovery)

-----------------------------------------------------------------------------
(* Properties.                                                             *)

\* An id in inflightIds is an execution that waits on that very instance:
\* "leaving the id stuck in oldPrimary.inflightIds and causing the drain to
\* [...] fire a false onCrash" (sandbox-manager.ts) does not happen, whatever
\* swaps of the primary, crashes and completions come in between.
InflightTracked ==
    \A i \in Instances : \A e \in inflight[i] :
        epc[e] \in Waiting /\ at[e] = i

\* onCrash never reports an execution whose completion was recorded.
NoFalseKill ==
    [][\A e \in killed' \ killed : epc[e] \in Waiting]_vars

\* Recycling cuts off no execution silently: one that still waits on an
\* instance whose client was closed has been reported killed.
CutOffIsReported ==
    \A e \in Execs : (epc[e] \in Waiting /\ at[e] \in retired) => e \in killed

\* Every execution marked running gets a terminal status, unless the database
\* refuses the last write of its dispatch, the one of the catch block.
ExecutionSettles ==
    \A e \in Execs :
        row[e] = "running" ~> (row[e] = "ended" \/ epc[e] = "unrecorded")

\* The primary accepts executions and can deliver them.
Usable == state[primary] = "ACTIVE" /\ conn[primary]

\* After the last crash the service comes back to a usable primary, although
\* a drain in place ends the reconnect chain, sets a dead primary active and
\* a promoted pool member may have died unnoticed.
SandboxRecovers == []<>Usable
=============================================================================
