--------------------------- MODULE PluginVersions ---------------------------
(***************************************************************************)
(* The versions of one plugin (one manifest id) in the Plugin Service:     *)
(* upgrade and rollback drain the active version, wait for the Execution   *)
(* Service or for a timer, and swap versions, hooks and instances in one   *)
(* transaction, while tenants create, enable and disable their instances.  *)
(*                                                                         *)
(* Versions are numbered in the order they are installed.  Each declares   *)
(* one hook, so a hook row is told from the others by its version, its     *)
(* instance and its state.  A transaction is one step: the rows it writes  *)
(* stay locked, and unseen, until it commits.                              *)
(***************************************************************************)
EXTENDS Integers, Sequences

CONSTANTS
    NumVersions, \* installed versions: the first active, the others staged
    Instances,  \* instances of the manifest that tenants may create
    Requests,   \* calls of upgrade and rollback
    NoRequest,  \* no entry in drainResolvers for the manifest
    MaxRows,    \* bound: hook rows of a version and an instance when an
                \* instance is enabled
    MaxCrashes  \* bound: crashes of the Plugin Service

ASSUME VersionConstants ==
    /\ NumVersions \in Nat \ {0}
    /\ NoRequest \notin Requests
    /\ MaxRows \in Nat \ {0}
    /\ MaxCrashes \in Nat

Versions == 1..NumVersions

VARIABLES
    status,    \* plugins.status
    window,    \* versions whose bundle_delete_after is set and in the future
    pluginId,  \* instances.plugin_id
    enabled,   \* instances.enabled
    hooks,     \* number of hook rows in each state, by version and instance
    rpc,       \* where each call of upgrade or rollback stands
    kind,      \* "upgrade" or "rollback"
    from, to,  \* activePlugin or currentActive, stagedPlugin or previousPlugin
    staged,    \* instances the call built staged hooks for
    resolver,  \* drainResolvers: the call whose resolve the entry holds
    timers,    \* waits whose timeout has not fired, in the order they began
    ipc,       \* where the creation or the patch of each instance stands
    target,    \* the version that createInstance or enableInstance found active
    crashes    \* counter of the bound

dbVars == <<status, window, pluginId, enabled, hooks>>
callVars == <<rpc, kind, from, to, staged>>
waitVars == <<resolver, timers>>
patchVars == <<ipc, target>>
vars == <<dbVars, callVars, waitVars, patchVars, crashes>>

HookStates == {"active", "disabled"}

TypeOK ==
    /\ status \in [Versions -> {"active", "staged", "draining", "disabled"}]
    /\ window \subseteq Versions
    /\ pluginId \in [Instances -> Versions]
    /\ enabled \in [Instances -> {"enabled", "disabling", "disabled"}]
    /\ hooks \in [Versions -> [Instances -> [HookStates -> Nat]]]
    /\ rpc \in [Requests -> {"new", "read", "drain", "signal", "waiting",
                             "swap", "window", "done"}]
    /\ kind \in [Requests -> {"upgrade", "rollback"}]
    /\ from \in [Requests -> Versions]
    /\ to \in [Requests -> Versions]
    /\ staged \in [Requests -> SUBSET Instances]
    /\ resolver \in Requests \cup {NoRequest}
    /\ timers \in Seq(Requests)
    /\ ipc \in [Instances -> {"absent", "create", "created", "idle", "enable",
                             "hooks", "finish"}]
    /\ target \in [Instances -> Versions]
    /\ crashes \in 0..MaxCrashes

(* The instances that have a row. *)
Existing == {i \in Instances : ipc[i] \notin {"absent", "create"}}

Rows(a, d) == [s \in HookStates |-> IF s = "active" THEN a ELSE d]

(* One version is active and has no instances yet; pluginId says nothing   *)
(* of an instance that does not exist.                                     *)
Init ==
    /\ status = [v \in Versions |-> IF v = 1 THEN "active" ELSE "staged"]
    /\ window = {}
    /\ pluginId = [i \in Instances |-> 1]
    /\ enabled = [i \in Instances |-> "disabled"]
    /\ hooks = [v \in Versions |-> [i \in Instances |-> Rows(0, 0)]]
    /\ rpc = [r \in Requests |-> "new"]
    /\ kind = [r \in Requests |-> "upgrade"]
    /\ from = [r \in Requests |-> 1]
    /\ to = [r \in Requests |-> 1]
    /\ staged = [r \in Requests |-> {}]
    /\ resolver = NoRequest
    /\ timers = << >>
    /\ ipc = [i \in Instances |-> "absent"]
    /\ target = [i \in Instances |-> 1]
    /\ crashes = 0

-----------------------------------------------------------------------------
(***************************************************************************)
(* upgrade and rollback.                                                   *)
(***************************************************************************)

(* findActiveByManifestId; without an active version the call throws. *)
ReadActive(r) ==
    /\ rpc[r] = "new"
    /\ \E k \in {"upgrade", "rollback"} : kind' = [kind EXCEPT ![r] = k]
    /\ \/ /\ \A v \in Versions : status[v] # "active"
          /\ rpc' = [rpc EXCEPT ![r] = "done"]
          /\ UNCHANGED from
       \/ \E v \in Versions :
            /\ status[v] = "active"
            /\ rpc' = [rpc EXCEPT ![r] = "read"]
            /\ from' = [from EXCEPT ![r] = v]
    /\ UNCHANGED <<dbVars, to, staged, waitVars, patchVars, crashes>>

Enabled == {i \in Instances : enabled[i] = "enabled"}

(* upgrade: the requested version must be staged and the configurations of *)
(* the enabled instances fit its schema; staged hooks are built for the    *)
(* instances read here.  The cache prefetch that follows changes nothing.  *)
ReadStaged(r) ==
    /\ rpc[r] = "read"
    /\ kind[r] = "upgrade"
    /\ \E v \in Versions :
         /\ to' = [to EXCEPT ![r] = v]
         /\ \/ /\ status[v] = "staged"
               /\ staged' = [staged EXCEPT ![r] = Enabled]
               /\ rpc' = [rpc EXCEPT ![r] = "drain"]
            \/ /\ rpc' = [rpc EXCEPT ![r] = "done"]
               /\ UNCHANGED staged
    /\ UNCHANGED <<dbVars, kind, from, waitVars, patchVars, crashes>>

Candidates == {v \in window : status[v] = "disabled"}

(* rollback: the most recently installed disabled version whose rollback   *)
(* window is open; no hooks are staged.                                    *)
ReadPrevious(r) ==
    /\ rpc[r] = "read"
    /\ kind[r] = "rollback"
    /\ \/ /\ Candidates = {}
          /\ rpc' = [rpc EXCEPT ![r] = "done"]
          /\ UNCHANGED to
       \/ \E v \in Candidates :
            /\ \A w \in Candidates : w <= v
            /\ rpc' = [rpc EXCEPT ![r] = "drain"]
            /\ to' = [to EXCEPT ![r] = v]
    /\ UNCHANGED <<dbVars, kind, from, staged, waitVars, patchVars, crashes>>

(* pluginRepo.update(activePlugin.id, draining), whatever its status now. *)
MarkDraining(r) ==
    /\ rpc[r] = "drain"
    /\ status' = [status EXCEPT ![from[r]] = "draining"]
    /\ rpc' = [rpc EXCEPT ![r] = "signal"]
    /\ UNCHANGED <<window, pluginId, enabled, hooks, kind, from, to, staged,
                   waitVars, patchVars, crashes>>

(* sendDrainSignal returns, delivered or not, and waitForDrain replaces    *)
(* the manifest's entry in drainResolvers and sets its timer.              *)
WaitForDrain(r) ==
    /\ rpc[r] = "signal"
    /\ rpc' = [rpc EXCEPT ![r] = "waiting"]
    /\ resolver' = r
    /\ timers' = Append(timers, r)
    /\ UNCHANGED <<dbVars, kind, from, to, staged, patchVars, crashes>>

Resolve(r) == IF rpc[r] = "waiting" THEN [rpc EXCEPT ![r] = "swap"] ELSE rpc

(* signalDrainComplete: the entry's wait ends; without one nothing happens. *)
DrainComplete ==
    /\ resolver # NoRequest
    /\ rpc' = Resolve(resolver)
    /\ resolver' = NoRequest
    /\ UNCHANGED <<dbVars, kind, from, to, staged, timers, patchVars, crashes>>

(* Mutant of DrainTimeout: the entry is deleted without resolving. *)
DrainTimeoutForgets ==
    /\ timers # << >>
    /\ timers' = Tail(timers)
    /\ resolver' = NoRequest
    /\ UNCHANGED <<dbVars, callVars, patchVars, crashes>>

(* The timer of the oldest wait fires.  It is never cleared, and it looks  *)
(* for an entry of the manifest, not for its own.                          *)
DrainTimeout ==
    /\ timers # << >>
    /\ timers' = Tail(timers)
    /\ \/ /\ resolver # NoRequest
          /\ resolver' = NoRequest
          /\ rpc' = Resolve(Head(timers))
       \/ /\ resolver = NoRequest
          /\ UNCHANGED <<resolver, rpc>>
    /\ UNCHANGED <<dbVars, kind, from, to, staged, patchVars, crashes>>

(* What executeAtomicSwap leaves of the hook rows of version v: the staged *)
(* rows inserted for `new' become active, the active rows of `old' are     *)
(* disabled.                                                               *)
SwapHooks(v, i, r) ==
    LET new == IF v = to[r] /\ i \in staged[r] THEN 1 ELSE 0
        row == hooks[v][i]
        active == row["active"] + new
    IN  IF v = from[r] THEN Rows(0, row["disabled"] + active)
                       ELSE Rows(active, row["disabled"])

(* updatePluginIdForManifest: every row of the manifest there is. *)
MoveInstances(r) ==
    pluginId' = [i \in Instances |-> IF i \in Existing THEN to[r] ELSE pluginId[i]]

Conflict(r) == \E v \in Versions \ {to[r]} : status[v] = "active"

(* Mutant of Swap: the instances are updated outside the transaction. *)
SwapMovesInstances(r) ==
    /\ rpc[r] = "swap"
    /\ MoveInstances(r)
    /\ \/ /\ Conflict(r)
          /\ rpc' = [rpc EXCEPT ![r] = "done"]
          /\ UNCHANGED <<status, hooks>>
       \/ /\ ~Conflict(r)
          /\ rpc' = [rpc EXCEPT ![r] = "window"]
          /\ status' = [status EXCEPT ![to[r]] = "active", ![from[r]] = "disabled"]
          /\ hooks' = [v \in Versions |-> [i \in Instances |-> SwapHooks(v, i, r)]]
    /\ UNCHANGED <<window, enabled, kind, from, to, staged, waitVars, patchVars,
                   crashes>>

(* Mutant of Swap: the hooks are inserted before BEGIN. *)
SwapInsertsFirst(r) ==
    /\ rpc[r] = "swap"
    /\ hooks' = [v \in Versions |-> [i \in Instances |-> SwapHooks(v, i, r)]]
    /\ \/ /\ Conflict(r)
          /\ rpc' = [rpc EXCEPT ![r] = "done"]
          /\ UNCHANGED <<status, pluginId>>
       \/ /\ ~Conflict(r)
          /\ rpc' = [rpc EXCEPT ![r] = "window"]
          /\ status' = [status EXCEPT ![to[r]] = "active", ![from[r]] = "disabled"]
          /\ MoveInstances(r)
    /\ UNCHANGED <<window, enabled, kind, from, to, staged, waitVars, patchVars,
                   crashes>>

(* executeAtomicSwap: idx_plugins_active_per_manifest refuses a second     *)
(* active version when the new one is activated, before the old one is     *)
(* disabled; the transaction then rolls back and the call throws.          *)
Swap(r) ==
    /\ rpc[r] = "swap"
    /\ \/ /\ Conflict(r)
          /\ rpc' = [rpc EXCEPT ![r] = "done"]
          /\ UNCHANGED <<status, pluginId, hooks>>
       \/ /\ ~Conflict(r)
          /\ rpc' = [rpc EXCEPT ![r] = "window"]
          /\ status' = [status EXCEPT ![to[r]] = "active", ![from[r]] = "disabled"]
          /\ MoveInstances(r)
          /\ hooks' = [v \in Versions |-> [i \in Instances |-> SwapHooks(v, i, r)]]
    /\ UNCHANGED <<window, enabled, kind, from, to, staged, waitVars, patchVars,
                   crashes>>

(* bundle_delete_after of the old version opens its rollback window, and   *)
(* the event is published.                                                 *)
OpenWindow(r) ==
    /\ rpc[r] = "window"
    /\ window' = window \cup {from[r]}
    /\ rpc' = [rpc EXCEPT ![r] = "done"]
    /\ UNCHANGED <<status, pluginId, enabled, hooks, kind, from, to, staged,
                   waitVars, patchVars, crashes>>

(* The 24 hours of a rollback window pass. *)
WindowPasses(v) ==
    /\ v \in window
    /\ window' = window \ {v}
    /\ UNCHANGED <<status, pluginId, enabled, hooks, callVars, waitVars,
                   patchVars, crashes>>

-----------------------------------------------------------------------------
(***************************************************************************)
(* createInstance, then patchInstance: enable and disable, one call at a   *)
(* time per instance.                                                      *)
(***************************************************************************)

(* createInstance finds the active version, by its id or its manifest's;   *)
(* it throws if there is none or the configuration does not fit.           *)
CreateCheck(i) ==
    /\ ipc[i] = "absent"
    /\ \E v \in Versions :
         /\ status[v] = "active"
         /\ target' = [target EXCEPT ![i] = v]
    /\ ipc' = [ipc EXCEPT ![i] = "create"]
    /\ UNCHANGED <<dbVars, callVars, waitVars, crashes>>

(* instanceRepo.create, disabled and with the version found before. *)
CreateInsert(i) ==
    /\ ipc[i] = "create"
    /\ pluginId' = [pluginId EXCEPT ![i] = target[i]]
    /\ ipc' = [ipc EXCEPT ![i] = "created"]
    /\ UNCHANGED <<status, window, enabled, hooks, callVars, waitVars, target,
                   crashes>>

(* Mutant of CreateEnable: the version is not looked at again. *)
CreateEnableUnchecked(i) ==
    /\ ipc[i] = "created"
    /\ ipc' = [ipc EXCEPT ![i] = "enable"]
    /\ UNCHANGED <<dbVars, callVars, waitVars, target, crashes>>

(* enableInstance, called by createInstance: it throws unless the version  *)
(* is still active, and the instance stays as it was inserted.             *)
CreateEnable(i) ==
    /\ ipc[i] = "created"
    /\ ipc' = [ipc EXCEPT ![i] = IF status[target[i]] = "active" THEN "enable"
                                                                 ELSE "idle"]
    /\ UNCHANGED <<dbVars, callVars, waitVars, target, crashes>>

(* enableInstance, called by a patch: the instance's version must be       *)
(* active.                                                                 *)
EnableCheck(i) ==
    /\ ipc[i] = "idle"
    /\ enabled[i] # "enabled"
    /\ status[pluginId[i]] = "active"
    /\ ipc' = [ipc EXCEPT ![i] = "enable"]
    /\ target' = [target EXCEPT ![i] = pluginId[i]]
    /\ UNCHANGED <<dbVars, callVars, waitVars, crashes>>

(* Its transaction inserts hook rows of the version checked before and     *)
(* activates every hook row of the instance (updateStateByInstance).       *)
EnableCommit(i) ==
    /\ ipc[i] = "enable"
    /\ \A v \in Versions : hooks[v][i]["active"] + hooks[v][i]["disabled"] < MaxRows
    /\ hooks' = [v \in Versions |->
                   [hooks[v] EXCEPT
                      ![i] = Rows(@["active"] + @["disabled"]
                                    + (IF v = target[i] THEN 1 ELSE 0), 0)]]
    /\ enabled' = [enabled EXCEPT ![i] = "enabled"]
    /\ ipc' = [ipc EXCEPT ![i] = "idle"]
    /\ UNCHANGED <<status, pluginId, window, target, callVars, waitVars, crashes>>

(* The connector cannot be registered: the transaction rolls back. *)
EnableFails(i) ==
    /\ ipc[i] = "enable"
    /\ ipc' = [ipc EXCEPT ![i] = "idle"]
    /\ UNCHANGED <<dbVars, callVars, waitVars, target, crashes>>

(* disableInstance, whatever the instance is; the drain signal that follows *)
(* may fail.                                                               *)
DisableStart(i) ==
    /\ ipc[i] = "idle"
    /\ enabled' = [enabled EXCEPT ![i] = "disabling"]
    /\ ipc' = [ipc EXCEPT ![i] = "hooks"]
    /\ UNCHANGED <<status, window, pluginId, hooks, callVars, waitVars, target,
                   crashes>>

(* updateStateByInstance(disabled), in a transaction of its own. *)
DisableHooks(i) ==
    /\ ipc[i] = "hooks"
    /\ hooks' = [v \in Versions |->
                   [hooks[v] EXCEPT ![i] = Rows(0, @["active"] + @["disabled"])]]
    /\ ipc' = [ipc EXCEPT ![i] = "finish"]
    /\ UNCHANGED <<status, window, pluginId, enabled, callVars, waitVars, target,
                   crashes>>

DisableFinish(i) ==
    /\ ipc[i] = "finish"
    /\ enabled' = [enabled EXCEPT ![i] = "disabled"]
    /\ ipc' = [ipc EXCEPT ![i] = "idle"]
    /\ UNCHANGED <<status, window, pluginId, hooks, callVars, waitVars, target,
                   crashes>>

(* The service restarts: calls, patches, timers and drainResolvers go. *)
Crash ==
    /\ crashes < MaxCrashes
    /\ \E r \in Requests : rpc[r] \notin {"new", "done"}
    /\ crashes' = crashes + 1
    /\ rpc' = [r \in Requests |-> IF rpc[r] = "new" THEN "new" ELSE "done"]
    /\ resolver' = NoRequest
    /\ timers' = << >>
    /\ ipc' = [i \in Instances |-> IF i \in Existing THEN "idle" ELSE "absent"]
    /\ UNCHANGED <<dbVars, kind, from, to, staged, target>>

Call(r) ==
    \/ ReadActive(r)
    \/ ReadStaged(r)
    \/ ReadPrevious(r)
    \/ MarkDraining(r)
    \/ WaitForDrain(r)
    \/ Swap(r)
    \/ OpenWindow(r)

Patch(i) ==
    \/ CreateCheck(i)
    \/ CreateInsert(i)
    \/ CreateEnable(i)
    \/ EnableCheck(i)
    \/ EnableCommit(i)
    \/ EnableFails(i)
    \/ DisableStart(i)
    \/ DisableHooks(i)
    \/ DisableFinish(i)

Next ==
    \/ \E r \in Requests : Call(r)
    \/ DrainComplete
    \/ DrainTimeout
    \/ \E v \in Versions : WindowPasses(v)
    \/ \E i \in Instances : Patch(i)
    \/ Crash

Spec == Init /\ [][Next]_vars

(* A call that has begun goes on and a timer that is set fires.  Nothing   *)
(* makes anyone call upgrade, or the Execution Service report a drain.     *)
FairSpec ==
    /\ Spec
    /\ WF_vars(DrainTimeout)
    /\ \A r \in Requests : WF_vars(rpc[r] # "new" /\ Call(r))

-----------------------------------------------------------------------------
OnActive(i) == \A v \in Versions : status[v] = "active" => pluginId[i] = v

(* When a version is active, the enabled instances point to it: whichever  *)
(* creations, upgrades and rollbacks overlapped and however stale what     *)
(* they had read, none is enabled on a replaced version.                   *)
InstancesPointToActive == \A i \in Enabled : OnActive(i)

(* A step that activates a version takes all existing instances with it,   *)
(* and no step makes one that is on the active version stray: a swap that  *)
(* loses to another takes its instance updates back.  So an instance is on *)
(* a replaced version only if it was inserted there, by a creation that a  *)
(* swap overtook, and only until the next swap.                            *)
InstancesFollowSwap ==
    [][\A i \in Existing :
          (\/ OnActive(i)
           \/ \E v \in Versions : status'[v] = "active" /\ status[v] # "active")
              => OnActive(i)']_vars

(* A version that was never activated has no hook rows: a swap that is     *)
(* refused, or a service that dies during the drain, leaves no staged rows *)
(* behind for a retry to duplicate (the comment on executeAtomicSwap).     *)
NoOrphanHooks ==
    \A v \in Versions : status[v] = "staged" =>
        \A i \in Instances : hooks[v][i] = Rows(0, 0)

(* A wait that holds the manifest's entry, with no timer of another wait   *)
(* left, ends -- by the drain's completion or by its own timer -- unless   *)
(* another call begins to wait meanwhile.                                  *)
Alone(r) == rpc[r] = "waiting" /\ resolver = r /\ timers = <<r>>

LoneWaitEnds ==
    \A r \in Requests :
        Alone(r) ~> (rpc[r] # "waiting" \/ timers \notin {<< >>, <<r>>})

(* Every drain wait ends: "a 62s timeout fires as a fallback so upgrades   *)
(* never block the event loop indefinitely".                               *)
DrainWaitEnds ==
    \A r \in Requests : rpc[r] = "waiting" ~> rpc[r] # "waiting"
=============================================================================
