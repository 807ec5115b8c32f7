------------------------ MODULE PluginVersionsProofs ------------------------
(***************************************************************************)
(* Proofs about PluginVersions for any number of versions, instances and   *)
(* overlapping upgrades, rollbacks and patches, with crashes in between.   *)
(***************************************************************************)
EXTENDS PluginVersions, TLAPS

RowTypes == [HookStates -> Nat]

PatchStates == {"absent", "create", "created", "idle", "enable", "hooks", "finish"}

\* What the hook rows of an instance are made of.
LEMMA RowFacts ==
    /\ \A a, d \in Nat : Rows(a, d) \in RowTypes
    /\ \A a, d \in Nat : Rows(a, d)["active"] = a /\ Rows(a, d)["disabled"] = d
    BY DEF Rows, HookStates, RowTypes

LEMMA TypeInit == Init => TypeOK
    <1> SUFFICES ASSUME Init PROVE TypeOK
        OBVIOUS
    <1>1. 1 \in Versions /\ 0 \in 0..MaxCrashes
        BY VersionConstants DEF Versions
    <1>2. hooks \in [Versions -> [Instances -> [HookStates -> Nat]]]
        BY RowFacts DEF Init, RowTypes
    <1>3. status \in [Versions -> {"active", "staged", "draining", "disabled"}]
        BY DEF Init
    <1>4. /\ window \subseteq Versions
          /\ staged \in [Requests -> SUBSET Instances]
          /\ timers \in Seq(Requests)
        BY DEF Init
    <1>5. /\ pluginId \in [Instances -> Versions]
          /\ target \in [Instances -> Versions]
          /\ from \in [Requests -> Versions]
          /\ to \in [Requests -> Versions]
        BY <1>1 DEF Init
    <1>6. /\ enabled \in [Instances -> {"enabled", "disabling", "disabled"}]
          /\ rpc \in [Requests -> {"new", "read", "drain", "signal", "waiting",
                                   "swap", "window", "done"}]
          /\ kind \in [Requests -> {"upgrade", "rollback"}]
          /\ ipc \in [Instances -> PatchStates]
        BY DEF Init, PatchStates
    <1> QED
        BY <1>1, <1>2, <1>3, <1>4, <1>5, <1>6 DEF Init, TypeOK, PatchStates

\* A hook row counts only ever go up, down or over to the other state.
LEMMA HooksTyped ==
    ASSUME TypeOK
    PROVE  /\ \A v \in Versions, i \in Instances, r \in Requests :
                  SwapHooks(v, i, r) \in RowTypes
           /\ \A v \in Versions, i \in Instances :
                  /\ hooks[v][i]["active"] \in Nat
                  /\ hooks[v][i]["disabled"] \in Nat
    <1>1. \A v \in Versions, i \in Instances :
              /\ hooks[v][i]["active"] \in Nat
              /\ hooks[v][i]["disabled"] \in Nat
        BY DEF TypeOK, HookStates
    <1>2. ASSUME NEW v \in Versions, NEW i \in Instances, NEW r \in Requests
          PROVE  SwapHooks(v, i, r) \in RowTypes
        BY <1>1, RowFacts DEF SwapHooks
    <1> QED BY <1>1, <1>2

\* Every step keeps the types.
LEMMA TypeStep == TypeOK /\ [Next]_vars => TypeOK'
    <1> SUFFICES ASSUME TypeOK, [Next]_vars PROVE TypeOK'
        OBVIOUS
    <1> USE DEF dbVars, callVars, waitVars, patchVars
    <1>1. ASSUME NEW r \in Requests, ReadActive(r) PROVE TypeOK'
        BY <1>1 DEF ReadActive, TypeOK
    <1>2. ASSUME NEW r \in Requests, ReadStaged(r) PROVE TypeOK'
        <2>1. Enabled \in SUBSET Instances
            BY DEF Enabled
        <2>2. staged' = [staged EXCEPT ![r] = Enabled] \/ staged' = staged
            BY <1>2 DEF ReadStaged
        <2>3. staged' \in [Requests -> SUBSET Instances]
            BY <2>1, <2>2 DEF TypeOK
        <2>4. rpc' = [rpc EXCEPT ![r] = "drain"] \/ rpc' = [rpc EXCEPT ![r] = "done"]
            BY <1>2 DEF ReadStaged
        <2>5. rpc' \in [Requests -> {"new", "read", "drain", "signal", "waiting",
                                     "swap", "window", "done"}]
            BY <2>4 DEF TypeOK
        <2>6. to' \in [Requests -> Versions]
            BY <1>2 DEF ReadStaged, TypeOK
        <2> QED BY <1>2, <2>3, <2>5, <2>6 DEF ReadStaged, TypeOK
    <1>3. ASSUME NEW r \in Requests, ReadPrevious(r) PROVE TypeOK'
        BY <1>3 DEF ReadPrevious, TypeOK, Candidates
    <1>4. ASSUME NEW r \in Requests, MarkDraining(r) PROVE TypeOK'
        BY <1>4 DEF MarkDraining, TypeOK
    <1>5. ASSUME NEW r \in Requests, WaitForDrain(r) PROVE TypeOK'
        BY <1>5 DEF WaitForDrain, TypeOK
    <1>6. ASSUME NEW r \in Requests, Swap(r) PROVE TypeOK'
        <2>1. hooks' \in [Versions -> [Instances -> [HookStates -> Nat]]]
            <3>1. CASE UNCHANGED hooks
                BY <3>1 DEF TypeOK
            <3>2. CASE ~UNCHANGED hooks
                <4>1. hooks' = [v \in Versions |->
                                  [i \in Instances |-> SwapHooks(v, i, r)]]
                    BY <1>6, <3>2 DEF Swap
                <4> QED BY <4>1, HooksTyped DEF RowTypes
            <3> QED BY <3>1, <3>2
        <2>2. status' \in [Versions -> {"active", "staged", "draining", "disabled"}]
            BY <1>6 DEF Swap, TypeOK
        <2>3. pluginId' \in [Instances -> Versions]
            <3>1. to[r] \in Versions /\ \A i \in Instances : pluginId[i] \in Versions
                BY DEF TypeOK
            <3>2. CASE UNCHANGED pluginId
                BY <3>2 DEF TypeOK
            <3>3. CASE MoveInstances(r)
                BY <3>1, <3>3 DEF MoveInstances
            <3> QED BY <1>6, <3>2, <3>3 DEF Swap
        <2> QED
            BY <1>6, <2>1, <2>2, <2>3 DEF Swap, TypeOK
    <1>7. ASSUME NEW r \in Requests, OpenWindow(r) PROVE TypeOK'
        BY <1>7 DEF OpenWindow, TypeOK
    <1>8. CASE DrainComplete
        BY <1>8 DEF DrainComplete, Resolve, TypeOK
    <1>9. CASE DrainTimeout
        <2>1. Tail(timers) \in Seq(Requests) /\ Head(timers) \in Requests
            BY <1>9 DEF DrainTimeout, TypeOK
        <2>2. Resolve(Head(timers)) \in
                  [Requests -> {"new", "read", "drain", "signal", "waiting",
                                "swap", "window", "done"}]
            BY <2>1 DEF Resolve, TypeOK
        <2> QED BY <1>9, <2>1, <2>2 DEF DrainTimeout, TypeOK
    <1>10. ASSUME NEW v \in Versions, WindowPasses(v) PROVE TypeOK'
        BY <1>10 DEF WindowPasses, TypeOK
    <1>11. ASSUME NEW i \in Instances, EnableCheck(i) \/ EnableFails(i)
                                       \/ DisableStart(i) \/ DisableFinish(i)
                                       \/ CreateCheck(i) \/ CreateInsert(i)
                                       \/ CreateEnable(i)
           PROVE  TypeOK'
        <2>1. CASE EnableCheck(i)
            BY <2>1 DEF EnableCheck, TypeOK
        <2>2. CASE EnableFails(i)
            BY <2>2 DEF EnableFails, TypeOK
        <2>3. CASE DisableStart(i)
            BY <2>3 DEF DisableStart, TypeOK
        <2>4. CASE DisableFinish(i)
            BY <2>4 DEF DisableFinish, TypeOK
        <2>5. CASE CreateCheck(i)
            BY <2>5 DEF CreateCheck, TypeOK
        <2>6. CASE CreateInsert(i)
            BY <2>6 DEF CreateInsert, TypeOK
        <2>7. CASE CreateEnable(i)
            <3>1. ipc' \in [Instances -> PatchStates]
                BY <2>7 DEF CreateEnable, TypeOK, PatchStates
            <3> QED BY <2>7, <3>1 DEF CreateEnable, TypeOK, PatchStates
        <2> QED BY <1>11, <2>1, <2>2, <2>3, <2>4, <2>5, <2>6, <2>7
    <1>12. ASSUME NEW i \in Instances, EnableCommit(i) \/ DisableHooks(i)
           PROVE  TypeOK'
        <2>1. \A v \in Versions : \E a, d \in Nat :
                  hooks'[v] = [hooks[v] EXCEPT ![i] = Rows(a, d)]
            <3>1. CASE EnableCommit(i)
                <4> SUFFICES ASSUME NEW v \in Versions
                             PROVE  \E a, d \in Nat :
                                      hooks'[v] = [hooks[v] EXCEPT ![i] = Rows(a, d)]
                    OBVIOUS
                <4>1. hooks[v][i]["active"] + hooks[v][i]["disabled"]
                        + (IF v = target[i] THEN 1 ELSE 0) \in Nat
                    BY HooksTyped
                <4> QED BY <3>1, <4>1 DEF EnableCommit
            <3>2. CASE DisableHooks(i)
                BY <3>2, HooksTyped DEF DisableHooks
            <3> QED BY <1>12, <3>1, <3>2
        <2>2. \A v \in Versions : hooks'[v] \in [Instances -> [HookStates -> Nat]]
            <3> SUFFICES ASSUME NEW v \in Versions
                         PROVE  hooks'[v] \in [Instances -> RowTypes]
                BY DEF RowTypes
            <3>1. PICK a, d \in Nat : hooks'[v] = [hooks[v] EXCEPT ![i] = Rows(a, d)]
                BY <2>1
            <3>2. Rows(a, d) \in RowTypes
                BY RowFacts
            <3>3. hooks[v] \in [Instances -> RowTypes]
                BY DEF TypeOK, RowTypes
            <3> QED BY <3>1, <3>2, <3>3
        <2>3. hooks' = [v \in Versions |-> hooks'[v]]
            BY <1>12 DEF EnableCommit, DisableHooks
        <2>4. hooks' \in [Versions -> [Instances -> [HookStates -> Nat]]]
            BY <2>2, <2>3
        <2> QED
            <3>1. CASE EnableCommit(i)
                <4>1. /\ enabled' \in [Instances -> {"enabled", "disabling", "disabled"}]
                      /\ ipc' \in [Instances -> PatchStates]
                    BY <3>1 DEF EnableCommit, TypeOK, PatchStates
                <4>2. UNCHANGED <<status, pluginId, window, target, callVars, waitVars,
                                  crashes>>
                    BY <3>1 DEF EnableCommit
                <4> QED BY <2>4, <4>1, <4>2 DEF TypeOK, PatchStates
            <3>2. CASE DisableHooks(i)
                <4>1. ipc' \in [Instances -> PatchStates]
                    BY <3>2 DEF DisableHooks, TypeOK, PatchStates
                <4>2. UNCHANGED <<status, pluginId, enabled, window, target, callVars,
                                  waitVars, crashes>>
                    BY <3>2 DEF DisableHooks
                <4> QED BY <2>4, <4>1, <4>2 DEF TypeOK, PatchStates
            <3> QED BY <1>12, <3>1, <3>2
    <1>13. CASE Crash
        <2>1. crashes' \in 0..MaxCrashes
            BY <1>13, VersionConstants DEF Crash, TypeOK
        <2>2. rpc' \in [Requests -> {"new", "read", "drain", "signal", "waiting",
                                     "swap", "window", "done"}]
            BY <1>13 DEF Crash
        <2> QED
            BY <1>13, <2>1, <2>2 DEF Crash, TypeOK
    <1>14. CASE UNCHANGED vars
        BY <1>14 DEF vars, TypeOK
    <1> QED
        BY <1>1, <1>2, <1>3, <1>4, <1>5, <1>6, <1>7, <1>8, <1>9, <1>10,
           <1>11, <1>12, <1>13, <1>14 DEF Next, Call, Patch

\* The Plugin Service's rows, calls and timers keep their types.
THEOREM TypeCorrect == Spec => []TypeOK
    BY TypeInit, TypeStep, PTL DEF Spec

-----------------------------------------------------------------------------
(* Instances and swaps.  Only a swap makes a version active, and it moves  *)
(* the instances there are; the unique index refuses it while another      *)
(* version is active.                                                      *)

Activates == \E v \in Versions : status'[v] = "active" /\ status[v] # "active"

LEMMA FollowStep ==
    ASSUME TypeOK, [Next]_vars, NEW i \in Existing,
           OnActive(i) \/ Activates \/ pluginId'[i] # pluginId[i]
    PROVE  OnActive(i)'
    <1> USE DEF dbVars, callVars, waitVars, patchVars
    <1>i. i \in Instances
        BY DEF Existing
    <1>1. CASE UNCHANGED <<status, pluginId>>
        BY <1>1 DEF OnActive, Activates
    <1>2. ASSUME NEW r \in Requests, MarkDraining(r)
          PROVE  OnActive(i)'
        <2>1. pluginId' = pluginId /\ ~Activates /\
              \A v \in Versions : status'[v] = "active" => status[v] = "active"
            BY <1>2 DEF MarkDraining, TypeOK, Activates
        <2> QED BY <2>1 DEF OnActive
    <1>3. ASSUME NEW r \in Requests, Swap(r), ~UNCHANGED <<status, pluginId>>
          PROVE  OnActive(i)'
        <2>1. /\ \A v \in Versions \ {to[r]} : status[v] # "active"
              /\ status' = [status EXCEPT ![to[r]] = "active",
                                          ![from[r]] = "disabled"]
              /\ MoveInstances(r)
            BY <1>3 DEF Swap, Conflict
        <2>2. \A v \in Versions : status'[v] = "active" => v = to[r]
            BY <2>1 DEF TypeOK
        <2>3. pluginId'[i] = to[r]
            BY <1>i, <2>1 DEF MoveInstances
        <2> QED BY <2>2, <2>3 DEF OnActive
    <1>4. ASSUME NEW k \in Instances, CreateInsert(k)
          PROVE  OnActive(i)'
        <2>1. i # k
            BY <1>4 DEF CreateInsert, Existing
        <2>2. pluginId'[i] = pluginId[i] /\ status' = status
            BY <1>4, <1>i, <2>1 DEF CreateInsert, TypeOK
        <2> QED BY <2>2 DEF OnActive, Activates
    <1> QED
        BY <1>1, <1>2, <1>3, <1>4 DEF Next, Call, Patch, vars, ReadActive,
           ReadStaged, ReadPrevious, WaitForDrain, Swap, OpenWindow,
           DrainComplete, DrainTimeout, WindowPasses, EnableCheck,
           EnableCommit, EnableFails, DisableStart, DisableHooks,
           DisableFinish, CreateCheck, CreateEnable, Crash

\* However upgrades, rollbacks, creations and patches overlap: an instance that
\* exists when a version is activated is moved to it, and no step makes an
\* instance stray from the active version.
THEOREM SwapTakesInstances == Spec => InstancesFollowSwap
    <1>1. TypeOK /\ [Next]_vars =>
              [\A i \in Existing :
                  (\/ OnActive(i)
                   \/ \E v \in Versions : status'[v] = "active" /\ status[v] # "active")
                      => OnActive(i)']_vars
        <2> SUFFICES ASSUME TypeOK, [Next]_vars, NEW i \in Existing,
                            OnActive(i) \/ Activates
                     PROVE  OnActive(i)'
            BY DEF Activates
        <2> QED BY FollowStep
    <1> QED BY <1>1, TypeInit, TypeStep, PTL DEF Spec, InstancesFollowSwap

\* idx_plugins_active_per_manifest.
OneActive ==
    \A v, w \in Versions : status[v] = "active" /\ status[w] = "active" => v = w

LEMMA OneActiveStep ==
    ASSUME TypeOK, OneActive, [Next]_vars
    PROVE  OneActive'
    <1> USE DEF dbVars, callVars, waitVars, patchVars
    <1>1. CASE UNCHANGED status
        BY <1>1 DEF OneActive
    <1>2. ASSUME NEW r \in Requests, MarkDraining(r) PROVE OneActive'
        BY <1>2 DEF MarkDraining, TypeOK, OneActive
    <1>3. ASSUME NEW r \in Requests, Swap(r), ~UNCHANGED status PROVE OneActive'
        <2>1. /\ \A v \in Versions \ {to[r]} : status[v] # "active"
              /\ status' = [status EXCEPT ![to[r]] = "active",
                                          ![from[r]] = "disabled"]
            BY <1>3 DEF Swap, Conflict
        <2>2. \A v \in Versions : status'[v] = "active" => v = to[r]
            BY <2>1 DEF TypeOK
        <2> QED BY <2>2 DEF OneActive
    <1> QED
        BY <1>1, <1>2, <1>3 DEF Next, Call, Patch, vars, ReadActive, ReadStaged,
           ReadPrevious, WaitForDrain, OpenWindow, DrainComplete,
           DrainTimeout, WindowPasses, EnableCheck, EnableCommit, EnableFails,
           DisableStart, DisableHooks, DisableFinish, CreateCheck, CreateInsert,
           CreateEnable, Crash

\* What is being enabled is on the active version, and so is what is enabled:
\* the version was looked at again after the row was inserted.
PointInv ==
    /\ InstancesPointToActive
    /\ OneActive
    /\ Enabled \subseteq Existing
    /\ \A i \in Instances : ipc[i] = "enable" => OnActive(i)
    /\ \A i \in Instances : ipc[i] = "created" => target[i] = pluginId[i] \/ OnActive(i)

\* An instance that is there stays there.
LEMMA ExistingKept ==
    ASSUME TypeOK, [Next]_vars
    PROVE  Existing \subseteq Existing'
    <1> USE DEF dbVars, callVars, waitVars, patchVars
    <1>1. CASE UNCHANGED ipc
        BY <1>1 DEF Existing
    <1>2. CASE Crash
        BY <1>2 DEF Crash, Existing
    <1>3. ASSUME NEW i \in Instances, Patch(i) PROVE Existing \subseteq Existing'
        <2>1. \E s \in PatchStates : /\ ipc' = [ipc EXCEPT ![i] = s]
                                     /\ s \in {"absent", "create"} => i \notin Existing
            BY <1>3 DEF Patch, CreateCheck, CreateInsert, CreateEnable, EnableCheck,
               EnableCommit, EnableFails, DisableStart, DisableHooks, DisableFinish,
               PatchStates, Existing
        <2> QED BY <2>1 DEF Existing, TypeOK
    <1> QED
        BY <1>1, <1>2, <1>3 DEF Next, Call, vars, ReadActive, ReadStaged,
           ReadPrevious, MarkDraining, WaitForDrain, Swap, OpenWindow,
           DrainComplete, DrainTimeout, WindowPasses

LEMMA PointStep == TypeOK /\ PointInv /\ [Next]_vars => PointInv'
    <1> SUFFICES ASSUME TypeOK, PointInv, [Next]_vars PROVE PointInv'
        OBVIOUS
    <1> USE DEF dbVars, callVars, waitVars, patchVars
    <1>f. \A i \in Existing : OnActive(i) => OnActive(i)'
        BY FollowStep
    <1>e. Existing \subseteq Existing'
        BY ExistingKept
    <1>o. OneActive /\ OneActive'
        BY OneActiveStep DEF PointInv
    <1>1. CASE UNCHANGED <<ipc, enabled, target>>
        <2>1. Enabled' = Enabled
            BY <1>1 DEF Enabled
        <2>2. InstancesPointToActive' /\ Enabled' \subseteq Existing'
            BY <1>e, <1>f, <2>1 DEF PointInv, InstancesPointToActive
        <2>3. \A i \in Instances : ipc'[i] = "enable" => OnActive(i)'
            BY <1>1, <1>f DEF PointInv, Existing
        <2>4. ASSUME NEW i \in Instances, ipc'[i] = "created"
              PROVE  target'[i] = pluginId'[i] \/ OnActive(i)'
            <3>1. i \in Existing
                BY <1>1, <2>4 DEF Existing
            <3>2. CASE OnActive(i)
                BY <1>f, <3>1, <3>2
            <3>3. CASE pluginId'[i] # pluginId[i]
                BY <3>1, <3>3, FollowStep
            <3> QED
                BY <1>1, <2>4, <3>2, <3>3 DEF PointInv
        <2> QED BY <1>o, <2>2, <2>3, <2>4 DEF PointInv
    <1>2. ASSUME NEW i \in Instances, Patch(i) PROVE PointInv'
        <2>n. ASSUME NEW k \in Instances, k # i
              PROVE  /\ ipc'[k] = ipc[k] /\ enabled'[k] = enabled[k]
                     /\ pluginId'[k] = pluginId[k] /\ target'[k] = target[k]
            BY <1>2, <2>n DEF Patch, CreateCheck, CreateInsert, CreateEnable,
               EnableCheck, EnableCommit, EnableFails, DisableStart, DisableHooks,
               DisableFinish, TypeOK
        <2>s. status' = status
            BY <1>2 DEF Patch, CreateCheck, CreateInsert, CreateEnable,
               EnableCheck, EnableCommit, EnableFails, DisableStart, DisableHooks,
               DisableFinish
        <2>1. ASSUME NEW k \in Instances, k # i
              PROVE  /\ k \in Enabled' => k \in Existing' /\ OnActive(k)'
                     /\ ipc'[k] = "enable" => OnActive(k)'
                     /\ ipc'[k] = "created" => target'[k] = pluginId'[k] \/ OnActive(k)'
            BY <1>e, <2>1, <2>n, <2>s DEF PointInv, InstancesPointToActive, Enabled,
               OnActive
        <2>2. /\ i \in Enabled' => i \in Existing' /\ OnActive(i)'
              /\ ipc'[i] = "enable" => OnActive(i)'
              /\ ipc'[i] = "created" => target'[i] = pluginId'[i] \/ OnActive(i)'
            <3>1. CASE CreateCheck(i)
                BY <3>1 DEF CreateCheck, PointInv, Enabled, Existing, TypeOK
            <3>2. CASE CreateInsert(i)
                BY <3>2 DEF CreateInsert, PointInv, Enabled, Existing, TypeOK
            <3>3. CASE CreateEnable(i)
                <4>1. UNCHANGED <<status, pluginId, enabled>> /\ i \in Existing
                    BY <3>3 DEF CreateEnable, Existing
                <4>2. ipc'[i] = IF status[target[i]] = "active" THEN "enable" ELSE "idle"
                    BY <3>3 DEF CreateEnable, TypeOK
                <4>3. i \in Enabled' => i \in Existing' /\ OnActive(i)'
                    BY <1>e, <1>f, <4>1 DEF Enabled, PointInv, InstancesPointToActive
                <4>4. ASSUME ipc'[i] = "enable", ~OnActive(i) PROVE FALSE
                    <5>1. target[i] = pluginId[i] /\ status[target[i]] = "active"
                        BY <3>3, <4>2, <4>4 DEF CreateEnable, PointInv
                    <5>2. PICK v \in Versions : status[v] = "active" /\ pluginId[i] # v
                        BY <4>4 DEF OnActive
                    <5>3. target[i] \in Versions
                        BY DEF TypeOK
                    <5> QED BY <1>o, <5>1, <5>2, <5>3 DEF OneActive
                <4> QED BY <1>f, <4>1, <4>2, <4>3, <4>4
            <3>4. CASE EnableCheck(i)
                <4>1. /\ UNCHANGED <<status, pluginId, enabled>> /\ i \in Existing
                      /\ status[pluginId[i]] = "active" /\ ipc'[i] = "enable"
                    BY <3>4 DEF EnableCheck, Existing, TypeOK
                <4>2. pluginId[i] \in Versions
                    BY DEF TypeOK
                <4>3. OnActive(i)'
                    BY <1>o, <4>1, <4>2 DEF OnActive, OneActive
                <4> QED BY <1>e, <4>1, <4>3
            <3>5. CASE EnableCommit(i)
                BY <3>5, <1>f DEF EnableCommit, PointInv, Existing, TypeOK
            <3>6. CASE EnableFails(i) \/ DisableStart(i) \/ DisableHooks(i)
                       \/ DisableFinish(i)
                BY <3>6, <1>e, <1>f DEF EnableFails, DisableStart, DisableHooks,
                   DisableFinish, PointInv, InstancesPointToActive, Enabled, TypeOK
            <3> QED BY <1>2, <3>1, <3>2, <3>3, <3>4, <3>5, <3>6 DEF Patch
        <2> QED BY <1>o, <2>1, <2>2 DEF PointInv, InstancesPointToActive, Enabled
    <1>3. CASE Crash
        <2>1. /\ UNCHANGED <<status, pluginId, enabled>>
              /\ \A i \in Instances : ipc'[i] \in {"idle", "absent"}
            BY <1>3 DEF Crash
        <2> QED BY <1>e, <1>o, <2>1 DEF PointInv, InstancesPointToActive, Enabled,
                OnActive
    <1> QED
        BY <1>1, <1>2, <1>3 DEF Next, Call, vars, ReadActive, ReadStaged,
           ReadPrevious, MarkDraining, WaitForDrain, Swap, OpenWindow,
           DrainComplete, DrainTimeout, WindowPasses

\* Whichever creations, upgrades, rollbacks and patches overlap, no instance is
\* enabled on a version that was replaced: enableInstance looks at the version
\* again, and a swap that is refused takes its updates back.
THEOREM ActiveHasInstances == Spec => []InstancesPointToActive
    <1>1. Init => PointInv
        BY DEF Init, PointInv, InstancesPointToActive, OneActive, Enabled
    <1>2. PointInv => InstancesPointToActive
        BY DEF PointInv
    <1> QED
        BY <1>1, <1>2, TypeInit, TypeStep, PointStep, PTL DEF Spec

-----------------------------------------------------------------------------
\* enableInstance inserts rows for a version it saw active, and such a
\* version is not staged again.
EnablesActivated ==
    \A i \in Instances :
        ipc[i] \in {"create", "created", "enable"} => status[target[i]] # "staged"

HookInv == NoOrphanHooks /\ EnablesActivated

\* No step stages a version.
LEMMA NeverStaged ==
    ASSUME TypeOK, [Next]_vars
    PROVE  \A v \in Versions : status'[v] = "staged" => status[v] = "staged"
    <1> USE DEF dbVars, callVars, waitVars, patchVars
    <1>1. CASE UNCHANGED status
        BY <1>1
    <1>2. ASSUME NEW r \in Requests, MarkDraining(r) \/ Swap(r)
          PROVE  \A v \in Versions : status'[v] = "staged" => status[v] = "staged"
        BY <1>2 DEF MarkDraining, Swap, TypeOK
    <1> QED
        BY <1>1, <1>2 DEF Next, Call, Patch, vars, ReadActive, ReadStaged,
           ReadPrevious, WaitForDrain, OpenWindow, DrainComplete,
           DrainTimeout, WindowPasses, EnableCheck, EnableCommit, EnableFails,
           DisableStart, DisableHooks, DisableFinish, CreateCheck, CreateInsert,
           CreateEnable, Crash

LEMMA HookStep == TypeOK /\ HookInv /\ [Next]_vars => HookInv'
    <1> SUFFICES ASSUME TypeOK, HookInv, [Next]_vars PROVE HookInv'
        OBVIOUS
    <1> USE DEF dbVars, callVars, waitVars, patchVars
    <1>n. \A v \in Versions : status'[v] = "staged" =>
              /\ status[v] = "staged"
              /\ \A i \in Instances :
                    /\ hooks[v][i] = Rows(0, 0)
                    /\ hooks[v][i]["active"] = 0
                    /\ hooks[v][i]["disabled"] = 0
        BY NeverStaged, RowFacts DEF HookInv, NoOrphanHooks
    <1>1. EnablesActivated'
        <2>1. CASE UNCHANGED <<ipc, target>>
            BY <1>n, <2>1 DEF HookInv, EnablesActivated, TypeOK
        <2>2. ASSUME NEW i \in Instances, Patch(i) PROVE EnablesActivated'
            <3>1. CASE EnableCheck(i)
                BY <3>1 DEF EnableCheck, HookInv, EnablesActivated, TypeOK
            <3>2. CASE CreateCheck(i)
                BY <3>2 DEF CreateCheck, HookInv, EnablesActivated, TypeOK
            <3>3. CASE CreateInsert(i) \/ CreateEnable(i)
                BY <3>3 DEF CreateInsert, CreateEnable, HookInv, EnablesActivated,
                   TypeOK
            <3>4. CASE ~(EnableCheck(i) \/ CreateCheck(i) \/ CreateInsert(i)
                         \/ CreateEnable(i))
                BY <2>2, <3>4 DEF Patch, EnableCommit, EnableFails,
                   DisableStart, DisableHooks, DisableFinish, HookInv,
                   EnablesActivated, TypeOK
            <3> QED BY <3>1, <3>2, <3>3, <3>4
        <2>3. CASE Crash
            BY <2>3 DEF Crash, EnablesActivated
        <2> QED
            BY <2>1, <2>2, <2>3 DEF Next, Call, vars, ReadActive, ReadStaged,
               ReadPrevious, MarkDraining, WaitForDrain, Swap, OpenWindow,
               DrainComplete, DrainTimeout, WindowPasses
    <1>2. CASE UNCHANGED hooks
        BY <1>n, <1>1, <1>2 DEF HookInv, NoOrphanHooks
    <1>3. ASSUME NEW r \in Requests, Swap(r), ~UNCHANGED hooks PROVE HookInv'
        <2>1. /\ status' = [status EXCEPT ![to[r]] = "active",
                                          ![from[r]] = "disabled"]
              /\ hooks' = [v \in Versions |->
                             [i \in Instances |-> SwapHooks(v, i, r)]]
            BY <1>3 DEF Swap
        <2> SUFFICES ASSUME NEW v \in Versions, status'[v] = "staged",
                            NEW i \in Instances
                     PROVE  hooks'[v][i] = Rows(0, 0)
            BY <1>1 DEF HookInv, NoOrphanHooks
        <2>2. v # to[r] /\ v # from[r]
            BY <2>1 DEF TypeOK
        <2>3. SwapHooks(v, i, r) = Rows(0, 0)
            BY <1>n, <2>2 DEF SwapHooks
        <2> QED BY <2>1, <2>3
    <1>4. ASSUME NEW i \in Instances, EnableCommit(i) PROVE HookInv'
        <2> SUFFICES ASSUME NEW v \in Versions, status'[v] = "staged",
                            NEW k \in Instances
                     PROVE  hooks'[v][k] = Rows(0, 0)
            BY <1>1 DEF HookInv, NoOrphanHooks
        <2>1. v # target[i]
            BY <1>n, <1>4 DEF EnableCommit, HookInv, EnablesActivated
        <2>2. hooks'[v] = [hooks[v] EXCEPT ![i] = Rows(0, 0)]
            BY <1>n, <1>4, <2>1 DEF EnableCommit
        <2> QED BY <1>n, <2>2 DEF TypeOK
    <1>5. ASSUME NEW i \in Instances, DisableHooks(i) PROVE HookInv'
        <2> SUFFICES ASSUME NEW v \in Versions, status'[v] = "staged",
                            NEW k \in Instances
                     PROVE  hooks'[v][k] = Rows(0, 0)
            BY <1>1 DEF HookInv, NoOrphanHooks
        <2>1. hooks'[v] = [hooks[v] EXCEPT ![i] = Rows(0, 0)]
            BY <1>n, <1>5 DEF DisableHooks
        <2> QED BY <1>n, <2>1 DEF TypeOK
    <1> QED
        BY <1>2, <1>3, <1>4, <1>5 DEF Next, Call, Patch, vars, ReadActive,
           ReadStaged, ReadPrevious, MarkDraining, WaitForDrain, OpenWindow,
           DrainComplete, DrainTimeout, WindowPasses, EnableCheck,
           EnableFails, DisableStart, DisableFinish, CreateCheck, CreateInsert,
           CreateEnable, Crash

\* No upgrade that fails, however late, leaves hook rows of a version that
\* was never activated.
THEOREM RefusedSwapLeavesNoHooks == Spec => []NoOrphanHooks
    <1>1. Init => HookInv
        BY DEF Init, HookInv, NoOrphanHooks, EnablesActivated
    <1> QED
        BY <1>1, TypeInit, TypeStep, HookStep, PTL DEF Spec, HookInv
=============================================================================
