--------------------------- MODULE PluginLifecycle ---------------------------
(***************************************************************************)
(* One WASM plugin in one pod, between the registry row, which all pods    *)
(* share, and the pod's own runtime pool and hook dispatcher               *)
(* (internal/plugin/lifecycle.go).  An operation of an administrator reads *)
(* the row and then changes the three one after the other; no lock spans   *)
(* it, and each of its steps can fail.  Beside the operations a business   *)
(* flow has pinned the pool it began with.  The operations that the other  *)
(* pods serve change the row alone: no pod consumes the events             *)
(* plugin.enabled, plugin.disabled and plugin.hot_reloaded                 *)
(* (event_catalog.go:477-500).                                             *)
(***************************************************************************)
EXTENDS Integers

CONSTANTS
    Admins,             \* goroutines that serve requests of administrators
    MaxPluginOps,       \* bound on the operations
    MaxPluginFaults     \* bound on failed steps and restarts

ASSUME LifecycleAssumption == MaxPluginOps \in Nat /\ MaxPluginFaults \in Nat

VARIABLES
    registry,       \* the row: status, version of the code, configuration
    current,        \* the pool that serves new calls
    retired,        \* the pools that drain after their grace period
    metadata,       \* the runtime knows the plugin
    registered,     \* registrations of each version's hooks
    builds,         \* pools built so far
    op,             \* operations under way
    ops,            \* operations begun
    upsets,         \* failed steps and restarts
    unsettled,      \* history: operations overlapped, or a step failed that nothing undoes
    apart,          \* history: another pod changed the row, and the pod has not caught up
    bizFlow         \* the flow's pool, and history: whether the code gave that pool up

lifecycleVars == <<registry, current, retired, metadata, registered, builds, op, ops,
                   upsets, unsettled, apart, bizFlow>>
runtimeVars == <<current, retired, metadata, builds>>

Versions == {1, 2}
Other(v) == 3 - v
NoPool == [build |-> 0, ver |-> 0, conf |-> 0]
NoHooks == [v \in Versions |-> 0]
HooksOf(v) == [NoHooks EXCEPT ![v] = 1]
NoRow == [status |-> "none", ver |-> 1, conf |-> 1]
NoOp == [pc |-> "idle", kind |-> "none", row |-> NoRow, old |-> NoPool]
NoFlow == [pin |-> NoPool, cut |-> FALSE]

\* The server has started, with no plugin or an enabled one.
LifecycleInit ==
    /\ \/ registry = NoRow /\ current = NoPool /\ builds = 0
       \/ registry = [NoRow EXCEPT !.status = "enabled"]
          /\ current = [build |-> 1, ver |-> 1, conf |-> 1] /\ builds = 1
    /\ metadata = (current # NoPool)
    /\ registered = IF current = NoPool THEN NoHooks ELSE HooksOf(1)
    /\ retired = {}
    /\ op = [a \in Admins |-> NoOp] /\ ops = 0
    /\ upsets = 0 /\ unsettled = FALSE /\ apart = FALSE
    /\ bizFlow = NoFlow

On(a, l) == op[a].pc = l
GoTo(a, l) == op' = [op EXCEPT ![a].pc = l]
End(a) == op' = [op EXCEPT ![a] = NoOp]
Fault == upsets < MaxPluginFaults /\ upsets' = upsets + 1
Row(a) == op[a].row

-----------------------------------------------------------------------------
\* LoadPlugin retires the pool it finds, with its metadata, before it builds the new one.
\* Mutant: the pool that LoadPlugin replaces is only drained.
RetireNone == retired

Retire == IF current = NoPool THEN retired ELSE retired \cup {current}

LoadPlugin(ver, conf) ==
    /\ retired' = Retire
    /\ current' = [build |-> builds + 1, ver |-> ver, conf |-> conf]
    /\ builds' = builds + 1
    /\ metadata' = TRUE
    /\ UNCHANGED <<upsets, bizFlow>>

LoadPluginError ==
    /\ Fault
    /\ retired' = Retire
    /\ current' = NoPool
    /\ metadata' = (metadata /\ current = NoPool)
    /\ bizFlow' = IF current = NoPool THEN bizFlow ELSE [bizFlow EXCEPT !.cut = TRUE]
    /\ UNCHANGED builds

-----------------------------------------------------------------------------
Install ==
    /\ registry.status = "none"
    /\ registry' = [NoRow EXCEPT !.status = "installed"]
    /\ UNCHANGED <<runtimeVars, registered, op, ops, apart, upsets, unsettled, bizFlow>>

\* A request that another pod serves writes the row, and this pod is not told of it.
OtherPodWrites ==
    /\ registry.status # "none"
    /\ ops < MaxPluginOps /\ ops' = ops + 1
    /\ \/ \E s \in {"enabled", "disabled", "error"} : registry' = [registry EXCEPT !.status = s]
       \/ registry' = [registry EXCEPT !.conf = Other(@)]
       \/ registry' = [registry EXCEPT !.ver = Other(@)]
       \/ registry' = NoRow
    /\ registry' # registry
    /\ apart' = TRUE
    /\ unsettled' = (unsettled \/ \E b \in Admins : op[b].pc # "idle")
    /\ UNCHANGED <<runtimeVars, registered, op, upsets, bizFlow>>

\* An operation reads the row.
BeginOp(a, kind, l) ==
    /\ On(a, "idle")
    /\ ops < MaxPluginOps /\ ops' = ops + 1
    /\ op' = [op EXCEPT ![a] = [pc |-> l, kind |-> kind, row |-> registry, old |-> NoPool]]
    /\ unsettled' = (unsettled \/ \E b \in Admins : ~On(b, "idle"))
    /\ UNCHANGED <<registry, runtimeVars, registered, upsets, apart, bizFlow>>

\* Enable: load, register the hooks, persist the status.
Enable(a) ==
    /\ registry.status \in {"installed", "disabled", "error"}
    /\ BeginOp(a, "enable", "load")

EnableLoad(a) ==
    /\ On(a, "load")
    /\ \/ LoadPlugin(Row(a).ver, Row(a).conf) /\ GoTo(a, "register")
       \/ LoadPluginError /\ End(a)
    /\ UNCHANGED <<registry, registered, ops, apart, unsettled>>

RegisterHooks(a) ==
    /\ On(a, "register")
    /\ registered' = [registered EXCEPT ![Row(a).ver] = @ + 1]
    /\ GoTo(a, "enabled")
    /\ UNCHANGED <<registry, runtimeVars, ops, apart, upsets, unsettled, bizFlow>>

\* The row keeps what it is once it is deleted.
SetStatus(s) == registry' = IF registry.status = "none" THEN registry
                            ELSE [registry EXCEPT !.status = s]

PersistEnabled(a) ==
    /\ On(a, "enabled")
    /\ \/ SetStatus("enabled") /\ UNCHANGED <<upsets, unsettled>>
       \/ Fault /\ unsettled' = TRUE /\ UNCHANGED registry
    /\ End(a)
    /\ UNCHANGED <<runtimeVars, registered, ops, apart, bizFlow>>

\* Disable: remove the hooks, unload, and only then look at the status.
Disable(a) == registry.status # "none" /\ BeginOp(a, "disable", "unhook")

UnregisterHooks(a) ==
    /\ On(a, "unhook")
    /\ registered' = NoHooks
    /\ GoTo(a, "unload")
    /\ UNCHANGED <<registry, runtimeVars, ops, apart, upsets, unsettled, bizFlow>>

UnloadPlugin(a) ==
    /\ On(a, "unload")
    /\ current' = IF metadata THEN NoPool ELSE current
    /\ metadata' = FALSE
    /\ bizFlow' = IF bizFlow.pin = current \/ bizFlow.pin \in retired THEN [bizFlow EXCEPT !.cut = TRUE] ELSE bizFlow
    /\ GoTo(a, "disabled")
    /\ UNCHANGED <<registry, retired, builds, registered, ops, apart, upsets, unsettled>>

PersistDisabled(a) ==
    /\ On(a, "disabled")
    /\ \/ /\ Row(a).status \in {"enabled", "error"}
          /\ SetStatus("disabled")
          /\ IF op[a].kind = "uninstall" THEN GoTo(a, "delete") ELSE End(a)
          /\ apart' = FALSE
          /\ UNCHANGED <<upsets, unsettled>>
       \/ /\ Row(a).status \in {"installed", "disabled"}
          /\ End(a)
          /\ apart' = FALSE
          /\ UNCHANGED <<registry, upsets, unsettled>>
       \/ /\ Row(a).status \in {"enabled", "error"}
          /\ Fault /\ unsettled' = TRUE
          /\ End(a)
          /\ UNCHANGED <<registry, apart>>
    /\ UNCHANGED <<runtimeVars, registered, ops, bizFlow>>

Uninstall(a) ==
    /\ registry.status # "none"
    /\ BeginOp(a, "uninstall", IF registry.status = "enabled" THEN "unhook" ELSE "delete")

Delete(a) ==
    /\ On(a, "delete")
    /\ \/ registry' = NoRow /\ UNCHANGED upsets
       \/ Fault /\ UNCHANGED registry
    /\ End(a)
    /\ UNCHANGED <<runtimeVars, registered, ops, apart, unsettled, bizFlow>>

-----------------------------------------------------------------------------
\* UpdateConfig persists first, and reloads a plugin whose row was enabled.
UpdateConfig(a) == registry.status # "none" /\ BeginOp(a, "config", "config")

PersistConfig(a) ==
    /\ On(a, "config")
    /\ \/ /\ registry' = IF registry.status = "none" THEN registry
                         ELSE [registry EXCEPT !.conf = Other(Row(a).conf)]
          /\ IF Row(a).status = "enabled" THEN GoTo(a, "reload") ELSE End(a)
          /\ UNCHANGED upsets
       \/ Fault /\ End(a) /\ UNCHANGED registry
    /\ UNCHANGED <<runtimeVars, registered, ops, apart, unsettled, bizFlow>>

\* The code cannot be fetched, or cannot be loaded: then the old pool is already gone.
ReloadWithConfig(a) ==
    /\ On(a, "reload")
    /\ \/ LoadPlugin(Row(a).ver, Other(Row(a).conf)) /\ GoTo(a, "swap") /\ UNCHANGED unsettled
       \/ Fault /\ GoTo(a, "restore") /\ UNCHANGED <<runtimeVars, bizFlow, unsettled>>
       \/ LoadPluginError /\ GoTo(a, "restore") /\ unsettled' = TRUE
    /\ UNCHANGED <<registry, registered, ops, apart>>

SwapConfigHooks(a) ==
    /\ On(a, "swap")
    /\ registered' = HooksOf(Row(a).ver)
    /\ End(a)
    /\ apart' = FALSE
    /\ UNCHANGED <<registry, runtimeVars, ops, upsets, unsettled, bizFlow>>

RestoreConfig(a) ==
    /\ On(a, "restore")
    /\ \/ /\ registry' = IF registry.status = "none" THEN registry
                         ELSE [registry EXCEPT !.conf = Row(a).conf]
          /\ UNCHANGED <<upsets, unsettled>>
       \/ Fault /\ unsettled' = TRUE /\ UNCHANGED registry
    /\ End(a)
    /\ UNCHANGED <<runtimeVars, registered, ops, apart, bizFlow>>

-----------------------------------------------------------------------------
\* HotReload takes the old pool out of the runtime, so that no flow finds it any more.
HotReload(a) == registry.status = "enabled" /\ BeginOp(a, "reload", "detach")

DetachPool(a) ==
    /\ On(a, "detach")
    /\ op' = [op EXCEPT ![a].old = current, ![a].pc = "loadNew"]
    /\ current' = NoPool
    /\ bizFlow' = IF bizFlow.pin = current THEN [bizFlow EXCEPT !.cut = TRUE] ELSE bizFlow
    /\ UNCHANGED <<registry, retired, metadata, builds, registered, ops, apart, upsets, unsettled>>

LoadNew(a) ==
    /\ On(a, "loadNew")
    /\ \/ LoadPlugin(Other(Row(a).ver), Row(a).conf) /\ GoTo(a, "swapNew")
       \/ /\ LoadPluginError
          /\ IF op[a].old = NoPool THEN End(a) ELSE GoTo(a, "loadOld")
    /\ UNCHANGED <<registry, registered, ops, apart, unsettled>>

SwapNewHooks(a) ==
    /\ On(a, "swapNew")
    /\ registered' = HooksOf(Other(Row(a).ver))
    /\ GoTo(a, "persist")
    /\ UNCHANGED <<registry, runtimeVars, ops, apart, upsets, unsettled, bizFlow>>

\* UpdatePlugin writes the new version, not the status; then the old pool drains.
UpdatePlugin(a) ==
    /\ On(a, "persist")
    /\ \/ /\ registry' = IF registry.status = "none" THEN registry
                         ELSE [registry EXCEPT !.ver = Other(Row(a).ver)]
          /\ End(a)
          /\ apart' = FALSE
          /\ UNCHANGED upsets
       \/ Fault /\ GoTo(a, "swapBack") /\ UNCHANGED <<registry, apart>>
    /\ UNCHANGED <<runtimeVars, registered, ops, unsettled, bizFlow>>

\* Mutant: a failed write leaves the new hooks.
KeepNewHooks(a) ==
    /\ On(a, "swapBack")
    /\ GoTo(a, "reloadOld")
    /\ UNCHANGED <<registry, runtimeVars, registered, ops, apart, upsets, unsettled, bizFlow>>

SwapBackHooks(a) ==
    /\ On(a, "swapBack")
    /\ registered' = HooksOf(Row(a).ver)
    /\ GoTo(a, "reloadOld")
    /\ UNCHANGED <<registry, runtimeVars, ops, apart, upsets, unsettled, bizFlow>>

\* A failure to load the old version after a failed write is noted in the row.
LoadOld(a) ==
    /\ On(a, "loadOld") \/ On(a, "reloadOld")
    /\ \/ LoadPlugin(Row(a).ver, Row(a).conf) /\ End(a) /\ UNCHANGED unsettled
       \/ /\ LoadPluginError
          /\ unsettled' = TRUE
          /\ IF On(a, "reloadOld") THEN GoTo(a, "markError") ELSE End(a)
    /\ UNCHANGED <<registry, registered, ops, apart>>

MarkError(a) ==
    /\ On(a, "markError")
    /\ SetStatus("error") \/ UNCHANGED registry
    /\ End(a)
    /\ UNCHANGED <<runtimeVars, registered, ops, apart, upsets, unsettled, bizFlow>>

-----------------------------------------------------------------------------
\* drainAndRemoveRetired, after the grace period.
DrainRetired(p) ==
    /\ p \in retired
    /\ retired' = retired \ {p}
    /\ bizFlow' = IF bizFlow.pin = p THEN [bizFlow EXCEPT !.cut = TRUE] ELSE bizFlow
    /\ UNCHANGED <<registry, current, metadata, builds, registered, op, ops, apart, upsets, unsettled>>

BeginFlow ==
    /\ bizFlow = NoFlow
    /\ current # NoPool
    /\ bizFlow' = [NoFlow EXCEPT !.pin = current]
    /\ UNCHANGED <<registry, runtimeVars, registered, op, ops, apart, upsets, unsettled>>

EndFlow ==
    /\ bizFlow # NoFlow
    /\ bizFlow' = NoFlow
    /\ UNCHANGED <<registry, runtimeVars, registered, op, ops, apart, upsets, unsettled>>

\* The pool that a restart builds for the row.
FreshPool == [build |-> builds + 1, ver |-> registry.ver, conf |-> registry.conf]

\* The pod restarts.  LoadAllEnabled loads an enabled plugin or, where that fails, leaves
\* it out: an SDK version it refuses is noted in the row, if that write succeeds.
LoadEnabled ==
    /\ registry.status = "enabled"
    /\ \/ current' = FreshPool /\ UNCHANGED registry /\ unsettled' = FALSE
       \/ current' = NoPool /\ SetStatus("error") /\ unsettled' = FALSE
       \/ current' = NoPool /\ UNCHANGED registry /\ unsettled' = TRUE

\* RecoverErrorPlugins enables a plugin in error; once it is loaded, the write of its
\* status can fail as well.
RecoverError ==
    /\ registry.status = "error"
    /\ \/ current' = FreshPool /\ SetStatus("enabled") /\ unsettled' = FALSE
       \/ current' = FreshPool /\ UNCHANGED registry /\ unsettled' = TRUE
       \/ current' = NoPool /\ UNCHANGED registry /\ unsettled' = FALSE

LoadNone ==
    /\ registry.status \notin {"enabled", "error"}
    /\ current' = NoPool /\ UNCHANGED registry /\ unsettled' = FALSE

Restart ==
    /\ Fault
    /\ LoadEnabled \/ RecoverError \/ LoadNone
    /\ builds' = IF current' = NoPool THEN builds ELSE builds + 1
    /\ metadata' = (current' # NoPool)
    /\ registered' = IF current' = NoPool THEN NoHooks ELSE HooksOf(registry.ver)
    /\ apart' = FALSE
    /\ retired' = {} /\ bizFlow' = NoFlow
    /\ op' = [a \in Admins |-> NoOp]
    /\ UNCHANGED ops

OperationStep(a) ==
    \/ Enable(a) \/ EnableLoad(a) \/ RegisterHooks(a) \/ PersistEnabled(a)
    \/ Disable(a) \/ UnregisterHooks(a) \/ UnloadPlugin(a) \/ PersistDisabled(a)
    \/ Uninstall(a) \/ Delete(a)
    \/ UpdateConfig(a) \/ PersistConfig(a) \/ ReloadWithConfig(a) \/ SwapConfigHooks(a)
    \/ RestoreConfig(a)
    \/ HotReload(a) \/ DetachPool(a) \/ LoadNew(a) \/ SwapNewHooks(a) \/ UpdatePlugin(a)
    \/ SwapBackHooks(a) \/ LoadOld(a) \/ MarkError(a)

LifecycleNext ==
    \/ Install \/ OtherPodWrites \/ BeginFlow \/ EndFlow \/ Restart
    \/ \E a \in Admins : OperationStep(a)
    \/ \E p \in retired : DrainRetired(p)

LifecycleSpec == LifecycleInit /\ [][LifecycleNext]_lifecycleVars

-----------------------------------------------------------------------------
\* Between operations a pod runs an enabled plugin with the version and the configuration
\* of the row and has its hooks registered once, and of any other plugin it has neither
\* pool nor hooks: whichever steps failed, unless operations overlapped, a failed step is
\* one that the code leaves as it is, or another pod changed the row since the pod last
\* disabled, reconfigured or reloaded the plugin or restarted.
RuntimeFollowsRegistry ==
    (\A a \in Admins : On(a, "idle")) /\ ~unsettled /\ ~apart =>
        IF registry.status = "enabled"
        THEN /\ metadata
             /\ current.ver = registry.ver /\ current.conf = registry.conf
             /\ registered = HooksOf(registry.ver)
        ELSE current = NoPool /\ ~metadata /\ registered = NoHooks

\* The pool CallHook takes for a flow (resolvePool).
ResolvePool(pin) == IF pin = current \/ pin \in retired THEN pin ELSE current

\* However operations overlap, a flow's calls reach the pool it began with, until a hot
\* reload detaches it, a reload fails, the plugin is unloaded or the grace period ends.
FlowKeepsVersion == bizFlow.pin # NoPool /\ ~bizFlow.cut => metadata /\ ResolvePool(bizFlow.pin) = bizFlow.pin

\* lifecycle.go: the runtime of a pod follows the registry, and a flow keeps the version it began
\* with.
PluginsSafe == RuntimeFollowsRegistry /\ FlowKeepsVersion
=============================================================================
