------------------------------- MODULE Settings -------------------------------
(***************************************************************************)
(* Runtime settings (domain/settings, adapter/settings): one row of        *)
(* overrides in the database and the configuration each process runs with. *)
(* ApplyOverrides reads the row, lays the partial update over it, writes   *)
(* it back and applies it, under a mutex of the process: two processes do  *)
(* not exclude each other.  A field is present, absent (nil) or, for the   *)
(* list of origins, emptied by a section without it.                       *)
(***************************************************************************)
EXTENDS Integers, Sequences

CONSTANTS
    SettingsPods,       \* processes
    SettingsAdmins,             \* goroutines that serve UpdateSettings
    EditedFields,       \* the fields the requests touch
    SettingValues,      \* what they set, in tenths for the weights
    MaxSettingsUpdates, MaxSettingsFaults

VARIABLES
    overrides,      \* platform.system_settings
    runningConfig,  \* config.Config of each process: what differs from the environment
    settingsMutex,  \* Service.mu: the holder, or "free"
    settingsUpdate, \* the request of each goroutine
    saved,          \* history: what the last save of each field wrote
    saves,          \* history: the processes that saved, in order
    seenSave,       \* history: the last save each process applied or loaded
    savesCrossed,        \* history: a save was laid over a row another process had replaced
    updateCount, settingsFaults

settingsVars == <<overrides, runningConfig, settingsMutex, settingsUpdate, saved, saves,
                  seenSave, savesCrossed, updateCount, settingsFaults>>

-----------------------------------------------------------------------------
\* The editable fields, by section of SettingsUpdate.
BillingFields == {"trial_days"}
RateLimitFields == {"checkout_max_per_hour", "subscription_max_per_day",
                    "login_max_per_window", "login_window_minutes",
                    "forgot_pwd_max_per_window", "forgot_pwd_window_minutes"}
FeatureFlagFields == {"hooks_subscription_enabled", "hooks_vpn_provider_enabled"}
SmartRouterFields == {"weight_geo", "weight_latency", "weight_load", "weight_gaming_geo",
                      "weight_gaming_latency", "weight_gaming_load", "weight_streaming_geo",
                      "weight_streaming_latency", "weight_streaming_load"}
SpeedTestFields == {"max_concurrent", "per_ip_rate_limit", "max_upload_bytes"}
PluginFields == {"max_plugins", "enable_hot_reload"}
OutboxFields == {"relay_workers", "partition_lookahead", "retention_days"}
CORSFields == {"allowed_origins"}
\* Of each of the four breakers.
BreakerFields == {"max_failures", "timeout", "max_requests", "interval"}
Fields == BillingFields \cup RateLimitFields \cup FeatureFlagFields \cup SmartRouterFields
            \cup SpeedTestFields \cup PluginFields \cup OutboxFields \cup CORSFields
            \cup BreakerFields

Unset == -100           \* nil, and no value that a request carries
Unheld == "free"
WeightMax == 10         \* 1.0
Unchanged == [f \in EditedFields |-> Unset]

-----------------------------------------------------------------------------
\* validate: what a field may be set to.
ValidBilling(v) == v > 0
ValidRateLimit(v) == v > 0
ValidSmartRouter(v) == 0 <= v /\ v <= WeightMax
ValidSpeedTest(v) == v > 0
ValidPlugins(f, v) == f = "max_plugins" => v > 0
ValidOutbox(f, v) == IF f = "relay_workers" THEN v > 0 ELSE v >= 0
ValidCORS(v) == v > 0       \* the number of origins
ValidCircuitBreaker(f, v) == f \in {"max_failures", "timeout"} => v > 0

Valid(f, v) ==
    \/ v = Unset
    \/ f \in BillingFields /\ ValidBilling(v)
    \/ f \in RateLimitFields /\ ValidRateLimit(v)
    \/ f \in FeatureFlagFields
    \/ f \in SmartRouterFields /\ ValidSmartRouter(v)
    \/ f \in SpeedTestFields /\ ValidSpeedTest(v)
    \/ f \in PluginFields /\ ValidPlugins(f, v)
    \/ f \in OutboxFields /\ ValidOutbox(f, v)
    \/ f \in CORSFields /\ ValidCORS(v)
    \/ f \in BreakerFields /\ ValidCircuitBreaker(f, v)

\* The partial update of a request: the fields it names.  A section "cors" without
\* origins counts as naming them, unset.
Partials == {[f |-> f, v |-> v] : f \in EditedFields, v \in SettingValues}
              \cup {[f |-> f, v |-> Unset] : f \in EditedFields \cap CORSFields}

\* A field that is nil leaves the one below alone.
MergePtr(dst, src) == IF src = Unset THEN dst ELSE src

\* mergeUpdates: field by field, but the section of the origins is replaced.
MergeUpdates(existing, partial) ==
    [existing EXCEPT ![partial.f] =
        IF partial.f \in CORSFields THEN partial.v ELSE MergePtr(@, partial.v)]
ApplySettingsUpdate(config, update) ==
    [f \in EditedFields |-> MergePtr(config[f], update[f])]

-----------------------------------------------------------------------------
Idle == [pc |-> "idle"]

SettingsInit ==
    /\ overrides = Unchanged
    /\ runningConfig = [p \in SettingsPods |-> Unchanged]
    /\ settingsMutex = [p \in SettingsPods |-> Unheld]
    /\ settingsUpdate = [a \in SettingsAdmins |-> Idle]
    /\ saved = Unchanged /\ saves = <<>>
    /\ seenSave = [p \in SettingsPods |-> 0]
    /\ savesCrossed = FALSE
    /\ updateCount = 0 /\ settingsFaults = 0

Go(a, r) == settingsUpdate' = [settingsUpdate EXCEPT ![a] = r]
Release(p) == settingsMutex' = [settingsMutex EXCEPT ![p] = Unheld]
Fault == settingsFaults < MaxSettingsFaults /\ settingsFaults' = settingsFaults + 1

\* UpdateSettings decodes the request, and ApplyOverrides validates it before the lock.
UpdateSettings(a, p, partial) ==
    /\ settingsUpdate[a] = Idle /\ updateCount < MaxSettingsUpdates
    /\ updateCount' = updateCount + 1
    /\ IF Valid(partial.f, partial.v)
       THEN Go(a, [pc |-> "lock", pod |-> p, partial |-> partial])
       ELSE UNCHANGED settingsUpdate                                              \* 400
    /\ UNCHANGED <<overrides, runningConfig, settingsMutex, saved, saves, seenSave, savesCrossed,
                   settingsFaults>>

\* Mutant: nothing is locked.
LockNothing(a) ==
    LET r == settingsUpdate[a]
    IN /\ r.pc = "lock"
       /\ Go(a, [r EXCEPT !.pc = "read"])
       /\ UNCHANGED <<overrides, runningConfig, settingsMutex, saved, saves, seenSave, savesCrossed,
                      updateCount, settingsFaults>>

Lock(a) ==
    LET r == settingsUpdate[a]
    IN /\ r.pc = "lock" /\ settingsMutex[r.pod] = Unheld
       /\ settingsMutex' = [settingsMutex EXCEPT ![r.pod] = a]
       /\ Go(a, [r EXCEPT !.pc = "read"])
       /\ UNCHANGED <<overrides, runningConfig, saved, saves, seenSave, savesCrossed, updateCount,
                      settingsFaults>>

\* GetOverrides inside ApplyOverrides; an error releases the lock.
GetOverrides(a) ==
    LET r == settingsUpdate[a]
    IN /\ r.pc = "read"
       /\ \/ /\ Go(a, [pc |-> "save", pod |-> r.pod, partial |-> r.partial,
                       existing |-> overrides, at |-> Len(saves)])
             /\ UNCHANGED <<settingsMutex, settingsFaults>>
          \/ Fault /\ Go(a, Idle) /\ Release(r.pod)
       /\ UNCHANGED <<overrides, runningConfig, saved, saves, seenSave, savesCrossed, updateCount>>

\* SaveOverrides replaces the whole row.
SaveOverrides(a) ==
    LET r == settingsUpdate[a]
        merged == MergeUpdates(r.existing, r.partial)
    IN /\ r.pc = "save"
       /\ \/ /\ overrides' = merged
             /\ saved' = MergeUpdates(saved, r.partial)
             /\ saves' = Append(saves, r.pod)
             /\ savesCrossed' = (savesCrossed \/ \E i \in r.at + 1 .. Len(saves) : saves[i] # r.pod)
             /\ Go(a, [pc |-> "apply", pod |-> r.pod, merged |-> merged, at |-> Len(saves')])
             /\ UNCHANGED <<settingsMutex, settingsFaults>>
          \/ /\ Fault /\ Go(a, Idle) /\ Release(r.pod)
             /\ UNCHANGED <<overrides, saved, saves, savesCrossed>>
       /\ UNCHANGED <<runningConfig, seenSave, updateCount>>

\* The merged overrides are applied and the lock released; the reply is GetSettings.
ApplyOverrides(a) ==
    LET r == settingsUpdate[a]
    IN /\ r.pc = "apply"
       /\ runningConfig' = [runningConfig EXCEPT ![r.pod] = ApplySettingsUpdate(@, r.merged)]
       /\ seenSave' = [seenSave EXCEPT ![r.pod] = r.at]
       /\ Go(a, Idle) /\ Release(r.pod)
       /\ UNCHANGED <<overrides, saved, saves, savesCrossed, updateCount, settingsFaults>>

\* A process starts again: LoadOverrides lays the row over the environment, and an
\* error leaves the environment alone and the process running.
LoadOverrides(p) ==
    /\ Fault
    /\ \/ /\ runningConfig' = [runningConfig EXCEPT ![p] = ApplySettingsUpdate(Unchanged, overrides)]
          /\ seenSave' = [seenSave EXCEPT ![p] = Len(saves)]
       \/ /\ runningConfig' = [runningConfig EXCEPT ![p] = Unchanged]
          /\ seenSave' = [seenSave EXCEPT ![p] = 0]
    /\ settingsUpdate' = [a \in SettingsAdmins |->
         IF settingsUpdate[a] # Idle /\ settingsUpdate[a].pod = p THEN Idle
                                                                  ELSE settingsUpdate[a]]
    /\ Release(p)
    /\ UNCHANGED <<overrides, saved, saves, savesCrossed, updateCount>>

SettingsNext ==
    \/ \E a \in SettingsAdmins :
         \/ \E p \in SettingsPods, partial \in Partials : UpdateSettings(a, p, partial)
         \/ Lock(a) \/ GetOverrides(a) \/ SaveOverrides(a) \/ ApplyOverrides(a)
    \/ \E p \in SettingsPods : LoadOverrides(p)

SettingsSpec == SettingsInit /\ [][SettingsNext]_settingsVars

-----------------------------------------------------------------------------
\* Service.ApplyOverrides: unless two processes saved at once, the row holds the last
\* value written to each field, whatever failed or restarted in between, and a process
\* that has applied or loaded the last save runs with it; the row never holds a value
\* that validate refuses.
SettingsKept ==
    /\ ~savesCrossed => overrides = saved
    /\ \A p \in SettingsPods, f \in EditedFields :
         saves # <<>> /\ seenSave[p] = Len(saves) /\ overrides[f] # Unset =>
            runningConfig[p][f] = overrides[f]
    /\ \A f \in EditedFields : Valid(f, overrides[f])
=============================================================================
