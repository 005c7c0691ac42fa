---------------------------- MODULE HostFunctions ----------------------------
(***************************************************************************)
(* What a plugin may do (internal/plugin: manifest.go, permissions.go,     *)
(* hostfuncs.go, rate_limiter.go) and the key-value store behind it        *)
(* (adapter/postgres/plugin_storage_repo.go).  One plugin.  A host         *)
(* function reads the plugin's row and works on with that copy while an    *)
(* administrator reloads or uninstalls the plugin.  A refused call leaves  *)
(* nothing behind and is not a step.                                       *)
(*                                                                         *)
(* Nothing calls SetPluginRegistry: as wired, resolvePlugin fails and only *)
(* log and host_call do anything.  The model is of an installation whose   *)
(* registry has been set, as the tests have it.                            *)
(***************************************************************************)
EXTENDS Integers, FiniteSets, Sequences, SequencesExt, FiniteSetsExt

CONSTANTS
    Uploads,                        \* manifests an administrator uploads
    GuestCalls,                     \* calls of plugin code under way
    Targets,                        \* requested URLs: host and path
    BlockedHosts,                   \* blockedHostnames
    KnownPermissions,               \* keys of the permission catalogue
    StorageKeys, ValidKeys,         \* keys asked for; those ValidateStorageKey takes
    LeftKeys,                       \* valid keys that may hold a value at the start
    StoredValues,                   \* values: len, and size as the database counts it
    Overhead,                       \* what a size may exceed a length by
    MaxBytes,                       \* the quota
    HTTPWindow,                     \* the limiter's minute
    MaxHostTime, MaxHostCalls, MaxUploads, MaxHostFaults

VARIABLES
    plug,           \* the plugin's row; NoPlug: not installed
    store,          \* plugin_storage
    slugLock,       \* who holds the advisory lock of the slug
    limiters,       \* every limiter made so far
    inForce,        \* httpLimiters: the slug's limiter, 0: none
    guest,          \* the calls under way
    operator,       \* the administrator
    hostTime, hostCalls, uploads, hostFaults,
    kept,           \* history: what each key was last set to, unless it has been deleted
    undeclared      \* history: what calls did that the manifest they went by does not declare

hostVars == <<plug, store, slugLock, limiters, inForce, guest, operator, hostTime, hostCalls,
              uploads, hostFaults, kept, undeclared>>
storeVars == <<store, kept>>
limitVars == <<limiters, inForce>>
boundVars == <<hostTime, uploads, hostFaults>>

NoPlug == [installed |-> FALSE]
NoValue == [set |-> 0]
Unlocked == "unlocked"
Resting == [pc |-> "rest"]

-----------------------------------------------------------------------------
\* The manifest.  A path is the sequence of its segments.
allowedRouteMethods == {"GET", "POST", "PUT", "DELETE", "PATCH"}
reservedRoutePathPrefixes == {<<"api", s>> : s \in {"admin", "auth", "me", "webhooks"}}

ToLower(s) == CASE s = "Admin" -> "admin" [] s = "API" -> "api" [] OTHER -> s

validateManifestPage(page) ==
    page.path # "" /\ page.title # "" /\ page.menu \in {"admin", "cabinet"}

\* The prefix is compared as it is written, the reserved names in lower case.
validateManifestRoute(route) ==
    LET lower == [i \in DOMAIN route.path |-> ToLower(route.path[i])] IN
    /\ route.method \in allowedRouteMethods
    /\ Len(route.path) > 1 /\ Head(route.path) = "api"
    /\ \A reserved \in reservedRoutePathPrefixes : ~IsPrefix(reserved, lower)
    /\ route.function # ""

validatePluginVersion(version) ==
    Len(version) \in 2 .. 3 /\ \A i \in DOMAIN version : version[i] \in Int

\* A plugin has hooks or is a bot.  How names are spelled, and how many pages and routes
\* there may be, is left out.
Validate(m) ==
    /\ m.id # "" /\ m.name # "" /\ m.sdk # ""
    /\ validatePluginVersion(m.version)
    /\ m.hooks # {} \/ m.bot
    /\ \A h \in m.hooks : h.known
    /\ \A i \in DOMAIN m.pages : validateManifestPage(m.pages[i])
    /\ IsInjective([i \in DOMAIN m.pages |-> m.pages[i].path])
    /\ \A i \in DOMAIN m.routes : validateManifestRoute(m.routes[i])
    /\ IsInjective([i \in DOMAIN m.routes |-> <<m.routes[i].method, m.routes[i].path>>])

validateRoutePermissions(m) ==
    \A i \in DOMAIN m.routes : m.routes[i].permission \in {""} \cup KnownPermissions

Installable(m) == Validate(m) /\ validateRoutePermissions(m)

\* Limits left out or below one take the default; two have a maximum.
Defaulted(v, default) == IF v <= 0 THEN default ELSE v
Capped(v, default, max) == IF Defaulted(v, default) > max THEN max ELSE Defaulted(v, default)

EffectiveLimits(l) ==
    [memory |-> Capped(l.memory, 64, 4096), pool |-> Capped(l.pool, 4, 16),
     fuel |-> Defaulted(l.fuel, 1000000), storage |-> Defaulted(l.storage, 100),
     http |-> Defaulted(l.http, 100), timeout |-> Defaulted(l.timeout, 5000),
     timeoutAsync |-> Defaulted(l.timeoutAsync, 30000)]

\* A resource that is read or written, with the name its second scope goes by.
Scopes(resource, value, write) ==
    CASE value = "read" -> {<<resource, "read">>}
      [] value = write -> {<<resource, "read">>, <<resource, write>>}
      [] OTHER -> {}

One(resource, value, only) == IF value = only THEN {<<resource, only>>} ELSE {}

ParsePermissions(p) ==
    Scopes("billing", p.billing, "write") \cup Scopes("users", p.users, "write")
        \cup Scopes("vpn", p.vpn, "write") \cup Scopes("storage", p.storage, "readwrite")
        \cup One("payment", p.payment, "write") \cup One("notifications", p.notifications, "emit")
        \cup One("analytics", p.analytics, "write") \cup One("api", p.api, "routes")
        \cup One("telegram", p.telegram, "send")

impliesPermission(granted, requested) ==
    granted[1] = requested[1] /\ requested[2] = "read" /\ granted[2] \in {"write", "readwrite"}

HasPermission(row, scope) ==
    \E g \in row.permissions : g = scope \/ impliesPermission(g, scope)

\* NewPlugin, and what HotReload makes of an upload.
NewPlugin(m) ==
    [installed |-> TRUE, manifest |-> m, permissions |-> ParsePermissions(m.permissions)]

-----------------------------------------------------------------------------
\* URLs.  path.Clean drops empty segments and dots; ".." is refused.
normalizeURL(u) == [u EXCEPT !.path = SelectSeq(@, LAMBDA s : s \notin {"", "."})]

matchHTTPPattern(pattern, u) ==
    /\ pattern.host = u.host
    /\ pattern.path = u.path \/ (pattern.wild /\ IsPrefix(pattern.path, u.path))

ValidateHTTPRequest(row, u) ==
    \E pattern \in row.manifest.permissions.http : matchHTTPPattern(pattern, u)

isBlockedHostname(u) == u.host \in BlockedHosts \cup {""}

-----------------------------------------------------------------------------
Expired(row) == row # NoValue /\ row.expires < hostTime

\* StorageGetSize counts rows that have expired too.
StorageGetSize ==
    MapThenSumSet(LAMBDA k : IF store[k] = NoValue THEN 0 ELSE store[k].value.size,
                  StorageKeys)

HostInit ==
    /\ plug \in {NoPlug} \cup {NewPlugin(m) : m \in {n \in Uploads : Installable(n)}}
    /\ store \in [StorageKeys -> {NoValue}
                     \cup {[set |-> 1, value |-> v, expires |-> 0] : v \in StoredValues}]
    /\ \A k \in StorageKeys : store[k] # NoValue => plug.installed /\ k \in LeftKeys
    /\ StorageGetSize <= MaxBytes
    /\ slugLock = Unlocked
    /\ limiters = <<>> /\ inForce = 0
    /\ guest = [g \in GuestCalls |-> Resting]
    /\ operator = Resting
    /\ hostTime = 0 /\ hostCalls = 0 /\ uploads = 0 /\ hostFaults = 0
    /\ kept = store
    /\ undeclared = {}

\* A call begins with resolvePlugin.  While a plugin is being uninstalled, code of it
\* that was running may still call.
Resolves(g) ==
    /\ guest[g] = Resting
    /\ plug.installed
    /\ hostCalls < MaxHostCalls
    /\ hostCalls' = hostCalls + 1

Step(g, r) == guest' = [guest EXCEPT ![g] = r]

\* What the words of a manifest mean.
Declares(m, what) ==
    CASE what = "vpn" -> m.permissions.vpn = "write"
      [] what = "get" -> m.permissions.storage \in {"read", "readwrite"}
      [] what = "set" -> m.permissions.storage = "readwrite"
      [] what = "emit" -> m.permissions.notifications = "emit"
      [] what = "http" -> m.permissions.http # {}

Did(what, row) ==
    undeclared' = undeclared \cup (IF Declares(row.manifest, what) THEN {} ELSE {what})

-----------------------------------------------------------------------------
\* HTTPRequest: the checks of the URL, the limiter, the request.
HTTPRequest(g, url) ==
    LET u == normalizeURL(url) IN
    /\ Resolves(g)
    /\ ".." \notin ToSet(url.path)
    /\ ValidateHTTPRequest(plug, u)
    /\ ~isBlockedHostname(u)
    /\ Step(g, [pc |-> "limiter", row |-> plug])
    /\ UNCHANGED <<plug, storeVars, slugLock, limitVars, operator, boundVars, undeclared>>

\* A limiter keeps the limit it was made with.  It is stale if the row it was made from
\* is no longer, or will soon not be, the plugin's.
getOrCreateHTTPLimiter(g) ==
    LET row == guest[g].row IN
    /\ guest[g].pc = "limiter"
    /\ IF inForce # 0
       THEN UNCHANGED limitVars /\ Step(g, [pc |-> "allow", row |-> row, by |-> inForce])
       ELSE /\ limiters' = Append(limiters,
                 [limit |-> EffectiveLimits(row.manifest.limits).http, calls |-> <<>>,
                  admitted |-> <<>>, stale |-> row # plug \/ operator.pc \in {"empty", "persist"}])
            /\ inForce' = Len(limiters')
            /\ Step(g, [pc |-> "allow", row |-> row, by |-> inForce'])
    /\ UNCHANGED <<plug, storeVars, slugLock, operator, hostCalls, boundVars, undeclared>>

\* Under the limiter's mutex; then the request goes out, unless an address its host
\* resolves to is private.
Allow(g) ==
    LET l == limiters[guest[g].by]
        valid == SelectSeq(l.calls, LAMBDA t : t > hostTime - HTTPWindow)
    IN
    /\ guest[g].pc = "allow"
    /\ IF Len(valid) >= l.limit
       THEN limiters' = [limiters EXCEPT ![guest[g].by].calls = valid] /\ UNCHANGED undeclared
       ELSE /\ limiters' = [limiters EXCEPT ![guest[g].by] =
                  [l EXCEPT !.calls = Append(valid, hostTime),
                            !.admitted = Append(l.admitted, hostTime)]]
            /\ Did("http", guest[g].row)
    /\ Step(g, Resting)
    /\ UNCHANGED <<plug, storeVars, slugLock, inForce, operator, hostCalls, boundVars>>

VPNRequest(g) ==
    /\ Resolves(g)
    /\ HasPermission(plug, <<"vpn", "write">>)
    /\ Did("vpn", plug)
    /\ UNCHANGED <<plug, storeVars, slugLock, limitVars, guest, operator, boundVars>>

\* The event's name is put below "plugin." unless it is there already.
EmitEvent(g, name) ==
    /\ Resolves(g)
    /\ HasPermission(plug, <<"notifications", "emit">>)
    /\ LET event == IF Head(name) = "plugin" THEN name ELSE <<"plugin", plug.manifest.id>> \o name
       IN undeclared' = undeclared \cup
            (IF Declares(plug.manifest, "emit") /\ Head(event) = "plugin" THEN {} ELSE {"emit"})
    /\ UNCHANGED <<plug, storeVars, slugLock, limitVars, guest, operator, boundVars>>

-----------------------------------------------------------------------------
\* Get reads the row; if it has expired, it then deletes the key.
StorageGet(g, k) ==
    /\ Resolves(g)
    /\ HasPermission(plug, <<"storage", "read">>)
    /\ k \in ValidKeys
    /\ store[k] # NoValue
    /\ Did("get", plug)
    /\ Step(g, IF Expired(store[k]) THEN [pc |-> "purge", key |-> k, seen |-> store[k].set] ELSE Resting)
    /\ UNCHANGED <<plug, storeVars, slugLock, limitVars, operator, boundVars>>

\* StorageDelete of whatever the key holds by then.
StorageDelete(g) ==
    LET k == guest[g].key IN
    /\ guest[g].pc = "purge"
    /\ store' = [store EXCEPT ![k] = NoValue]
    /\ kept' = IF store[k].set # guest[g].seen THEN [kept EXCEPT ![k] = NoValue] ELSE kept
    /\ Step(g, Resting)
    /\ UNCHANGED <<plug, slugLock, limitVars, operator, hostCalls, boundVars, undeclared>>

StorageSet(g, k, v, ttl) ==
    /\ Resolves(g)
    /\ HasPermission(plug, <<"storage", "readwrite">>)
    /\ k \in ValidKeys
    /\ Step(g, [pc |-> "lock", row |-> plug, key |-> k, value |-> v, ttl |-> ttl])
    /\ UNCHANGED <<plug, storeVars, slugLock, limitVars, operator, boundVars, undeclared>>

StorageAdvisoryLock(g) ==
    /\ guest[g].pc = "lock"
    /\ slugLock = Unlocked
    /\ slugLock' = g
    /\ Step(g, [guest[g] EXCEPT !.pc = "quota"])
    /\ UNCHANGED <<plug, storeVars, limitVars, operator, hostCalls, boundVars, undeclared>>

\* The new value counts with its length, the old one of the key with its size.
CheckQuota(g) ==
    /\ guest[g].pc = "quota"
    /\ IF StorageGetSize + guest[g].value.len > MaxBytes
       THEN Step(g, Resting) /\ slugLock' = Unlocked
       ELSE Step(g, [guest[g] EXCEPT !.pc = "write"]) /\ UNCHANGED slugLock
    /\ UNCHANGED <<plug, storeVars, limitVars, operator, hostCalls, boundVars, undeclared>>

\* The upsert and the commit, which gives the lock back.
WriteValue(g) ==
    LET c == guest[g]
        row == [set |-> hostCalls + 1, value |-> c.value,
                expires |-> IF c.ttl > 0 THEN hostTime + c.ttl ELSE MaxHostTime + 1]
    IN
    /\ c.pc = "write"
    /\ store' = [store EXCEPT ![c.key] = row]
    /\ kept' = [kept EXCEPT ![c.key] = row]
    /\ slugLock' = Unlocked
    /\ Did("set", c.row)
    /\ Step(g, Resting)
    /\ UNCHANGED <<plug, limitVars, operator, hostCalls, boundVars>>

\* A statement fails, or the process dies: the transaction is rolled back.
SetFails(g) ==
    /\ guest[g].pc \in {"lock", "quota", "write"}
    /\ hostFaults < MaxHostFaults
    /\ hostFaults' = hostFaults + 1
    /\ slugLock' = IF slugLock = g THEN Unlocked ELSE slugLock
    /\ Step(g, Resting)
    /\ UNCHANGED <<plug, storeVars, limitVars, operator, hostCalls, hostTime, uploads, undeclared>>

-----------------------------------------------------------------------------
\* HotReload: the limiter goes before the new row is stored.
HotReload(m) ==
    /\ operator = Resting /\ plug.installed
    /\ uploads < MaxUploads
    /\ Installable(m) /\ m.id = plug.manifest.id
    /\ uploads' = uploads + 1
    /\ operator' = [pc |-> "clear", row |-> NewPlugin(m)]
    /\ UNCHANGED <<plug, storeVars, slugLock, limitVars, guest, hostCalls, hostTime, hostFaults, undeclared>>

\* Uninstall disables the plugin, which clears the limiter, and empties the store.
Uninstall ==
    /\ operator = Resting /\ plug.installed
    /\ uploads < MaxUploads
    /\ uploads' = uploads + 1
    /\ operator' = [pc |-> "clear", row |-> NoPlug]
    /\ UNCHANGED <<plug, storeVars, slugLock, limitVars, guest, hostCalls, hostTime, hostFaults, undeclared>>

ClearPluginHTTPLimiter ==
    /\ operator.pc = "clear"
    /\ inForce' = 0
    /\ operator' = [operator EXCEPT !.pc = IF operator.row = NoPlug THEN "empty" ELSE "persist"]
    /\ UNCHANGED <<plug, storeVars, slugLock, limiters, guest, hostCalls, boundVars, undeclared>>

StorageDeleteAll ==
    /\ operator.pc = "empty"
    /\ store' = [k \in StorageKeys |-> NoValue]
    /\ kept' = [k \in StorageKeys |-> NoValue]
    /\ operator' = [operator EXCEPT !.pc = "persist"]
    /\ UNCHANGED <<plug, slugLock, limitVars, guest, hostCalls, boundVars, undeclared>>

PersistPlugin ==
    /\ operator.pc = "persist"
    /\ plug' = operator.row
    /\ operator' = Resting
    /\ UNCHANGED <<storeVars, slugLock, limitVars, guest, hostCalls, boundVars, undeclared>>

Install(m) ==
    /\ operator = Resting /\ ~plug.installed
    /\ uploads < MaxUploads
    /\ Installable(m)
    /\ uploads' = uploads + 1
    /\ plug' = NewPlugin(m)
    /\ UNCHANGED <<storeVars, slugLock, limitVars, guest, operator, hostCalls, hostTime,
                   hostFaults, undeclared>>

HostTick ==
    /\ hostTime < MaxHostTime
    /\ hostTime' = hostTime + 1
    /\ UNCHANGED <<plug, storeVars, slugLock, limitVars, guest, operator, hostCalls, uploads,
                   hostFaults, undeclared>>

HostNext ==
    \/ \E g \in GuestCalls :
         \/ \E u \in Targets : HTTPRequest(g, u)
         \/ getOrCreateHTTPLimiter(g) \/ Allow(g)
         \/ VPNRequest(g)
         \/ \E name \in {<<"subscription", "activated">>, <<"plugin", "ready">>} : EmitEvent(g, name)
         \/ \E k \in StorageKeys :
              StorageGet(g, k) \/ \E v \in StoredValues, ttl \in {0, 1} : StorageSet(g, k, v, ttl)
         \/ StorageDelete(g) \/ StorageAdvisoryLock(g) \/ CheckQuota(g) \/ WriteValue(g) \/ SetFails(g)
    \/ \E m \in Uploads : HotReload(m) \/ Install(m)
    \/ Uninstall \/ ClearPluginHTTPLimiter \/ StorageDeleteAll \/ PersistPlugin
    \/ HostTick

-----------------------------------------------------------------------------
\* plugin_storage_repo.go: "Quota enforcement is atomic".  Whatever is set at the same
\* time, the store outgrows the quota by no more than the database's own overhead.
QuotaKept == StorageGetSize <= MaxBytes + Overhead

\* A value that was set, and has neither expired nor been deleted, is there.  A Get that
\* met the value before it when that had expired may take it away (StorageDelete).
ValuesKept ==
    \A k \in StorageKeys : kept[k] # NoValue /\ ~Expired(kept[k]) => store[k] = kept[k]

\* rate_limiter.go: a limiter admits no more than its limit in any window.
WindowRespected ==
    \A i \in DOMAIN limiters : \A t \in 0 .. MaxHostTime :
        Len(SelectSeq(limiters[i].admitted, LAMBDA a : a > t - HTTPWindow /\ a <= t))
            <= limiters[i].limit

\* lifecycle.go: "Clear stale HTTP rate limiter so the new manifest's limits take effect".
\* They do, unless a call that went by the old row made the limiter anew.
LimitsFollowManifest ==
    inForce # 0 /\ plug.installed /\ operator.pc \notin {"empty", "persist"}
        => \/ limiters[inForce].stale
           \/ limiters[inForce].limit = EffectiveLimits(plug.manifest.limits).http

\* hostfuncs.go: what is done was declared by the manifest the call went by, and an event
\* of a plugin is never taken for one of the platform's domains.
ActsDeclared == undeclared = {}

HostSafe == QuotaKept /\ ValuesKept /\ WindowRespected /\ LimitsFollowManifest /\ ActsDeclared
=============================================================================
