# RemnaCore in TLA+

RemnaCore is a platform that sells and operates VPN subscriptions on top of
Remnawave panels: a modular Go monolith of bounded contexts (identity, billing,
payment, multisub, reseller, settings), a WASM plugin runtime with built-in plugins
(balance, checkout, tariffs, panels, cabinet bot), an HTTP gateway, Telegram bots and
edge services over PostgreSQL, NATS JetStream and Valkey. Several identical pods run at
once (`deploy/helm/remnacore/values-production.yaml` asks for three).

This directory models what of it is hard to test: everything in which several
goroutines, pods, administrators or messages work on the same rows, documents, caches or
remote users in separate steps, and what crashes, failed steps, retries and late answers
leave behind.

```
 checkout, webhook,           outbox --relay--> JetStream --> consumer --> orchestrator --> panel
 scheduler, customer --tx--> OutboxRelay              BillingEventConsumer   MultiSub      VPNProviders
   Payment, Billing          (implements              EntityLocks            SagaRecords   Panels
   InvoiceTotals              OutboxDelivery)
        |
   hooks: PluginHooks, PluginPool, PluginLifecycle, HostFunctions
        |
   built-in plugins: Balance, CheckoutSession, TariffPlans, Pricing

 requests --> Gateway (Identity, AccessControl, RateLimits, Settings) --> the services above
 bots     --> TelegramBots          clients --> SubscriptionProxy, NodeRouting, SpeedTest

 beneath all of them: transactions, the scope of a request and row-level security (TenantStore),
 and the upkeep of the outbox (OutboxUpkeep)
```

All paths below are relative to the repository's `internal/` unless they begin with
`pkg/`, `plugins/` or `deploy/`.

## 1. Inventory

| Component | State | Operations | What is hard | What makes it correct |
|---|---|---|---|---|
| Outbox (`adapter/postgres/outbox_*.go`, `queries/outbox.sql`) | outbox rows: published, relay_attempts, relay_failed, sequence_number, quarter | insert in the domain transaction, fetch per worker with row locks, mark, count attempts, dead-letter, delete | visibility only at commit; many pods and workers | nothing settled undelivered, nothing in two passes |
| Relay (`adapter/nats/outbox_relay.go`, `pkg/circuitbreaker`) | adaptive batch size, breaker per pod | poll, publish, commit, back off, hourly cleanup | publish inside an open transaction, lost acks, breaker cycles, Msg-Id window | at-least-once; every row leaves the polling set |
| Partition manager and auditors (`adapter/postgres/partition_manager.go`, `adapter/nats/sequence_tracker.go`, the relay's `ReconciliationCheck`) | quarterly partitions, last sequence numbers | create ahead, drop expired, compare | check then drop, an advisory lock on a connection that may break | no undelivered or dead row vanishes, partitions are there in time |
| Tenant isolation and repositories (`adapter/postgres`, migrations 040–044, `gateway/middleware/tenant_rls.go`) | rows with their tenants, a setting per connection | `RunInTx`, statements on eight aggregates | statements inside and outside transactions share a pool; aggregates are written in several statements | a shop sees and writes its own rows only, what is read is whole, no locked row is written over unseen |
| Event consumer (`adapter/nats/billing_event_consumer.go`, `billing_event_handlers.go`, `adapter/postgres/idempotency_repo.go`) | JetStream consumer state, idempotency keys, retry counters | acquire key, lock entity, process, release, count, nack, dead-letter, ack, replay | each statement commits on its own; redelivery, timeouts, crashes, fail-open | no event applied twice, none lost, redelivery ends |
| Entity locks (same files) | `sync.Map` of mutexes with `lastUsed` | look up, stamp, lock, evict | eviction between look-up and stamp | mutual exclusion per entity |
| Orchestrator (`domain/multisub`) | binding rows, panel users, saga records | provision, deprovision, disable, enable, reconcile, sync | panel calls between reads and whole-row writes, on several pods and in two background loops | no user behind a deprovisioned row, orphans removed, records claim no more than was done |
| Billing (`domain/billing`) | subscriptions, invoices, families | create, pay, renew, pause, cancel, change plan, scheduler, members, add-ons, pricing | schedulers of all pods against customers; look-ups outside the transaction | one renewal per period, expiry only when due, no double subscription, invoices as offered |
| Payment (`domain/payment`, `gateway/handler/webhook*`) | payments, webhook log | charge, webhook, complete, refund | late, duplicate and early webhooks; a provider call outside the transaction | paid means captured, captured means credited |
| Balance (`builtin/balance`) | ledger, wallet, top-ups | credit, charge, hold, release, expire, adjust, approve | every document access is its own transaction | wallet is the sum of the ledger |
| Checkout plugin (`builtin/checkout`) | sessions, saved methods | create, confirm, cancel, promo, default method | whole documents written back in two tabs | a session names the invoice it opened, one default method |
| Identity (`domain/identity`) | accounts, sessions, tokens, resets | sign in, refresh, reset, verify, set up | token look-ups outside the transaction | sessions follow the password, one first administrator |
| Access control (`domain/identity`: admin, access services) | bindings, custom roles, invitations, a cache per pod | resolve, grant, revoke, invite, accept | cached access on other pods | cache follows the bindings, an administrator remains |
| Plugin runtime (`plugin`) | registry rows, pools, hook registrations, breakers, storage | install, enable, reload, dispatch, compensate, call host functions | reload and drain during calls, failed steps, atomics without a lock | runtime follows the registry, failures are compensated, plugins stay within their manifest |
| Async hooks (`adapter/nats/plugin_events.go`) | messages, attempts in memory | publish, call, ack, dead-letter | the request's context ends first; restarts forget attempts | acked means handled or dead-lettered |
| Tariffs (`builtin/tariff`) | tariff, rule, promo and experiment documents, derived plans | edit, import, sync, quote, assign | plan by plan writes in no transaction | plans follow the tariff, quotes keep the rules |
| Reseller (`domain/reseller`) | tenants, accounts, commissions | record, pay | an unlocked read of the balance | books balance |
| Telegram (`telegram`, `bothost`, `builtin/cabinetbot`) | bot settings, running bots | configure, load, run, handle updates | reload beside writes | one poller per token, owners act on their own |
| Panels (`builtin/remnawave`) | panel documents, geo rules | add, remove, maintain, bulk actions, route | a document read before a remote call | removed panels stay out of use |
| Panel client (`adapter/remnawave`, `adapter/plugin`) | breaker | five operations, built-in or through a plugin | answers lost after the panel acted | success means done |
| Gateway (`gateway`) | per-request scope | middleware chain, routes | roles change between two middlewares | a handler stays within what its caller held |
| Settings (`domain/settings`, `adapter/settings`) | overrides row, configuration per process | validate, merge, save, apply, load | per-process mutex, several processes | no acknowledged change is lost |
| Edge (`infra/proxy`, `adapter/valkey`, `infra/health`, `infra/routing`, `infra/speedtest`) | two caches, flights, windows, node cache, slots | fetch, limit, poll, select, measure | shared flights, stale stores, skewed clocks | fresh own config, limit kept, best node, slots given back |
| Infrastructure (clean-up jobs), web, command line, deployment | — | single statements, I/O, packaging | little of their own | — |

Interactions. Services call each other in process through ports; everything that
crosses a bounded context asynchronously goes through the outbox. The relay publishes
with the row's id as `Nats-Msg-Id`; the consumer uses the same id as idempotency key.
Pods share the database, the streams and the durable consumers, and nothing else:
breakers, entity locks, access caches, settings, plugin pools, hook registrations and
timers are local to a pod. The reconciler and the sync service are tickers in every pod and meet the handlers only in
the binding rows and on the panel. Hooks run inside the operations that dispatch them.

The hazards, each at its line and with the properties that cover it, are in
`PROJECT.json`.

## 2. Plan

Done, in the order of what other parts rest on:

1. **Outbox and relay**: model, abstract specification, refinement; every state property
   of it proved.
2. **Consumer, idempotency, dead letters, entity locks**: model, every safety property
   proved.
3. **Orchestrator and saga records**: models; the safety properties of both proved.
4. **Billing and payment**: `Payment` extends `Billing`, and every step of it is a step
   of `Billing`, which is proved, and so are the safety properties of both; families
   (proved) and invoice arithmetic as modules of their own.
5. **Built-in balance and checkout, identity, access control**: models, all proved.
6. **Plugin runtime**: pool, breaker, async hooks, chains and lifecycle (proved), host
   functions.
7. **Tariffs, reseller, bots, gateway, settings** (proved), **pricing, experiments, panels,
   panel client, proxy, rate limits, routing, speed test**.
8. **What lies beneath the services**: transactions, scopes, row-level security and the
   repositories, partitions and the auditors of the outbox (proved).

Next:

1. Proofs about the parts of `EdgeSafe` that need no recursion: the waiters of the proxy,
   the transitions of nodes, the slots of the speed test, the panel client.
2. Composition: billing's status changes as the events of `MultiSub`, delivered with the
   guarantees of `BillingEventConsumer` in place of the event set used now.
3. The rest of the partly modelled components: cohorts of experiments, the repositories of
   sessions, settings and plugins in `TenantStore`.

## 3. Modules

### OutboxRelay

One database of outbox rows, `Pods` × `WorkerCount` relay goroutines, one breaker per
pod, one stream.

| TLA+ | Code |
|---|---|
| `status`, `seq`, `born`, `attempts` | columns of the outbox row; a row is `inserting` until its domain transaction commits; `gone` is deleted or dropped |
| `todo`, `ok`, `failed` | the fetched batch, `publishedIDs`, `failedEvents` of an open pass |
| `fresh`, `size` | the catch-up pass of a starting worker; `currentBatchSize` |
| `breaker` | gobreaker's state and counts (external, from how `pkg/circuitbreaker` configures it) |
| `stream`, `window` | what JetStream stored, in order, and the Msg-Ids it still deduplicates (external) |
| `PublishBatch`, `CommitDomainTx`, `RollbackDomainTx` | outbox insert and the end of the surrounding `RunInTx` |
| `Poll`, `PollNothing` | `GetUnpublishedForWorker`: oldest eligible rows, hash filter, `FOR UPDATE SKIP LOCKED` |
| `Admit`, `Refuse`, `PublishRaw`, `PublishRawError` | one iteration of the publish loop; an error may come with or without the message stored |
| `Commit`, `Rollback`, `EndPass` | attempts, dead-lettering and marking in one transaction, then the new batch size |
| `Crash`, `BreakerTimeout`, `DedupExpire`, `NextQuarter` | environment |
| `DeleteOld`, `DropPartition` | hourly cleanup; drop of an expired partition after `hasUnpublished` and `isSafeToDrop` |

A pass writes nothing before its commit, so its results live in its own variables, and
`Rollback` and `Crash` only forget them. The sequence number is drawn at insert and not
at commit, as in the database, so a later number can become visible first.

### OutboxDelivery

What users of the outbox may rely on: an event is recorded, delivered any number of
times while pending, and settled as done only after a delivery, or given up explicitly.
The refinement mapping takes a row's status to its phase and the stream to the set of
delivered events (`ImplementsDelivery`).

### BillingEventConsumer

`handleMessage` as its sequence of separately committed steps, on one goroutine per pod
and subject: `Deliver`, `TryAcquire` (or `FailOpen`, `SkipDuplicate`), `LockEntity`,
`ProcessOk`/`ProcessError`, `Release`, `IncrementRetry`, `BackoffNack` or `SendToDLQ`,
`AckMessage`, with an error branch wherever the code has one. `Timeout` expires the
goroutine's context, after which its database calls fail and its acks do not. `Crash`
kills a pod, `AckWait` is JetStream's redelivery, `RelayDuplicate` and `Replay` put the
event on the stream again, `ReplayDryRun` is a dry run, which acks the letters it
lists. Handlers are abstracted to success or failure; `applied` counts successes.

### EntityLocks

`getEntityLock` and `evictStaleLocks` for one entity, in the atomic steps of `sync.Map`
and of the atomic `lastUsed`. The consumer's model takes the locks for ideal mutexes;
this module shows where they are not.

### MultiSub

One subscription, its binding rows and its panel users. Per pod (`Instances`) a handler goroutine
(events of one subscription share an entity lock), a reconciler and a sync loop. Every
database statement and every panel call is a step; `mem` is the goroutine's copy of the
aggregate and `Update` writes it back whole, as `UpdateBinding` does, with no version
check.

| TLA+ | Code |
|---|---|
| `bindingTransitions`, `transitionTo` | `aggregate/binding.go` |
| `CheckExisting` … `CompensateDeleteUser` | `OnSubscriptionActivated`, `ProvisioningSaga.Provision`, `compensateDeleteUser` |
| `CheckActive`, `ReadPending`, `ReadTargets` | `OnSubscriptionCancelled`, `cancelPendingBindings`, `Deprovision`, `DisableAllForSubscription`, `EnableAllForSubscription` |
| `GatewayOk`, `GatewayError`, `Write` | the panel call and the write of each loop: `deprovisionOne`, `handleGatewayFailure`, `persistAndPublish`, phases 2 and 3 of `reconcile` |
| `ResetAbandoned`, `Claim`, `Abandon`, `Outlive` | the reconciler; a claim passes `AbandonedClaimThreshold` because its reconciler died or is slow |
| `ListForSync`, `GetByID`, `GetUser` | `syncAll`, `SyncBinding`, `reconcileStatus` |
| `Cancel`, `Pause`, `Resume`, `TrafficExceeded`, `TrafficReset` | billing and the panel (external) |

`visible`, drawn from `Visibility` at the start, says what row-level security shows a
session without a scope. The role that `boot_assert` demands makes it false. The handlers
of cancelled, paused and resumed events open a platform scope; the activation hands the
orchestrator the plain context (`billing_event_handlers.go:435`), and the sync service and
the reconciler start from `context.Background()` (`wiring_multisub.go:137`, `:161`). Where
`visible` is false `CheckExisting` and `GuardSubscription` read nothing, so the activation
fails on every delivery until its letter is dead (`GuardMissingAcked` is the mutant that
acks it), `CreateRow` and `ListForSync` are never reached, and `ResetAbandoned` and `Claim`
find nothing to do. Rows exist there because they were provisioned before the policies
came: `Init` starts an upgraded deployment with them. Where `visible` is true everything
runs, and `Init` has no rows.

`overlap` records the bindings that a goroutine wrote while another held a copy of
them, `upset` those that met a lost answer, a crash or an exhausted compensation; the
properties say what holds outside them and what holds in spite of them.

Two consequences of the wiring are kept: the webhook publishes the panel's payload
without a binding id (`app/wiring_nats.go`), so the traffic handlers always fail and
`LimitBinding`/`UnlimitBinding` are unreachable; and a user the panel limits is reported
as expired by the gateway adapter, so sync disables its binding, after which sync no
longer lists it.

`SagaRecords` adds the records the sagas keep of themselves, which no step of `MultiSub`
reads: creation under the unique index, checkpoints, completion, the start-up job that
marks records in progress as failed (those of other pods included) and the retention job.

### Billing, Payment, FamilyGroups, InvoiceTotals

A billing operation is one transaction on a row read `FOR UPDATE`, hence one step; an
operation that fails leaves nothing and is no step. Two things are not atomic and are
split: `CreateSubscription` looks for other subscriptions without a lock
(`CheckEligibility`), and the scheduler lists the due rows (`ProcessDueSubscriptions`) before it
renews or expires them (`RenewSubscription`, `RenewFails`, `ExpireSubscription`), on
every pod. The scheduler's context has no scope (`wiring_billing.go:181`), so the list is
empty unless `RowsVisible`, the constant that says whether a session without a tenant
scope sees and writes rows, which row-level security decides (`TenantStore`). The exclusion constraint of migration 011 is `NoOverlap`; `UpdateSubscription`
writes the columns the SQL statement writes, and no others.

`Payment` extends `Billing` with the charge of the first invoice: the checkout goroutine
(`CreateCharge`, `CreatePayment`), the provider (external: `Capture`, `Decline`,
`Webhook`), the webhook handler in its steps (`CheckIdempotency`, `CompletePayment`,
`MarkWebhook`, and `HookCrash` between any two), `HandleChargeCompleted` and refunds.
The insert of `CreatePayment` is outside any transaction and refused unless `RowsVisible`.
The accidents that keep a captured charge from being credited are named in the module (`reasons`: the charge could not be recorded, its
webhook came before the record, an earlier decline took the webhook's id, a handler
died); `CapturedIsCredited` shows that there are no others.

`FamilyGroups` is the transaction of `FamilyService` with the row that may not exist to
be locked and the unique index that decides; `InvoiceTotals` is the arithmetic of an
invoice (line items, discounts in basis points, overrides, hooks, pricing plugin), as
operators over small integers with the code's rounding.

### Balance, CheckoutSession

The built-in plugins keep documents; each access is a transaction of its own. An
operation is a record with a program counter (`Begin`, then read, check and write
steps), so any two overlap anywhere. History variables note which operations
overlapped: the properties hold for the rest and say what still holds for those.

### Identity, AccessControl, Gateway

`Identity` has one customer with an e-mail and a Telegram account: tokens and sessions
are looked up outside the transaction that uses them, the account row is read for update
and written back whole. `AccessControl` has the bindings, invitations and a cache per
pod; a request resolves its actor in two reads, runs its transaction and invalidates its
own pod. `Gateway` is the chain of middlewares in the order of `NewRouter`, each of which
resolves access anew while roles change, and a table of routes with the permission each
demands and what its handler reaches.

### PluginPool, PluginLifecycle, PluginHooks, HostFunctions

`PluginPool` follows `Acquire`, `Release`, `Drain` and the background fill of one pool
access by access: the flag, the channel, the counter and the signal are separate. A
receive from the closed channel yields no runner; sending on it is a panic.
`PluginLifecycle` has one plugin in one pod: the registry row all pods share, and the pod's
own pool and hook registrations. An operation changes them one after the other with each
step able to fail, beside a flow that pinned a pool; an operation another pod serves
(`OtherPodWrites`) changes the row and nothing here, since no pod consumes
`plugin.enabled`, `plugin.disabled` or `plugin.hot_reloaded` (`event_catalog.go:477-500`).
`apart` says that this has happened and that the pod has not caught up since, which it
does by a restart, a disable, an update or a completed reload of its own. `Restart` follows
`LoadEnabled` and the recovery of plugins in error, with every write of a status able to
fail: a plugin that does not load and stays enabled in the row, and a plugin loaded and
hooked whose row still says error. `PluginHooks` has three parts: the breaker's atomics, read and written one
by one by any number of goroutines; a synchronous chain with `DispatchSyncSafe`'s
compensation while plugins are switched; and the asynchronous path through the outbox and
`PluginAsyncConsumer`. `HostFunctions` is what a plugin may do: the manifest's
validation, permissions, HTTP target checks, the limiter and the key-value store with
its quota, while an administrator reloads the plugin.

### TariffPlans, Pricing, Reseller

`TariffPlans`: handlers write the tariff document and then the derived plans one by one,
errors only logged (`SyncFails`). `Pricing`: the stages of the pipeline in the code's order
over the rules and codes stored at the moment of the quote; and the experiments on prices,
which are read, checked and written as whole documents, with an assignment that is a
function of the user's bucket. `Reseller`: the balance is read without the lock the
commission has; amounts are bounded by `MaxInt` in place of 2^63 - 1, with the wrap-around
of the code's multiplication.

### TelegramBots, Panels, VPNProviders

`TelegramBots`: the upsert of a shop's bot with its partial unique index, and the manager
that loads bots at start and runs a loop each; and an update, which goes to the platform's
bot, the cabinet bot or a WASM bot, which act through `bothost` with their permissions.
`Panels`: a handler reads the panel's document and calls the panel later; removals and
maintenance write the document back whole. `VPNProviders`: the five operations through the
client or through the plugin-backed provider, each behind its breaker, with answers that
are lost after the panel acted.

### Settings, SubscriptionProxy, RateLimits, NodeRouting, SpeedTest

`Settings`: read, merge, save and apply under the mutex of a process; other processes
have their own. `SubscriptionProxy`: memory, Valkey and Remnawave with single flight and a
breaker, on a clock. `RateLimits`: the Lua script on the caller's clock, which differs
from that of other processes. `NodeRouting`: a poll replaces the cache and publishes
node by node; `SelectNode` is the router's score in hundredths. `SpeedTest`: the limiter
of each address, a slot, a body sent or read chunk by chunk while the slot is held, and a
shutdown that does not wait for ever.

### OutboxUpkeep

The partition manager of every pod: the session lock on a connection of its own, which may
break (the lock then goes to the next), the ensure pass quarter by quarter, the cleanup pass
with its checks, `DETACH` and `DROP`; quarters whose events fell into the default partition
cannot be created. Beside it the two auditors that only watch: the consumer's sequence
tracker with its time to live, and the relay's comparison of every stream's last sequence.

### TenantStore

What every repository works through. A request has a scope (a shop, the platform, or
none) in its context; it opens transactions on a pool of connections, one of which it then
has to itself, and its statements run there, or on any free connection when it has no
transaction.

| TLA+ | Code |
|---|---|
| `BeginTx`, `CommitTx`, `RollbackTx`, `EndTx` | `TxManager.RunInTx` with `set_config('app.tenant_id', ..., true)` |
| `OnConn` | `DBFromContext`: the transaction of the context or the pool |
| `SeesRow`, `Passes`, `Stamp` | the policies of migrations 040, 042, 043 and 044 (`USING`, `WITH CHECK`) and the columns' defaults |
| `InsertRow`, `InsertItem`, `UpdateRow`, `UpsertItem`, `DeleteRemovedItems` | the writing methods, one step per statement |
| `SelectRow`, `SelectRows`, `SelectForUpdate`, `SelectSkipLocked`, `LoadItems`, `BatchLoadItems` | the reading methods, with the locks they take and the second statement for the items |
| `rows`, `draft`, `holder`, `setting` | what is committed, what a transaction sees of the rows it holds, who holds them, the setting of each connection |

The statements of each repository are named at the end (`SubscriptionStatements` to
`UserStatements`). `meant` and `by` in a row, and `overwrote`, are history. Tables stand in
three groups: those whose tenant is stamped from the setting, users, who are given
theirs, and plans, which belong to nobody and are written outside transactions.

### MC modules

`MCBillingEventConsumer`, `MCMultiSub`, `MCBilling` and `MCPayment` give one component its
constants; `MCOutboxRelay` the relay, the store and the gateway, of which a behaviour moves
one (`part` is the relay, a table of the store or the gateway). `MCServices` instantiates the services that share no
state side by side: the variable `focus` names the one component a behaviour moves, so
their state spaces add up. `SuiteView` is `focus` with the variables of that component:
the others keep their initial values, so no two different states share a view.

## 4. Runs

| Run | Instance | Shows |
|---|---|---|
| `outbox_relay` | 2 pods, 2 workers each, 2 events of one entity, batch 1–2, 2 attempts, breaker of 2 failures and 1 probe, a rollback or crash; 2 requests of any scope on 2 connections, 2 shops, a row of each of 8 tables with up to 2 items, an error; every route, 2 shops, 1 caller, 1 change of roles | rows settle only after delivery, no row in two passes, no entity in two passes of a pod, refinement of `OutboxDelivery`; `StoreSafe`: rows and items of a shop stay with it, invoices are read whole, addons stay, no update of a locked row is lost; `RequestsInBounds`: a handler stays within what its caller held |
| `outbox_live` | 1 worker, 2 events, 3 quarters with retention, a rollback or crash, fairness | cleanup and drops remove nothing undelivered and no dead row; every committed row is published or dead-lettered, even if NATS never answers |
| `outbox_order` | violated | `PerEntityOrdering`: the loop continues after a failure, later events of the entity overtake |
| `billing_consumer` | 2 pods, 1 event, one of every fault, fairness | at most one successful run, never two at a time, nothing lost without a fault, redelivery ends |
| `consumer_timeout` | violated | `NoSilentLoss`: after `messageTimeout` the key cannot be released and the redelivery counts as duplicate |
| `multisub` | 2 pods × 3 goroutines, 1 binding per activation, both values of `visible`, each kind of fault or trigger once and three in all | a deprovisioned row has no user; single-writer rows lose no user; an activation is acked only for bindings that have users |
| `multisub_activation` | violated | `ActivationProvisions`: where the row policies hold, the activation reads no row, fails on every delivery and is dead-lettered; with `Visibility = {TRUE}` it holds |
| `multisub_cancel` | violated | `CancelledMeansDeprovisioned`: in a deployment that boots, with rows from before the policies, bindings disabled by a pause are skipped |
| `payment` | 1 checkout, 3 webhooks, 1 refund, 1 crash, 3 units of time, fairness | paid means captured, captured means credited but for named accidents, refinement of `Billing`; `RowsVisible = TRUE`, and with `FALSE` the same holds of charges that are all unrecorded |
| `scheduler_unscoped` | violated | `DueIsSettled`: where the row policies hold, two pods' schedulers run with every tick, list nothing and settle no due subscription; with `RowsVisible = TRUE` it holds |
| `upgrade_lost` | violated | `InvoicedPlanIsGranted`: the UPDATE does not write `plan_id` |
| `services` | 32 foci, below | the invariants of the other components |

The foci of `services`, with the property that holds their invariants (`EventsSafe`,
`OffersSafe` and `EdgeSafe` gather those of several components, looked at only in their
own focus, and `TelegramSafe` and `OutboxKept` those of the two parts of one module; each
is stated with its own comment in its module):

| Focus | Bounds | Property |
|---|---|---|
| billing | 2 checkouts of a user over 2 plans, 2 pods, 3 units of time, a failing renewal, a plan change | `SubscriptionsSafe` |
| family | requests of an owner and members with an edit of the plan | `OffersSafe` |
| invoice | 4 calls on one subscription with 2 add-ons, discounts that do not divide, hook answers | `OffersSafe` |
| locks | 2 goroutines, evictor, 3 lock objects | `SerialUnlessEvicted` |
| two events, malformed | 2 events on one entity lock, one possibly malformed | `EventsSafe` |
| sagas | 2 processes, 2 runs of 2 steps, a lost write, a crash | `EventsSafe` |
| balance | 2 goroutines, 3 calls, an adjustment, a top-up | `WalletMatchesLedger` |
| checkout | 2 sessions, 2 methods, 2 tabs, 3 requests | `CheckoutConsistent` |
| identity | 2 clients, 4 calls | `AccountsSafe`, `WritesKept` |
| access | 2 members of staff and a guest, 3 handlers in 2 pods | `AccessSafe` |
| pool | 3 calls, 2 runners, 1 mishap | `QuietDrain` |
| plugin | one pod, 2 administrators, 2 operations here or on another pod, 2 failures or restarts, a pinned flow | `PluginsSafe` |
| host | 2 calls of one plugin with a reload or uninstall, 2 valid keys, a fault | `EventsSafe` |
| breaker | 3 goroutines, any number of calls | `HalfOpenHasTester` |
| chain | 3 plugins, 2 with compensation, 2 switches | `FailureIsCompensated` |
| async | 2 plugins, 3 attempts, 2 faults | `AsyncHookSettled` |
| tariff | 2 tariffs, 2 administrators, 2 edits, a failing write | `PlansFollowTariff` |
| pricing | lists of rules and codes, 3 prices, 2 countries, 2 durations | `OffersSafe` |
| experiment | 2 administrators, 3 calls, users of every bucket | `OffersSafe` |
| reseller | 2 sales, 2 clerks, three rates of which one overflows `MaxInt` | `BooksBalance` |
| shop bots | 2 shops, 2 tokens, 2 writes, a reload | `TelegramSafe` |
| bot updates | 2 shops, 3 kinds of bot, 2 updates, 1 change from outside | `TelegramSafe` |
| panels | 2 panels, 3 requests in 2 goroutines, 2 geo rules | `EdgeSafe` |
| providers | 1 user, 2 calls, 2 faults, a switch of the plugin | `EdgeSafe` |
| settings | 2 processes, 2 administrators, five fields of different sections, 2 updates, a failure or restart | `EdgeSafe` |
| proxy | 2 subscriptions, 2 goroutines, 3 requests, a memory of one entry, a clock of 4 with both times to live of 1, a fault | `EdgeSafe` |
| limits | 2 processes whose clocks differ by one, 4 requests over two windows, a fault | `EdgeSafe` |
| router | 2 nodes at three loads, 2 polls, a failed publish, requests of two purposes, one bound to a node | `EdgeSafe` |
| speed | 2 connections of 1 address, 1 slot, 4 requests about every cap, a restart | `EdgeSafe` |
| upkeep | 2 pods, 2 passes each, 3 quarters, a failure or broken connection | `OutboxKept` |
| audit | 1 entity, 1 stream, 2 sequence numbers, 4 units of time | `OutboxKept` |

`NoSilentLoss` is violated in the same way by a crash between `TryAcquire` and the end
of the handler (the key survives the pod), by a delivery that outlives the ack wait
(its copy is acked as duplicate and the first run then fails), and by a replay within
the Msg-Id window (JetStream drops the copy, the letter is acked); setting
`MaxCrashes`, `MaxLateAcks` or `MaxReplays` to 1 in `BillingEventConsumerTimeout.cfg` in
place of `MaxTimeouts` (with a second pod for the late ack) shows each.
`UndisturbedNotLost` says that nothing else loses an event.

**Bounds.** Faults and triggers are budgets: each kind happens at most the number of
times the configuration gives it, at any moment and in any order. One fault of each
kind reaches every error branch, because branches are taken per row, message or step
and faults of different kinds combine; `multisub` lets any three of its eight kinds
combine (`MaxEvents`). Two goroutines or pods suffice for races: every
conflict in this code is between an actor that holds a copy, a key or a lock and one
other; pools, breakers and access caches get a third. Two attempts, two retries and a
breaker of two failures pass through "some", "limit reached" and "beyond". Interchangeable
goroutines, pods, sessions and tariffs are symmetry sets in the safety runs
(`PodSymmetry`, `SuiteSymmetry`); liveness runs use none. Deadlock is not checked: when
the budgets are spent and every event is settled these systems do stop.

**Fairness.** Relay: a due timer fires, a call returns, with or without error, and an
open transaction ends. Nothing is assumed of NATS: it may refuse for ever, and rolled
back passes are bounded only by the fault budget. Consumer: goroutines run, JetStream
redelivers unacked messages, and a waiter on a Go mutex eventually gets it
(starvation mode), hence strong fairness on the lock alone. Orchestrator: goroutines
and tickers run, and a claim nobody works on grows old; no fairness is assumed of the
panel's success, of billing or of sync passes, and `multisub_activation` needs none: no
fault, only the consumer's redelivery of the event. Scheduler: a pod's ticker fires and
its pass goes on. Payment: the
provider sends a webhook for a captured charge (that it repeats one after a failed
answer is bounded by `Hooks`), handlers run, and `charge_completed` is
delivered, which `EverySettled` and `EventuallySettled` show of the outbox and the
consumer.

## 5. Proofs

Each theorem holds for every value of the constants its assumption admits: any number of
pods, goroutines, events, users or plugins and any budget of faults. The assumptions say
that limits and counts are naturals, positive where the code divides or waits by them,
that value sets do not contain the marks for "none", and, where cardinalities or sums are
taken, that the sets of goroutines, bindings, staff, accounts or sales are finite. TLC
evaluates them in the runs. A few theorems name what they need of a constant themselves:
that the mark of a free lock is no goroutine (`SettingsAreKept`, `FamiliesAreKept`), that
the platform's bot is no shop (`TelegramStaysSafe`), that no shop is called `""` or `"*"`
(`RequestsKeepBounds`), and that the tracker's limits are naturals (`OutboxStaysKept`). Most
state properties are not inductive; the invariants that are were checked by TLC on the
instances of section 4 before they were proved.

### OutboxRelayProofs

| Theorem | Statement |
|---|---|
| `TypeCorrect` | `Spec => []TypeOK` |
| `AtLeastOnce` | `Spec => []SettledWasDelivered` |
| `ExclusiveBatches` | `Spec => []BatchIsCurrent` |
| `EntitiesArePartitioned` | `Spec => []OneWorkerPerEntity` |
| `DeadRowsStay` | `Spec => DeadRowsKept` |
| `RelayImplementsDelivery` | `Spec => ImplementsDelivery` |
| `SagasAreSafe` | `SagaSpec => []SagasSafe` |
| `RequestsKeepBounds` | `GateSpec => []RequestsInBounds` |

A row becomes published when a pass commits its `ok` rows, so `SettledWasDelivered` needs
to know that an acknowledged row is on the stream (`AckedRowsStored`); an acknowledged
publish may have been absorbed by the Msg-Id window, so that needs `window` to be a subset
of what was delivered; and a pass commits rows that are still unpublished only because no
other pass has touched them, which is `BatchIsCurrent`, whose own step needs that a worker
inside a call has a row to call for (`CallHasRow`, part of the type invariant). `RelayInv`
is the conjunction; `RelayInvariant` proves it inductive with one step per action.
`OneWorkerPerEntity` rests on what the query filters by: a worker's batch holds only rows
whose hash has its number as remainder, and an entity has one hash. The refinement maps a
publish to `Deliver`, a commit to `Settle` of the pass's successes and dead rows, the end
of a domain transaction to `Record`, and every other step to a stutter.

The module also holds the proofs about `SagaRecords` and `Gateway`. A saga's row says no
more than the run it belongs to has done, and the unique index gives a record to one run;
a start-up that marks rows of live runs as failed only sets the mark that excepts them. A
request of the gateway carries every role its caller has had since it came, and access
grows with roles, so what a middleware found out from the roles of its moment holds of all
of them; the scope the chain ends with is one it was let into.

### TenantStoreProofs

| Theorem | Statement |
|---|---|
| `StoreInvariant` | `StoreSpec => []StoreInv` |
| `StoreIsSafe` | `StoreSpec => []StoreSafe` |
| `BooksAreBalanced` | `ResellerSpec => []BooksBalance` |

What a request holds in its hands was read under an earlier state, on a connection that
others use before and after it, so `StoreSafe` says nothing about the next step by itself.
`StoreInv` adds to the types:

* `ConnsApart`: a transaction has its connection to itself, the setting there is the scope
  of its request, and a connection nobody has carries no setting;
* `RowsSound`: of each committed row and of each version in a transaction, who may have
  written it, that an invoice has its items but for those its creator is still to insert,
  that addons stay, and that a version follows the committed row (table and tenant are for
  ever, only a user who has no tenant may get one);
* `ReadsSound`: what was read belongs to the reader's scope, what is there now follows it,
  and items yet to be loaded are loaded in the same transaction;
* `OpsSound`: a method that has more statements to go works on a row that it holds, or on a
  plan;
* `LocksSound`: a row that was read for update is held, and has the value that was read.

Each kind of statement has a lemma that it keeps the invariant (`PutKeeps`, `LockKeeps`,
`FetchKeeps` and the like); `RequestStep` reduces the statements of the eight repositories
to these. `ReadIsVisible` shows on the way that an update always finds the row it read:
`UpdateRow`'s branch for a row that is not to be seen is never taken.

`BooksBalance` compares a reseller's balance with a sum over its commissions. While no two
recordings of the account overlap, the balance a clerk has read is still the sum of the
committed rows, so balance and sum grow together; an overlap can only overwrite a
larger balance by a smaller one, so the balance is never above the sum. Lemmas on sums
over finite sets (an element more, a subset of non-negative amounts) carry the arithmetic.

### BillingEventConsumerProofs

| Theorem | Statement |
|---|---|
| `ConsumerTypeCorrect` | `Spec => []TypeOK` |
| `AtMostOnce` | `Spec => []AppliedAtMostOnce` |
| `ExclusiveHandlers` | `Spec => []OneHandlerPerEvent` |
| `UndisturbedEventsSurvive` | `Spec => []UndisturbedNotLost` |
| `UpkeepIsSafe`, `AuditIsSafe` | `UpkeepSpec => []UpkeepSafe`, `AuditSpec => []AuditSafe` |
| `OutboxStaysKept` | `UpkeepSpec /\ AuditSpec => []OutboxKept` |

That a handler has not succeeded yet when it runs again says nothing by itself: the
argument is that the key in the database stands for a claim. `KeyInv` says of every event
whose check never failed open that at most one goroutine is between `TryAcquire` and
`Release` or success (`OneClaim`), that the key exists as long as there is one and no
success has happened (`ClaimHasKey`), and that after the one success the key stays
(`SuccessHasKey`). Only three actions touch the claim, the key or the count; the others
follow from one frame lemma (`KeyFrame`). A crash or a failing `Release` leaves the key
without a claim, which keeps the invariant and is exactly how an event gets lost
(`consumer_timeout`): the protocol errs on the side of at most once.

`UndisturbedNotLost` is the other half. For an event no fault has touched, `Kept` says
that it is with one goroutine and its message is out (`OneDelivery`), that a key without a
success has a goroutine that claims it (`KeyIsUsed`, so "duplicate" is the truth), and
that it is acked only behind a success or a stored letter (`AckIsSafe`). A fault of
another event, in the same pod or on the same lock, disturbs none of the three.

For `OutboxUpkeep` the invariant says what a partition manager has found out and relies
on: a pass whose connection is held has the session lock, and only such a one; the
quarters an ensure pass has gone through since it began are attached; the candidates
of a cleanup pass have ended, and time does not go back; a detached quarter has nothing
pending, since events are stored only in the current quarter. None of these is disturbed
by a second pod that works beside one whose session the server has ended. For the auditors
an entry of the tracker is the last delivery, and since the check that set its baseline
a stream has grown by what it stored, or was created anew.

### BillingProofs, PaymentProofs

| Theorem | Statement |
|---|---|
| `BillingInvariant` | `BillingSpec => []BillingInv` |
| `SubscriptionSafety` | `BillingSpec => []SubscriptionsSafe` |
| `PaymentImplementsBilling` | `PaymentSpec => BillingSpec` |
| `PaidSubscriptionSafety` | `PaymentSpec => []SubscriptionsSafe` |
| `PaymentInvariant` | `PaymentSpec => []PaymentInv` |
| `PaymentsAreBacked` | `PaymentSpec => []PaidWasCaptured` |
| `DuplicatesAreHandled` | `PaymentSpec => []DuplicateWasHandled` |
| `TariffPlansFollow` | `TariffSpec => []PlansFollowTariff` |

A renewal moves a period on by its own length, so one renewal per period needs that a
period ends its length after its start and has begun (`PeriodsBegun`) and that the renewal
invoices are dated in order up to the current period (`RenewalsDated`). A scheduler works
on a list it has read before: what is on the list was due, or somebody wrote it since
(`ListedAreDue`), and it marks as failed only what has an excuse. `NoDoubleSubscription` is
inductive with these: every write that makes or moves a live row checks the exclusion
constraint on the period it writes.

A step of the payment protocol is a call of one of `Billing`'s operations, or it leaves the
billing variables alone; this is proved action by action, so the whole of `BillingInv`
holds of `Payment`. `PaymentInv` adds that success is reported, published or credited only
behind a captured charge (`SuccessIsCaptured`, `FirstPaidWasCaptured`), that a refund was
paid before it is recorded, and that a logged webhook is dealt with (`LoggedIsHandled`):
the handler that logged it is before its `CompletePayment`, has completed the payment, or
has left one of the named reasons.

The plans of a tariff are written one by one from a copy of its document. As long as an
editor has been alone with a tariff, its copy is the document, the plans it has gone
through are as the copy says, and those it has yet to deactivate are on its list; when it
ends, nothing is left to write. Whoever comes in between puts the tariff into `drift`.

### MultiSubProofs

| Theorem | Statement |
|---|---|
| `MultiSubInvariant` | `Spec => []MultiSubInv` |
| `DeprovisionedUsersAreGone` | `Spec => []DeprovisionedIsGone` |
| `UsersAreTracked` | `Spec => []TrackedUsers` |
| `AckedActivationsProvisioned` | `Spec => []ActivatedMeansProvisioned` |
| `FamiliesAreKept` | `FamilySpec => []FamiliesKept` |

Goroutines write whole rows from copies they may have read long ago, so an invariant about
rows is one about copies. `CopiesGone`: a copy that says deprovisioned is of a binding
whose user is gone, whenever it is written. For that, a user must not be created behind
such a copy: `UsersUnborn` says that until `CreateUser` nobody else's copy of the binding
leads to a call of the panel. `UsersKnown` and `CopiesKnow` do the same for
`TrackedUsers`: a user is known to its row or to the goroutine creating it, and a copy that
would take it from the row belongs to a binding with two writers. `ThreadsAtWork` ties the
label of a goroutine to its event and its bindings.

`ActivatedMeansProvisioned` is about runs without refused calls, failing writes and
crashes; as budgets only shrink, such a run has been calm all along. In a calm run
rows keep the users they have (`Steady`) and the one goroutine with the activation has
provisioned as many bindings as it counted (`Progress`, over a cardinality). It says that an
activation is not acked for nothing, in deployments with and without binding policies and
for every number of bindings a plan calls for (the run has one); where the policies hold it
rests on the guard's failing look-up, which leaves the activation unacked. That an
activation is acked at all is not claimed: `multisub_activation` shows that where the
policies hold it never is.

`FamiliesKept` holds because whoever has the row's lock has read the row as it is, and
because a group can be created only where there is none: what a request adds, it adds to
the members there are, after it counted them.

### IdentityProofs

| Theorem | Statement |
|---|---|
| `IdentityInvariant` | `IdentitySpec => []IdentityInv` |
| `AccountsAreSafe` | `IdentitySpec => []AccountsSafe` |
| `AccountWritesKept` | `IdentitySpec => WritesKept` |
| `AccessIsSafe` | `AccessSpec => []AccessSafe` |
| `SettingsAreKept` | `SettingsSpec => []SettingsKept` |

Calls that write the account read it under its row lock: who is before the write holds the
lock and a copy that is still current (`AccountInv`), which gives `WritesKept`. Sign-ins do
not lock. A session belongs to the sign-in it descends from; unless that sign-in is
crossed (it overlapped a reset or another refresh), at most one call is about it
(`CallsApart`), the call that opens it finds no session and the password it read
(`OpenedOnce`), and the call that replaces its session finds no other (`RotatesAlone`).

In `AccessControl` a resolution reads bindings and permissions one after the other: what
it holds is what they are, or a change has met it and it is marked as behind. A revocation
that goes on has counted two administrators, both of whom are still there unless another
revocation ran meanwhile. An invitation that a call has found is still open unless another
call has taken it up too.

In `Settings` whoever is past the mutex of its process holds it. So between its read and
its save nobody of its own process saves: either the row is the one it read, and its merge
is laid over the last one, or another process has saved, which the save records
(`savesCrossed`). A process that has applied or loaded the last save runs with the row,
since every other save has a higher number.

### ServicesProofs

| Theorem | Statement |
|---|---|
| `BreakerTypeCorrect` | `BreakerSpec => []BreakerTypeOK` |
| `HalfOpenIsTested` | `BreakerSpec => []HalfOpenHasTester` |
| `EventsAreSerial` | `LockSpec => []SerialUnlessEvicted` |
| `AsyncHooksAreSettled` | `AsyncSpec => []AsyncHookSettled` |
| `CheckoutIsConsistent` | `CheckoutSpec => []CheckoutConsistent` |
| `DrainsAreQuiet` | `PoolSpec => []QuietDrain` |
| `ChainsAreCompensated` | `ChainSpec => []FailureIsCompensated` |
| `PluginsStaySafe` | `LifecycleSpec => []PluginsSafe` |
| `WalletFollowsLedger` | `BalanceSpec => []WalletMatchesLedger` |
| `BotsStaySafe`, `OwnersAlwaysAct` | `ShopBotSpec => []BotsSafe`, `BotUpdateSpec => []OwnersAct` |
| `TelegramStaysSafe` | `ShopBotSpec /\ BotUpdateSpec => []TelegramSafe` |

A half-open breaker is left only by a call that ends, so a half-open breaker without one
would refuse the hook for good. `HalfOpenHasTester` is inductive as it stands, given the
types: a call leaves the set of calls under way only by writing the state, or after it
read another state in the same step. `LockInv` says that until the evictor hits a
goroutine everybody works with the object that is in the map. `CheckoutInv` follows the
copies of requests: documents shared by two requests are marked (`MarkedInv`), every
session and every copy is backed by what `StartCheckout` did (`SessionInv`), and there is
one default method but for those a request is about to clear (`MethodInv`).

The pool's `QuietDrain` counts: before the drain every runner is in the channel, with a
call, on its way or lost, and the counter is the number of calls that run (`BeforeDrain`).
A drain that begins with no call in a window meets only calls that run, and each leaves
with a count of its own, smaller than those before it (`DuringDrain`): so one call counts
nothing left, it alone closes the channel, and nobody sends on a closed pool.

A chain of hooks runs in the order of the plugins: those it executed are an increasing
sequence, those still to be undone the front of it, and every plugin behind that front has
been asked, is reported as failed, cannot undo anything or was switched off.
`PluginsStaySafe` is about one pod. In `PluginLifecycle` the step of the one operation under
way says what registry, pool, metadata and hooks are, each as before or as after it, unless
a step failed that the code leaves as it is, two operations overlapped or another pod
changed the row (`apart`); of a pod that is apart only that a flow keeps
its pool. The pool that serves is one the runtime has
metadata of, and the pool a flow pinned is the current or a retired one unless the flow is
marked as cut.

A wallet and its ledger are two documents, written in turn. The invariant adds to the
wallet what the one call under way still owes it, and says that this is the sum of what
the service wrote. Sums over a sequence are a recursive function, of which the prover has
to be told what it computes: `SumTo` of a longer sequence is that of the shorter and one
entry more, for which the least length at which it would fail is shown not to exist
(`NatLessThanWellFounded` with `WFMin`: sets in place of the operator that the library's
induction rules take).

A shop's token and its secret are written together or not at all, and the index keeps two
rows from having one token. The manager lists the rows in one statement, so the bots it
loads from the list differ in their tokens whatever is stored meanwhile; nothing is loaded
before the list is there, and loops run only for loaded bots. An update that is past
`ResolveUser` is by a customer of the bot's shop, and an operation that goes on acts on a
subscription of that customer.

## 6. Model-checked only

* Liveness (`EverySettled`, `EventuallySettled`, `CapturedIsCredited`) rests on fairness and is outside what the prover handles.
* `OffersSafe`: families are proved (`FamiliesAreKept`); quotes and invoices are what
  recursive arithmetic computes from lists of rules, and the shares of an experiment are
  sums over sequences it selects from, which the runs compare with their definitions for
  every input in their bounds.
* `EdgeSafe`: settings are proved (`SettingsAreKept`); the windows and caches keep sequences
  filtered with `SelectSeq`, of which the prover knows nothing, the choice of a panel is a
  recursive function, and the scores of nodes are best enumerated. The slots of the speed
  test, the waiters of the proxy and the panel client are not proved yet.
* `EventsSafe`: two of its four parts are the theorem `UndisturbedEventsSurvive` for the
  instances of the run, and one is `SagasAreSafe`. The host functions depend on the
  validation of whole manifests and on filtered sequences of requests.

## 7. What the models rule in

Many properties carry an exception ("unless two requests overlapped", "unless the publish
failed"). Each exception is a history variable that the code's own steps set. The exceptions, and behaviour the modules keep
although it may surprise, are the list a maintainer should read first. None of it is the
subject of a run of its own unless section 4 says so.

* *Tenants.* A statement on the pool has no setting, so it sees no row of a table with
  policies: the gateway's `GetInvoices`, `GetSubscription`, the check in
  `CancelSubscription` and `GetBindingsBySubscription` read outside transactions, as do
  jobs without a scope. Only a role that the policies do not bind sees rows there, and
  `boot_assert` refuses such a role, so in a deployment that boots:
  - `handleActivated` looks the subscription up in a scope of its own and hands
    `OnSubscriptionActivated` the plain context (`billing_event_handlers.go:435`): the saga
    finds no subscription (`provisioning_saga.go:119`), its insert (`:172`) would be refused,
    and the event is retried into the dead letters (`multisub_activation`);
  - `SyncService` (`wiring_multisub.go:137`) and `BindingReconciler` (`:161`) list nothing.
    That failed bindings lose their panel user is therefore not claimed, and no run has it;
  - `SubscriptionScheduler.GetExpiredActive` (`wiring_billing.go:181`) lists nothing, so
    nothing is renewed or expired (`scheduler_unscoped`);
  - the insert of a payment record, outside a transaction, is refused, and a captured
    charge stays `unrecorded`.

  `MultiSub` takes both values of `visible` in `multisub` and the false one in
  `multisub_activation` and `multisub_cancel`; `RowsVisible` is false in `scheduler_unscoped`
  and true in `payment`, `upgrade_lost` and the billing part of `services`, which describe
  billing for a role the policies do not bind. There the schedulers of two pods race: the second may expire what
  the first has just renewed (`subscription_scheduler.go:98`), which `ExpiredForAReason`
  excuses as overtaken. The comment of
  `middleware/tenant_rls.go`, by which tables of the second tier are isolated by the
  application only, is older than migration 042. Rows created in the platform's scope belong
  to no shop; a family member added there is invisible to the shop, whose update of the
  family then fails. `RegisterViaTelegram` reads again after a unique violation, in a
  transaction that PostgreSQL has already given up.
* *Payment.* `CheckIdempotency` takes any logged webhook for a processed one; a webhook
  that arrives before `CreatePayment` is logged and lost. A charge is made outside the
  transaction that records it.
* *Billing.* Plan edits, `TrialManager`, `ApplyDiscount`, `OverrideTotal`, `MarkFailed`
  and `Refund` of an invoice have no callers. `CreateSubscription` ignores an add-on's
  limits and bills a duplicate twice. A pricing plugin changes only the copy that is
  charged, so the stored invoice and the `checkout.completed` event tell another amount.
  A renewal's `DiscountPercent` is taken as basis points and of the price before the
  override. A family group keeps the limit it was created with.
* *Sagas.* The unique index refuses a new record whatever the old one's status, although
  the comment says that marking it failed unblocks creation; a starting process marks
  live sagas of other pods failed; nothing resumes a saga.
* *Plugins.* A drain can meet a call between the two checks of `Acquire` and panic
  ("zero dropped requests" holds for drains that begin at rest). `HotReload` has a gap
  between `DetachPool` and `LoadPlugin`; if the load fails, the detached pool leaks. A
  failed configuration reload leaves an enabled plugin unloaded with its hooks
  registered. Overlapping `Enable`s register hooks twice. A pod is not
  told of the operations another pod served: until it restarts or serves one itself it runs
  the old code with the old configuration and the old hooks, or none, whatever the row says.
  A restart whose status write fails leaves the row saying enabled for a plugin that did not
  load, or error for one that is loaded and hooked. A half-open breaker admits more
  calls than `HookBreakerHalfOpenMaxCalls`. `DispatchAsync` works on the request's
  context. `SetPluginRegistry` has no caller, so as wired most host functions refuse.
  `MaxStorageMB` is not read by the quota, expired rows count against it and
  `StorageDeleteExpired` has no caller.
* *Tariffs.* Archiving leaves plans for sale; deleting a tariff that was never
  synchronised creates plans for sale; a new plan is active even if its tariff is not;
  import does not synchronise; periods of other lengths than the list in
  `deactivateOrphanedPlans` stay for sale.
* *Pricing.* Charm rounding comes after the floor and can go below it; `Simulate` sorts
  by priority and the pipeline does not; `StackingPolicy` is not read; validity and usage
  of a code are not checked when pricing, and `UsesCount` is never incremented.
* *Reseller.* Two commissions of one account recorded at once lose one from the balance,
  although the comment says the transaction prevents it; the created event may be lost;
  `SetTenantOwner` overwrites an owner.
* *Bots and panels.* `BotManager.Reload`, `migrateFromLegacyConfig` and `TestConnection`
  have no caller. Panels in maintenance accept writes, putting a removed panel into
  maintenance and out of it enables it, rules may name a disabled panel, and
  `AddNodesToSquad` passes nodes as users.
* *Panel client.* Through the plugin-backed provider (behind a feature flag) any HTTP
  status counts as success of delete, enable and disable, and a hook nobody handles
  passes as success without a UUID. Answers 404 open the client's breaker for everybody.
* *Gateway.* Plugin routes are registered once, at start-up, and outside the tenant
  middleware of `/api`; the rate limiter runs before authentication, so its keys are
  always addresses.
* *Settings.* The mutex is per process, so two processes can lose an update; other
  processes run on until they restart; overrides load after components have copied the
  configuration.
* *Edge.* The leader's cancelled context fails everyone who waits for its fetch, and
  waiters store an old body with fresh times to live. A node at 90–100 % of the load
  threshold scores below one beyond it; latency and coordinates are never filled; a lost
  publish of a node's change is not repeated.

## 8. Not modelled

* Payload contents, metrics, tracing, logging and wording; the backlog gauges.
* In `TenantStore`: deletes, the tables of single rows (sessions, sagas, settings, plugins)
  and unique constraints, which are in the modules of their services.
* Expiry of idempotency keys after 24 hours, and JetStream's own delivery limits.
* `ErrMaxBindingsExceeded`, an error before the first effect; the number of bindings a
  plan calls for is the constant `Specs`.
* `abs(hashtext(...))` overflows for one 32-bit value and PostgreSQL then fails the
  query; hashes are naturals here.
* The traffic handlers: the webhook publishes the panel's payload without a binding id,
  so `LimitBinding` and `UnlimitBinding` are never reached.
* The WASM engine, cohorts of experiments, the endpoints of the panel client that only
  read, the tables of emitted event types.
* Clean-up jobs (single statements on rows past their age), the command
  line, the web front ends and deployment: they keep no protocol of several steps.
