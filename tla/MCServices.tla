------------------------------ MODULE MCServices ------------------------------
(***************************************************************************)
(* Small instances of the services that share no state.  A behaviour keeps *)
(* to the one component that focus names, so that the state spaces add up  *)
(* and do not multiply.                                                    *)
(***************************************************************************)
EXTENDS Billing, EntityLocks, Balance, CheckoutSession, Identity, AccessControl,
        PluginPool, PluginLifecycle, PluginHooks,
        TariffPlans, Pricing, Reseller, TelegramBots, Panels, SpeedTest, OutboxUpkeep, TLC

CONSTANTS
    basic, pro,
    h1, h2, h3,
    Components      \* the components a behaviour may keep to

IntervalMC == basic :> 1 @@ pro :> 2
PriceMC == basic :> 1 @@ pro :> 2

\* Two handlers in one pod, one in another.
PodOfMC == h1 :> "first" @@ h2 :> "first" @@ h3 :> "second"

\* Modifiers that raise, lower, scale and replace a price, with floors and roundings.
Modifier(type, min, change, value, priority) ==
    [type |-> type, min |-> min, op |-> change, value |-> value, priority |-> priority]
RuleInputsMC ==
    LET geo(change, value) == Modifier("geo", "RU", change, value, 2)
        bulk(change, value) == Modifier("bulk_duration", 90, change, value, 1)
        lists == {<<>>, <<geo("percent_up", 5000)>>,
                  <<geo("fixed_off", 150), geo("fixed_up", 1)>>,
                  <<geo("multiply", 3333), bulk("percent_off", 20000)>>,
                  <<geo("fixed_off", 333), bulk("percent_off", 1500)>>,
                  <<bulk("replace_price", 198), Modifier("quantity", 2, "fixed_off", 60, 3)>>}
    IN {[modifiers |-> m, floor |-> f, rounding |-> r] :
          m \in lists, f \in {-1, 60, 199}, r \in {"none", "95"}}
Promo(kind, value, cap, on, usedUp, inDates) ==
    [code |-> "A", kind |-> kind, value |-> value, cap |-> cap, active |-> on,
     usedUp |-> usedUp, inDates |-> inDates]
PromoInputsMC ==
    {Promo("percent_off", 3333, 0, TRUE, FALSE, TRUE),
     Promo("percent_off", 10001, 0, TRUE, FALSE, TRUE),
     Promo("fixed_off", 500, 120, TRUE, FALSE, TRUE),
     Promo("fixed_off", 50, 0, FALSE, FALSE, TRUE),
     Promo("fixed_off", 100, 0, TRUE, TRUE, TRUE),
     Promo("fixed_off", 101, 0, TRUE, FALSE, FALSE)}

\* Lists of variants that are accepted, and some that are not.
Variant(key, share) == [key |-> key, share |-> share]
VariantListsMC ==
    {<<Variant("a", 3)>>, <<Variant("a", 1), Variant("b", 2)>>,
     <<Variant("a", 1), Variant("b", 1), Variant("c", 1)>>,
     <<Variant("a", 2), Variant("a", 1)>>, <<Variant("a", 1), Variant("b", 1)>>}
UserBucketMC == <<0, 1, 2>>

\* A size that is given and one that is not, one that is refused, and an upload past its cap.
SpeedRequest(ep, given, size, post) == [ep |-> ep, given |-> given, size |-> size, post |-> post]
SpeedRequestsMC ==
    {SpeedRequest("download", TRUE, 0, FALSE), SpeedRequest("download", TRUE, 9, FALSE),
     SpeedRequest("upload", FALSE, 9, TRUE), SpeedRequest("upload", FALSE, 1, FALSE),
     SpeedRequest("ping", FALSE, 0, FALSE)}

\* The goroutines and pods of every component are the same two model values: one
\* permutation of them serves all components.
SuiteSymmetry == Permutations(Pods)

VARIABLES
    focus,
    msg, window, dlq, keys, retry, pc, cur, expired, applied, failOpen, upset, budget,
    overrides, runningConfig, settingsMutex, settingsUpdate, saved, saves, seenSave,
    savesCrossed, updateCount, settingsFaults,
    l1, l2, flight, proxyCall, proxyBreaker, configServed, proxyTime, proxyCalls, proxyFaults,
    zset, zexpire, rateBreaker, passed, waved, rateTime, rateCalls, rateFaults,
    panelNodes, nodeCache, poll, told, untold, route, polls, nodeChanges, publishFaults,
    familyPlan, familyGroup, familyCall, groupLock, relatives, familyCalls, familyEdits,
    offer, bought, bill, held, drawnUp, changed, settled, charged, toldAmount, invoiceCalls,
    sagaRow, sagaRun, sagaStart, did, outcome, sagaCrossed, sagaRuns, sagaFaults, sagaCrashes,
    plug, store, slugLock, limiters, inForce, guest, operator, hostTime, hostCalls, uploads,
    hostFaults, kept, undeclared,
    backend, envelope, handled, vpnUser, vpnBreaker, vpnCall, answered, vpnCalls, vpnFaults,
    pluginSwitches

consumerVars ==
    <<msg, window, dlq, keys, retry, pc, cur, expired, applied, failOpen, upset, budget>>

prefsVars == <<overrides, runningConfig, settingsMutex, settingsUpdate, saved, saves, seenSave,
               savesCrossed, updateCount, settingsFaults>>
proxyVars == <<l1, l2, flight, proxyCall, proxyBreaker, configServed, proxyTime, proxyCalls,
               proxyFaults>>
rateVars == <<zset, zexpire, rateBreaker, passed, waved, rateTime, rateCalls, rateFaults>>
routerVars == <<panelNodes, nodeCache, poll, told, untold, route, polls, nodeChanges,
                publishFaults>>
familyVars == <<familyPlan, familyGroup, familyCall, groupLock, relatives, familyCalls,
                familyEdits>>
invoiceVars == <<offer, bought, bill, held, drawnUp, changed, settled, charged, toldAmount,
                 invoiceCalls>>
sagaVars == <<sagaRow, sagaRun, sagaStart, did, outcome, sagaCrossed, sagaRuns, sagaFaults,
              sagaCrashes>>
hostFnVars == <<plug, store, slugLock, limiters, inForce, guest, operator, hostTime, hostCalls,
                uploads, hostFaults, kept, undeclared>>
providerVars == <<backend, envelope, handled, vpnUser, vpnBreaker, vpnCall, answered, vpnCalls,
                  vpnFaults, pluginSwitches>>

\* A second instance of BillingEventConsumer: the activation of a subscription
\* and a malformed cancellation, in one pod.
NoEventMC == 0
EntityOfMC == [e \in 1 .. 2 |-> "sub"]
SubjectOfMC == [e \in 1 .. 2 |-> IF e = 1 THEN "activated" ELSE "cancelled"]
Consumer(malformed) == INSTANCE BillingEventConsumer WITH
    Events <- 1 .. 2, EntityOf <- EntityOfMC, SubjectOf <- SubjectOfMC, NoEvent <- NoEventMC,
    Malformed <- malformed, Pods <- {"p"}, MaxMessageRetries <- 1, MaxTimeouts <- 1,
    MaxCrashes <- 1, MaxDBErrors <- 0, MaxDLQErrors <- 1, MaxLateAcks <- 0,
    MaxDuplicates <- 0, MaxReplays <- 0, MaxDryRuns <- 0

\* One field of each kind of section, two processes and two requests.
Prefs == INSTANCE Settings WITH
    SettingsPods <- {"first", "second"}, SettingsAdmins <- Pods,
    EditedFields <- {"trial_days", "weight_geo", "relay_workers", "allowed_origins", "timeout"},
    SettingValues <- {0, 1}, MaxSettingsUpdates <- 2, MaxSettingsFaults <- 1

Proxy == INSTANCE SubscriptionProxy WITH
    ShortUUIDs <- {"u1", "u2"}, ProxyWorkers <- Pods, L1CacheSize <- 1, L1CacheTTL <- 1,
    L2CacheTTL <- 1, MaxHold <- 1, ProxyCBFailures <- 1, MaxProxyTime <- 4,
    MaxProxyCalls <- 3, MaxProxyFaults <- 1

\* The second process's clock is one ahead.
Limiter == INSTANCE RateLimits WITH
    RatePods <- {"first", "second"}, Skew <- "first" :> 0 @@ "second" :> 1, MaxSkew <- 1,
    RateKeys <- {"ip"}, RateLimitOf <- 2, RateWindow <- 2, RateBreakerFailures <- 1,
    MaxRateTime <- 5, MaxRateCalls <- 4, MaxRateFaults <- 1

RouteRequestsMC ==
    [country : {"DE"}, purpose : {"browsing"}, tier : {"basic"}, allowed : {{"n1"}}]
      \cup [country : {"DE"}, purpose : {"gaming"}, tier : {"premium"},
            allowed : {{}}]
WeightsMC ==
    [browsing |-> [geo |-> 0, latency |-> 0, load |-> 0],
     gaming |-> [geo |-> 10, latency |-> 80, load |-> 10],
     streaming |-> [geo |-> 0, latency |-> 0, load |-> 0]]
Router == INSTANCE NodeRouting WITH
    VPNNodes <- {"n1", "n2"}, CountryOf <- "n1" :> "DE" @@ "n2" :> "DE",
    TrafficLevels <- {0, 95, 100}, ConfiguredWeights <- WeightsMC,
    RouteRequests <- RouteRequestsMC, MaxPolls <- 2, MaxNodeChanges <- 1,
    MaxPublishFaults <- 1

\* Sizes that make no group, one that is full with the first member, and a larger one.
Family == INSTANCE FamilyGroups WITH
    FamilyOwner <- "owner", Relatives <- {"ann", "bob"}, FamilyRequests <- Pods,
    FamilySizes <- {0, 2, 3, 11}, MaxFamilyCalls <- 3, MaxFamilyEdits <- 1

NoAnswerMC == -999
AnswerMC(s, d) == [subtotal |-> s, discount |-> d]
Invoicing == INSTANCE InvoiceTotals WITH
    Addons <- {"x", "y"}, AddonPrice <- "x" :> 3 @@ "y" :> 50, BasePrices <- {10},
    AddonRequests <- {<<>>, <<"x", "y">>, <<"x", "x">>},
    Discounts <- {[type |-> "percent", value |-> 3333], [type |-> "percent", value |-> 10000],
                  [type |-> "fixed", value |-> 7], [type |-> "percent", value |-> 10001]},
    Answers <- {AnswerMC(NoAnswerMC, NoAnswerMC), AnswerMC(5, NoAnswerMC),
                AnswerMC(NoAnswerMC, 1500), AnswerMC(-5, 2)},
    NoAnswer <- NoAnswerMC, MaxAddonsOfPlan <- 2, MaxInvoiceCalls <- 4

Sagas == INSTANCE SagaRecords WITH
    SagaPods <- Pods, SagaSteps <- 2, MaxSagaRuns <- 2, MaxSagaFaults <- 1,
    MaxSagaCrashes <- 1

\* Two manifests that can be uploaded in turn, one of another plugin and three that are refused.
ManifestMC ==
    [id |-> "p", name |-> "P", sdk |-> "1.0.0", version |-> <<1, 0>>, bot |-> FALSE,
     hooks |-> {[name |-> "pricing.quote", known |-> TRUE]},
     pages |-> <<[path |-> "tariffs", title |-> "Tariffs", menu |-> "admin"]>>,
     routes |-> <<[method |-> "GET", path |-> <<"api", "members">>, function |-> "list",
                   permission |-> ""]>>,
     limits |-> [memory |-> 0, pool |-> 99, fuel |-> 0, storage |-> 0, http |-> 1, timeout |-> 0,
                 timeoutAsync |-> 0],
     permissions |-> [billing |-> "read", users |-> "", vpn |-> "write", storage |-> "readwrite",
                      payment |-> "", notifications |-> "emit", analytics |-> "",
                      api |-> "routes", telegram |-> "",
                      http |-> {[host |-> "bank", path |-> <<"v1">>, wild |-> TRUE]}]]
RouteMC(path, permission) ==
    [method |-> "GET", path |-> path, function |-> "list", permission |-> permission]
UploadsMC ==
    {ManifestMC,
     [ManifestMC EXCEPT !.limits.http = 2, !.permissions.storage = "read",
                        !.permissions.vpn = "", !.permissions.notifications = ""],
     [ManifestMC EXCEPT !.routes = <<RouteMC(<<"api", "Admin", "roles">>, "")>>],
     [ManifestMC EXCEPT !.routes = <<RouteMC(<<"api", "members">>, "unheard of")>>],
     [ManifestMC EXCEPT !.id = "q", !.permissions.storage = "", !.permissions.vpn = "",
                        !.permissions.notifications = "", !.permissions.http = {}],
     [ManifestMC EXCEPT !.version = <<1>>]}
HostFns == INSTANCE HostFunctions WITH
    Uploads <- UploadsMC, GuestCalls <- Pods, BlockedHosts <- {"localhost"},
    Targets <- {[host |-> "bank", path |-> <<"v1", "", "pay">>], [host |-> "bank", path |-> <<"v2">>],
                [host |-> "bank", path |-> <<"v1", "..", "v2">>], [host |-> "localhost", path |-> <<>>]},
    KnownPermissions <- {"plugins.manage"}, StorageKeys <- {"k", "l", "a/b"}, ValidKeys <- {"k", "l"},
    LeftKeys <- {"k"},
    StoredValues <- {[len |-> 2, size |-> 1], [len |-> 2, size |-> 3]}, Overhead <- 1,
    MaxBytes <- 4, HTTPWindow <- 1, MaxHostTime <- 1, MaxHostCalls <- 2, MaxUploads <- 1,
    MaxHostFaults <- 1

Providers == INSTANCE VPNProviders WITH
    VPNUsers <- {"u"}, VPNCallers <- Pods, MaxBreakerFailures <- 1, MaxProbes <- 1,
    MaxVPNCalls <- 2, MaxVPNFaults <- 2, MaxPluginSwitches <- 1

\* Only the component in focus starts in each of its initial states.
Init ==
    /\ focus \in Components
    /\ BillingInit
    /\ LockInit
    /\ BalanceInit
    /\ CheckoutInit
    /\ IdentityInit
    /\ AccessInit
    /\ focus # "access" => invitations = {} /\ \A u \in Staff \ {FirstAdmin} : "admin" \notin bindings[u]
    /\ PoolInit
    /\ focus # "pool" => idle = PoolSize
    /\ LifecycleInit
    /\ focus # "plugin" => registry = NoRow
    /\ BreakerInit
    /\ ChainInit
    /\ AsyncInit
    /\ TariffInit
    /\ focus # "tariff" => \A t \in Tariffs : ~Stored(t)
    /\ PricingInit
    /\ ExperimentInit
    /\ ResellerInit
    /\ ShopBotInit
    /\ BotUpdateInit
    /\ focus # "bot updates" => \A s \in UpdateShops : slugOf[s] = "cabinet"
    /\ PanelInit
    /\ Prefs!SettingsInit
    /\ Proxy!ProxyInit
    /\ Limiter!RateInit
    /\ Router!NodeInit
    /\ focus # "router" => \A n \in DOMAIN panelNodes : panelNodes[n].used = 0
    /\ Family!FamilyInit
    /\ focus # "family" => ~familyPlan.enabled
    /\ Invoicing!InvoiceInit
    /\ focus # "invoice" => offer.price = 10
    /\ Sagas!SagaInit
    /\ HostFns!HostInit
    /\ focus # "host" => ~plug.installed
    /\ Providers!VPNInit
    /\ focus # "providers" =>
         backend = "client" /\ vpnBreaker.st = "closed" /\ "active" \notin Range(vpnUser)
    /\ Consumer({})!Init
    /\ SpeedInit
    /\ UpkeepInit
    /\ AuditInit

\* Only the variables of component c, among those of all components, change.
Only(c) ==
    /\ focus = c
    /\ UNCHANGED focus
    /\ c # "billing" => UNCHANGED billingVars
    /\ c # "locks" => UNCHANGED lockVars
    /\ c # "balance" => UNCHANGED balanceVars
    /\ c # "checkout" => UNCHANGED checkoutVars
    /\ c # "identity" => UNCHANGED identityVars
    /\ c # "access" => UNCHANGED accessVars
    /\ c # "pool" => UNCHANGED poolVars
    /\ c # "plugin" => UNCHANGED lifecycleVars
    /\ c # "breaker" => UNCHANGED breakerVars
    /\ c # "chain" => UNCHANGED chainVars
    /\ c # "async" => UNCHANGED asyncVars
    /\ c # "tariff" => UNCHANGED tariffVars
    /\ c # "pricing" => UNCHANGED pricingVars
    /\ c # "experiment" => UNCHANGED experimentVars
    /\ c # "reseller" => UNCHANGED resellerVars
    /\ c # "shop bots" => UNCHANGED shopBotVars
    /\ c # "bot updates" => UNCHANGED botUpdateVars
    /\ c # "panels" => UNCHANGED panelVars
    /\ c # "settings" => UNCHANGED prefsVars
    /\ c # "proxy" => UNCHANGED proxyVars
    /\ c # "limits" => UNCHANGED rateVars
    /\ c # "router" => UNCHANGED routerVars
    /\ c # "family" => UNCHANGED familyVars
    /\ c # "invoice" => UNCHANGED invoiceVars
    /\ c # "sagas" => UNCHANGED sagaVars
    /\ c # "host" => UNCHANGED hostFnVars
    /\ c # "providers" => UNCHANGED providerVars
    /\ c # "speed" => UNCHANGED speedVars
    /\ c # "upkeep" => UNCHANGED upkeepVars
    /\ c # "audit" => UNCHANGED auditVars
    /\ c \notin {"two events", "malformed"} => UNCHANGED consumerVars

Next ==
    \/ Only("billing") /\ BillingNext
    \/ Only("locks") /\ LockNext
    \/ Only("balance") /\ BalanceNext
    \/ Only("checkout") /\ CheckoutNext
    \/ Only("identity") /\ IdentityNext
    \/ Only("access") /\ AccessNext
    \/ Only("pool") /\ PoolNext
    \/ Only("plugin") /\ LifecycleNext
    \/ Only("breaker") /\ BreakerNext
    \/ Only("chain") /\ ChainNext
    \/ Only("async") /\ AsyncNext
    \/ Only("tariff") /\ TariffNext
    \/ Only("pricing") /\ PricingNext
    \/ Only("experiment") /\ ExperimentNext
    \/ Only("reseller") /\ ResellerNext
    \/ Only("shop bots") /\ ShopBotNext
    \/ Only("bot updates") /\ BotUpdateNext
    \/ Only("panels") /\ PanelNext
    \/ Only("settings") /\ Prefs!SettingsNext
    \/ Only("proxy") /\ Proxy!ProxyNext
    \/ Only("limits") /\ Limiter!RateNext
    \/ Only("router") /\ Router!NodeNext
    \/ Only("family") /\ Family!FamilyNext
    \/ Only("invoice") /\ Invoicing!InvoiceNext
    \/ Only("sagas") /\ Sagas!SagaNext
    \/ Only("host") /\ HostFns!HostNext
    \/ Only("providers") /\ Providers!VPNNext
    \/ Only("speed") /\ SpeedNext
    \/ Only("upkeep") /\ UpkeepNext
    \/ Only("audit") /\ AuditNext
    \/ Only("two events") /\ Consumer({})!Next
    \/ Only("malformed") /\ Consumer({2})!Next

\* The rest of a state is the same in every state of the focus.
SuiteView ==
    <<focus,
      CASE focus = "billing" -> billingVars
        [] focus = "locks" -> lockVars
        [] focus = "balance" -> balanceVars
        [] focus = "checkout" -> checkoutVars
        [] focus = "identity" -> identityVars
        [] focus = "access" -> accessVars
        [] focus = "pool" -> poolVars
        [] focus = "plugin" -> lifecycleVars
        [] focus = "breaker" -> breakerVars
        [] focus = "chain" -> chainVars
        [] focus = "async" -> asyncVars
        [] focus = "tariff" -> tariffVars
        [] focus = "pricing" -> pricingVars
        [] focus = "experiment" -> experimentVars
        [] focus = "reseller" -> resellerVars
        [] focus = "shop bots" -> shopBotVars
        [] focus = "bot updates" -> botUpdateVars
        [] focus = "panels" -> panelVars
        [] focus = "settings" -> prefsVars
        [] focus = "proxy" -> proxyVars
        [] focus = "limits" -> rateVars
        [] focus = "router" -> routerVars
        [] focus = "family" -> familyVars
        [] focus = "invoice" -> invoiceVars
        [] focus = "sagas" -> sagaVars
        [] focus = "host" -> hostFnVars
        [] focus = "providers" -> providerVars
        [] focus = "speed" -> speedVars
        [] focus = "upkeep" -> upkeepVars
        [] focus = "audit" -> auditVars
        [] OTHER -> consumerVars>>

-----------------------------------------------------------------------------
\* Components whose invariants are listed by name are checked in every state; the others
\* are gathered here, and looked at only where they can change.

\* billing_event_consumer.go: with two events that wait for one entity lock, or one that is
\* dead-lettered unread, an event that met no fault is still applied or dead-lettered;
\* the records of the sagas an event starts claim no more than was done; and
\* hostfuncs.go: a plugin that is called does what its manifest declares, within its limits.
EventsSafe ==
    /\ focus = "two events" => Consumer({})!UndisturbedNotLost
    /\ focus = "malformed" => Consumer({2})!UndisturbedNotLost
    /\ focus = "sagas" => Sagas!SagasSafe
    /\ focus = "host" => HostFns!HostSafe

\* pricing_engine.go, ab_experiments.go, family_service.go and invoice.go: quotes obey the
\* rules and the codes, a user keeps the variant of an experiment, families keep their
\* members, and invoices come to what was offered, never to less.
OffersSafe ==
    /\ focus = "pricing" => QuotesSafe
    /\ focus = "experiment" => ExperimentsSafe
    /\ focus = "family" => Family!FamiliesKept
    /\ focus = "invoice" => Invoicing!InvoicesSafe

\* infra/proxy, adapter/valkey: a client gets its own config, not too old, waits only for
\* a fetch that is under way, and cannot pass a limit by going to another process;
\* infra/health, infra/routing: changes of nodes are told, and the router picks by them;
\* settings/service.go: no acknowledged change of a setting is lost within a process;
\* infra/speedtest: no slot is lost, and a client is told what it got;
\* builtin/remnawave: removed panels stay out of use, and routing follows priority;
\* adapter/remnawave, adapter/plugin: a call that succeeded was carried out.
EdgeSafe ==
    /\ focus = "proxy" => Proxy!ConfigsFresh /\ Proxy!WaitersHaveLeader
    /\ focus = "limits" => Limiter!WindowKept
    /\ focus = "router" => Router!TransitionsTold /\ Router!RoutedFairly
    /\ focus = "settings" => Prefs!SettingsKept
    /\ focus = "speed" => SpeedSafe
    /\ focus = "panels" => PanelsSafe
    /\ focus = "providers" => Providers!ProvidersSafe
=============================================================================
