---------------------------- MODULE TelegramBots -----------------------------
(***************************************************************************)
(* The Telegram bots (internal/telegram): which of them run, and what they *)
(* do with an update.                                                      *)
(***************************************************************************)
EXTENDS Naturals, FiniteSets, Sequences

(***************************************************************************)
(* The configuration of the shops' Telegram bots (SetShopBot of the        *)
(* reseller service and its repository) and the manager that loads it when *)
(* the process starts and runs one loop per bot (telegram/manager.go).     *)
(***************************************************************************)

CONSTANTS
    BotShops,
    PlatformBot,        \* the platform's bot, outside every shop
    BotTokens,
    BotSetters,         \* goroutines that serve SetShopBot
    MaxBotWrites,       \* bound on requests
    MaxReloads          \* bound on restarts of the bots

NoBotRow == [token |-> "none"]
NotSetting == [pc |-> "none"]

VARIABLES
    botRow,         \* reseller.shop_bots
    secretOf,       \* the token each webhook secret was generated for
    setter,         \* requests to SetShopBot under way
    manager,        \* "down", "listed", "loaded" or "up"
    botListing,     \* what Load has read
    liveBot,        \* BotManager.shops
    botLoops,       \* bots whose loop runs
    botPluginOn,    \* the WASM plugin is enabled
    botWrites, reloads

configVars == <<botRow, secretOf, setter, botWrites>>
managerVars == <<manager, botListing, liveBot, botLoops, reloads>>
shopBotVars == <<configVars, managerVars, botPluginOn>>

Configured(s) == botRow[s] # NoBotRow

ShopBotInit ==
    /\ botRow = [s \in BotShops |-> NoBotRow]
    /\ secretOf = << >>
    /\ setter = [g \in BotSetters |-> NotSetting]
    /\ manager = "down"
    /\ botListing = [s \in BotShops |-> NoBotRow]
    /\ liveBot = [s \in BotShops |-> NoBotRow]
    /\ botLoops = {}
    /\ botPluginOn = TRUE
    /\ botWrites = 0
    /\ reloads = 0

-----------------------------------------------------------------------------
\* IsValidBotPlugin: a built-in bot, or a plugin that is enabled now.
IsValidBotPlugin(slug) == slug = "cabinet" \/ botPluginOn

\* SetShopBot validates, then writes a new token with a fresh secret, or reads the
\* stored pair first when no token is given.
SetShopBot(g, s, token, slug, on) ==
    /\ setter[g].pc = "none"
    /\ botWrites < MaxBotWrites
    /\ botWrites' = botWrites + 1
    /\ IsValidBotPlugin(slug)
    /\ setter' = [setter EXCEPT ![g] =
         [pc |-> IF token = "none" THEN "read" ELSE "write", s |-> s, token |-> token,
          secret |-> Len(secretOf) + 1, slug |-> slug, on |-> on]]
    /\ secretOf' = IF token = "none" THEN secretOf ELSE Append(secretOf, token)
    /\ UNCHANGED <<botRow, managerVars, botPluginOn>>

\* GetByTenant; ErrShopBotInvalidToken when there is nothing to keep.
GetByTenant(g) ==
    /\ setter[g].pc = "read"
    /\ LET row == botRow[setter[g].s] IN
       setter' = [setter EXCEPT ![g] =
         IF row = NoBotRow THEN NotSetting
         ELSE [@ EXCEPT !.pc = "write", !.token = row.token, !.secret = row.secret]]
    /\ UNCHANGED <<botRow, secretOf, botWrites, managerVars, botPluginOn>>

\* Mutant: the index on the token's hash is missing.
UpsertUnguarded(g) ==
    /\ setter[g].pc = "write"
    /\ botRow' = [botRow EXCEPT ![setter[g].s] =
         [token |-> setter[g].token, secret |-> setter[g].secret,
          slug |-> setter[g].slug, on |-> setter[g].on]]
    /\ setter' = [setter EXCEPT ![g] = NotSetting]
    /\ UNCHANGED <<secretOf, botWrites, managerVars, botPluginOn>>

\* Upsert: the unique index on the token's hash refuses another shop's token.
Upsert(g) ==
    /\ setter[g].pc = "write"
    /\ LET w == setter[g] IN
       botRow' = IF \E o \in BotShops \ {w.s} : Configured(o) /\ botRow[o].token = w.token
                 THEN botRow
                 ELSE [botRow EXCEPT ![w.s] = [token |-> w.token, secret |-> w.secret,
                                               slug |-> w.slug, on |-> w.on]]
    /\ setter' = [setter EXCEPT ![g] = NotSetting]
    /\ UNCHANGED <<secretOf, botWrites, managerVars, botPluginOn>>

-----------------------------------------------------------------------------
\* Load reads the enabled rows, or fails and leaves the shops without bots.
ListEnabledShopBots ==
    /\ manager = "down"
    /\ \E ok \in BOOLEAN :
         botListing' = [s \in BotShops |->
             IF ok /\ Configured(s) /\ botRow[s].on THEN botRow[s] ELSE NoBotRow]
    /\ manager' = "listed"
    /\ UNCHANGED <<configVars, liveBot, botLoops, reloads, botPluginOn>>

\* The bots are built under the lock; one that does not start is left out.
LoadBots ==
    /\ manager = "listed"
    /\ \E broken \in SUBSET BotShops :
         liveBot' = [s \in BotShops |->
             IF botListing[s] = NoBotRow \/ s \in broken THEN liveBot[s] ELSE botListing[s]]
    /\ manager' = "loaded"
    /\ UNCHANGED <<configVars, botListing, botLoops, reloads, botPluginOn>>

\* Run starts the loop of every loaded bot, ending a previous one.
RunBots ==
    /\ manager = "loaded"
    /\ botLoops' = {PlatformBot} \cup {s \in BotShops : liveBot[s] # NoBotRow}
    /\ manager' = "up"
    /\ UNCHANGED <<configVars, botListing, liveBot, reloads, botPluginOn>>

\* Reload stops the loops, forgets the bots and loads them again; the end of the
\* process does the same.
Reload ==
    /\ manager = "up"
    /\ reloads < MaxReloads
    /\ reloads' = reloads + 1
    /\ botLoops' = {}
    /\ liveBot' = [s \in BotShops |-> NoBotRow]
    /\ manager' = "down"
    /\ UNCHANGED <<configVars, botListing, botPluginOn>>

\* Another component: the plugin is disabled.
DisableBotPlugin ==
    /\ botPluginOn
    /\ botPluginOn' = FALSE
    /\ UNCHANGED <<configVars, managerVars>>

ShopBotNext ==
    \/ \E g \in BotSetters :
         \/ \E s \in BotShops, t \in BotTokens \cup {"none"}, slug \in {"cabinet", "wasm"},
               on \in BOOLEAN : SetShopBot(g, s, t, slug, on)
         \/ GetByTenant(g)
         \/ Upsert(g)
    \/ ListEnabledShopBots \/ LoadBots \/ RunBots \/ Reload
    \/ DisableBotPlugin

ShopBotSpec == ShopBotInit /\ [][ShopBotNext]_shopBotVars

-----------------------------------------------------------------------------
\* shop_bot_repo.go and reseller_service.go, SetShopBot: through overlapping requests
\* with and without a token, no two shops hold one token, and a token is stored with a
\* secret that was generated for it.
TokensKept ==
    \A s \in BotShops : Configured(s) =>
        /\ secretOf[botRow[s].secret] = botRow[s].token
        /\ \A o \in BotShops \ {s} : Configured(o) => botRow[o].token # botRow[s].token

\* manager.go: whatever is stored while the bots are loaded, started and reloaded, a
\* loop runs only for a bot that is loaded, and no two loops poll with one token.
LoopsApart ==
    \A s \in botLoops \cap BotShops :
        /\ liveBot[s] # NoBotRow
        /\ \A o \in (botLoops \cap BotShops) \ {s} : liveBot[o].token # liveBot[s].token

\* The two together.
BotsSafe == TokensKept /\ LoopsApart

-----------------------------------------------------------------------------
(***************************************************************************)
(* What a Telegram bot does with an update (internal/telegram, bothost,    *)
(* builtin/cabinetbot).  A shop's bot hands it to the built-in cabinet bot *)
(* or to a WASM plugin, which act on the shop's customers and              *)
(* subscriptions only through the host's operations; the platform's bot    *)
(* has handlers of its own.  Updates are handled side by side.             *)
(***************************************************************************)

CONSTANTS
    UpdateShops,
    OwnBot,             \* the platform's bot, outside every shop
    TgUsers,            \* Telegram users
    BotPlans,           \* the tenant-agnostic plan catalogue
    WasmPerms,          \* permissions of the WASM bot plugin
    UpdateWorkers,      \* goroutines
    MaxUpdates,         \* bound on updates
    MaxOutside          \* bound on changes from outside

VARIABLES
    slugOf,         \* the bot plugin of each shop's bot, as loaded
    wasmOn,         \* the WASM plugin is enabled
    onOffer,        \* plans visible in each shop
    customers,      \* platform_users with a Telegram id: <<shop, user>>
    botSubs,        \* subscriptions, with the bots and accounts that acted on them
    update,         \* the update each goroutine is at
    updates, outside

botUpdateVars == <<slugOf, wasmOn, onOffer, customers, botSubs, update, updates, outside>>
outsideVars == <<slugOf, wasmOn, onOffer, outside>>

NoUpdate == [pc |-> "none"]
CabinetPerms == {"telegram:send", "users:write", "billing:read", "payment:write"}

\* The platform's bot reads under the sentinel scope, a shop's bot under the shop's.
Sees(bot, shop) == bot = OwnBot \/ bot = shop

\* One subscription is there from the start.
BotUpdateInit ==
    /\ slugOf \in [UpdateShops -> {"cabinet", "wasm"}]
    /\ wasmOn = TRUE
    /\ onOffer = [s \in UpdateShops |-> BotPlans]
    /\ \E s \in UpdateShops, u \in TgUsers, p \in BotPlans :
         /\ customers = {<<s, u>>}
         /\ botSubs = <<[shop |-> s, owner |-> <<s, u>>, plan |-> p, ended |-> FALSE, acts |-> {}]>>
    /\ update = [g \in UpdateWorkers |-> NoUpdate]
    /\ updates = 0
    /\ outside = 0

-----------------------------------------------------------------------------
Outside == outside < MaxOutside /\ outside' = outside + 1

\* Other components: the plugin is enabled or disabled, a shop's offer changes, a
\* Telegram user becomes a customer of another shop.
TogglePlugin ==
    /\ Outside
    /\ wasmOn' = ~wasmOn
    /\ UNCHANGED <<slugOf, onOffer, customers, botSubs, update, updates>>

ChangeOffer(s, p) ==
    /\ Outside
    /\ onOffer' = [onOffer EXCEPT ![s] = IF p \in @ THEN @ \ {p} ELSE @ \cup {p}]
    /\ UNCHANGED <<slugOf, wasmOn, customers, botSubs, update, updates>>

JoinShop(s, u) ==
    /\ Outside
    /\ customers' = customers \cup {<<s, u>>}
    /\ UNCHANGED <<slugOf, wasmOn, onOffer, botSubs, update, updates>>

-----------------------------------------------------------------------------
\* What an update asks for: to look, to buy a plan, to cancel a subscription, or to
\* move one to a plan.
Wishes ==
    {[op |-> "look"]} \cup {[op |-> "buy", plan |-> p] : p \in BotPlans}
    \cup {[op |-> "cancel", sub |-> i] : i \in DOMAIN botSubs}
    \cup {[op |-> "upgrade", sub |-> i, plan |-> p] : i \in DOMAIN botSubs, p \in BotPlans}

\* dispatchUpdate: the built-in bot of the slug, else the plugin if it is enabled, else
\* the cabinet bot.  The permissions are those of the moment.
DispatchUpdate(g, s, u, wish) ==
    /\ update[g] = NoUpdate
    /\ updates < MaxUpdates
    /\ updates' = updates + 1
    /\ LET kind == IF s = OwnBot THEN "own"
                   ELSE IF slugOf[s] = "wasm" /\ wasmOn THEN "wasm" ELSE "cabinet"
       IN /\ wish.op \in CASE kind = "own" -> {"look", "buy", "cancel"}
                           [] kind = "wasm" -> {"look", "buy", "cancel", "upgrade"}
                           [] OTHER -> {"look", "buy"}
          /\ update' = [update EXCEPT ![g] =
               [pc |-> IF kind = "cabinet" THEN "register" ELSE "resolve",
                bot |-> s, kind |-> kind, user |-> u, wish |-> wish, account |-> <<s, u>>,
                perms |-> IF kind = "wasm" THEN WasmPerms ELSE CabinetPerms]]
    /\ UNCHANGED <<outsideVars, customers, botSubs>>

\* user.register of the cabinet bot: get or create, in the bot's shop.
RegisterUser(g) ==
    /\ update[g].pc = "register"
    /\ customers' = customers \cup {update[g].account}
    /\ update' = [update EXCEPT ![g].pc = "resolve"]
    /\ UNCHANGED <<outsideVars, botSubs, updates>>

\* Registry.Call: the permission an operation needs.
Needs(op) == CASE op = "look" -> "billing:read"
               [] op = "buy" -> "payment:write"
               [] OTHER -> "billing:write"

\* A missing permission, an unknown user, a failed check or an error ends the update.
EndUpdate(g) ==
    /\ update[g] # NoUpdate
    /\ update' = [update EXCEPT ![g] = NoUpdate]
    /\ UNCHANGED <<outsideVars, customers, botSubs, updates>>

\* resolveUser under the bot's scope; several accounts of one Telegram user are visible
\* to the platform's bot, and any of them is returned.
ResolveUser(g, a) ==
    /\ update[g].pc = "resolve"
    /\ update[g].kind = "own" \/ Needs(update[g].wish.op) \in update[g].perms
    /\ a \in customers
    /\ a[2] = update[g].user
    /\ Sees(update[g].bot, a[1])
    /\ update' = [update EXCEPT ![g].pc = "check", ![g].account = a]
    /\ UNCHANGED <<outsideVars, customers, botSubs, updates>>

\* Mutant: any subscription of the shop will do.
VerifyShop(g, i) == Sees(update[g].bot, botSubs[i].shop)

\* verifyOwnership, under the bot's scope.
VerifyOwnership(g, i) ==
    Sees(update[g].bot, botSubs[i].shop) /\ botSubs[i].owner = update[g].account

\* plans.get of the cabinet bot before a purchase and of an upgrade.
ChecksOffer(g) ==
    \/ update[g].wish.op = "upgrade"
    \/ update[g].wish.op = "buy" /\ update[g].kind = "cabinet"

\* The tenant-scoped checks before the write.
CheckWish(g) ==
    /\ update[g].pc = "check"
    /\ update[g].wish.op # "look"
    /\ update[g].wish.op \in {"cancel", "upgrade"} => VerifyOwnership(g, update[g].wish.sub)
    /\ ChecksOffer(g) => update[g].wish.plan \in onOffer[update[g].bot]
    /\ update' = [update EXCEPT ![g].pc = "act"]
    /\ UNCHANGED <<outsideVars, customers, botSubs, updates>>

\* checkoutStarterAdapter.Start: the subscription is stamped with the scope of the bot.
Start(g, kind) ==
    /\ update[g].pc = "act" /\ update[g].wish.op = "buy" /\ update[g].kind = kind
    /\ botSubs' = Append(botSubs,
         [shop |-> update[g].bot, owner |-> update[g].account, plan |-> update[g].wish.plan,
          ended |-> FALSE, acts |-> {<<update[g].bot, update[g].account>>}])
    /\ update' = [update EXCEPT ![g] = NoUpdate]
    /\ UNCHANGED <<outsideVars, customers, updates>>

HandleBuyCallback(g) == Start(g, "cabinet")
HandleCheckoutCreate(g) == Start(g, "wasm")
HandleConfirmCallback(g) == Start(g, "own")

\* subscriptionMutatorAdapter: a transaction of its own, with no check of the owner; a
\* subscription that has ended is refused.
Mutate(g, kind, op, changed) ==
    /\ update[g].pc = "act" /\ update[g].wish.op = op /\ update[g].kind = kind
    /\ LET sub == botSubs[update[g].wish.sub]
       IN botSubs' = IF sub.ended THEN botSubs ELSE [botSubs EXCEPT ![update[g].wish.sub] =
            [changed EXCEPT !.acts = @ \cup {<<update[g].bot, update[g].account>>}]]
    /\ update' = [update EXCEPT ![g] = NoUpdate]
    /\ UNCHANGED <<outsideVars, customers, updates>>

Ended(g) == [botSubs[update[g].wish.sub] EXCEPT !.ended = TRUE]
HandleSubscriptionsCancel(g) == Mutate(g, "wasm", "cancel", Ended(g))
HandleCancelCallback(g) == Mutate(g, "own", "cancel", Ended(g))

HandleSubscriptionsUpgrade(g) ==
    Mutate(g, "wasm", "upgrade",
           [botSubs[update[g].wish.sub] EXCEPT !.plan = update[g].wish.plan])

BotUpdateNext ==
    \/ TogglePlugin
    \/ \E s \in UpdateShops :
         \/ \E p \in BotPlans : ChangeOffer(s, p)
         \/ \E u \in TgUsers : JoinShop(s, u)
    \/ \E g \in UpdateWorkers :
         \/ \E s \in UpdateShops \cup {OwnBot}, u \in TgUsers, w \in Wishes :
              DispatchUpdate(g, s, u, w)
         \/ RegisterUser(g)
         \/ \E a \in customers : ResolveUser(g, a)
         \/ CheckWish(g)
         \/ HandleBuyCallback(g) \/ HandleCheckoutCreate(g) \/ HandleConfirmCallback(g)
         \/ HandleSubscriptionsCancel(g) \/ HandleCancelCallback(g)
         \/ HandleSubscriptionsUpgrade(g)
         \/ EndUpdate(g)

BotUpdateSpec == BotUpdateInit /\ [][BotUpdateNext]_botUpdateVars

-----------------------------------------------------------------------------
\* ops_domain.go, verifyOwnership: whichever bot handles an update, and whatever other
\* updates and administrators change while it does, a subscription is only ever acted
\* on by its owner's account; a shop's bot acts on its own shop's, and what it sells
\* belongs to a customer of it.
OwnersAct ==
    \A i \in DOMAIN botSubs : \A a \in botSubs[i].acts :
        /\ a[2] = botSubs[i].owner
        /\ a[2] \in customers
        /\ a[1] # OwnBot => a[1] = botSubs[i].shop /\ a[1] = botSubs[i].owner[1]

\* internal/telegram: no token is polled twice or for a bot that is not loaded, and a bot
\* acts only for the owner of what it acts on.
TelegramSafe == BotsSafe /\ OwnersAct
==============================================================================
