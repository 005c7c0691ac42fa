-------------------------------- MODULE Gateway --------------------------------
(***************************************************************************)
(* The HTTP gateway (internal/gateway): the middleware a request passes,   *)
(* in the order of NewRouter, and for every handler the permission its     *)
(* route demands and what it may reach.  A request carries the scope that  *)
(* row-level security will use: "" shows nothing, "*" everything, a shop   *)
(* that shop's rows.  Each middleware resolves the caller's access anew,   *)
(* so roles may change between two of them.  A request names its route     *)
(* when it is through the middleware of its group.                         *)
(***************************************************************************)
EXTENDS Naturals, FiniteSets

CONSTANTS
    GateShops, GateUsers,   \* tenants, accounts
    Nobody,                 \* the caller without a token
    GateWorkers,            \* goroutines that serve a request
    CustomPerms,            \* what the global custom role permits
    MaxGateCalls, MaxBindingChanges

VARIABLES
    gateRoles,      \* identity.role_bindings: [who, at, role]
    httpRequest,    \* the request of each worker
    lastAct,        \* history: the last thing a handler did, and for whom
    gateCalls, bindingChanges

gateVars == <<gateRoles, httpRequest, lastAct, gateCalls, bindingChanges>>

-----------------------------------------------------------------------------
\* The catalog of permissions, by the axis on which each is enforced, and of roles.
ShopPerms == {"tariffs.read", "tariffs.write", "customers.read", "customers.manage",
              "subscriptions.read", "subscriptions.manage", "billing.read", "plugins.read",
              "shop_settings.manage", "dashboard.read"}
PlatformPerms == {"users.read", "users.invite", "users.assign_role", "roles.read",
                  "roles.manage", "shops.read", "shops.manage", "shops.branding",
                  "billing.refund", "plugins.manage", "analytics.read", "sessions.read",
                  "settings.manage", "infra.read", "infra.manage", "billing.manage"}

SystemRoles ==
    [platform_admin |-> {}, customer |-> {}, custom |-> CustomPerms, shop_owner |-> ShopPerms,
     shop_staff |-> {"customers.read", "customers.manage", "subscriptions.read",
                     "tariffs.read", "billing.read", "plugins.read"}]

Binding == [who : GateUsers, at : GateShops, role : {"shop_owner", "shop_staff"}]
             \cup [who : GateUsers, at : {"global"}, role : {"platform_admin", "custom"}]

\* EffectiveAccess of Resolve, over bindings bs, and Can.
IsPlatformAdmin(bs, u) ==
    \E b \in bs : b.who = u /\ b.at = "global" /\ b.role = "platform_admin"
IsMember(bs, u, shop) == \E b \in bs : b.who = u /\ b.at = shop
Can(bs, u, tenant, p) ==
    \/ IsPlatformAdmin(bs, u)
    \/ \E b \in bs : /\ b.who = u /\ p \in SystemRoles[b.role]
                     /\ b.at = IF p \in ShopPerms THEN tenant ELSE "global"

-----------------------------------------------------------------------------
\* A route: the group it is registered in, the permission it needs ("" for none) and
\* what its handler reaches: nothing that belongs to anyone, the caller's own account
\* and rows, a row whose owner it compares with the caller, what the request names,
\* the active shop, whatever the scope shows, or the documents of a named plugin.
Route(group, need, reach) == [group |-> group, need |-> need, reach |-> reach]
Open(reach) == Route("public", "", reach)
Signed(reach) == Route("protected", "", reach)
Needs(p, reach) == Route("protected", p, reach)

Healthz == Route("outer", "", "nothing")
Readyz == Route("outer", "", "nothing")
Status == Open("nothing")
CreateAdmin == Open("nothing")
Register == Open("scope")
Login == Open("scope")
VerifyEmail == Open("scope")
RefreshToken == Open("scope")
WebAppLogin == Open("scope")
ForgotPassword == Open("scope")
ResetPassword == Open("scope")
AcceptInvitation == Open("scope")
HandlePaymentWebhook == Open("named")
GetPlans == Open("nothing")
GetPlan == Open("nothing")
PublicRoutes == {Healthz, Readyz, Status, CreateAdmin, Register, Login, VerifyEmail,
                 RefreshToken, WebAppLogin, ForgotPassword, ResetPassword, AcceptInvitation,
                 HandlePaymentWebhook, GetPlans, GetPlan}

Me == Signed("self")
UpdateProfile == Signed("self")
MyShops == Signed("self")
LinkTelegram == Signed("self")
UnlinkTelegram == Signed("self")
CreateSubscription == Signed("self")
GetMySubscriptions == Signed("self")
GetSubscription == Signed("owned")
CancelSubscription == Signed("owned")
GetBindingsBySubscription == Signed("owned")
AddSubscriptionAddon == Signed("owned")
RemoveSubscriptionAddon == Signed("owned")
StartCheckout == Signed("self")
GetInvoices == Signed("self")
PayInvoice == Signed("owned")
GetMyBindings == Signed("self")
CreateFamily == Signed("self")
GetMyFamily == Signed("self")
AddMember == Signed("named")
RemoveMember == Signed("named")
SelectNode == Signed("nothing")
CallFunction == Signed("plugin code")
ListDocuments == Signed("plugin documents")
GetDocument == Signed("plugin documents")
InsertDocument == Signed("plugin write")
UpdateDocument == Signed("plugin write")
DeleteDocument == Signed("plugin write")
SignedRoutes == {Me, UpdateProfile, MyShops, LinkTelegram, UnlinkTelegram, CreateSubscription,
                 GetMySubscriptions, GetSubscription, CancelSubscription,
                 GetBindingsBySubscription, AddSubscriptionAddon, RemoveSubscriptionAddon,
                 StartCheckout, GetInvoices, PayInvoice, GetMyBindings, CreateFamily,
                 GetMyFamily, AddMember, RemoveMember, SelectNode, CallFunction,
                 ListDocuments, GetDocument, InsertDocument, UpdateDocument, DeleteDocument}

CreateInvitation == Needs("users.invite", "named")
ListInvitations == Needs("users.invite", "scope")
RevokeInvitation == Needs("users.invite", "named")
CreateUserDirect == Needs("users.invite", "named")
AssignRole == Needs("users.assign_role", "named")
RevokeRole == Needs("users.assign_role", "named")
ListUserRoles == Needs("users.read", "named")
CreateCustomRole == Needs("roles.manage", "named")
ListCustomRoles == Needs("roles.read", "named")
UpdateCustomRole == Needs("roles.manage", "named")
DeleteCustomRole == Needs("roles.manage", "named")
ListPermissions == Needs("roles.read", "nothing")
AssignCustomRole == Needs("users.assign_role", "named")
ListPlugins == Needs("plugins.manage", "nothing")
InstallPlugin == Needs("plugins.manage", "named")
GetPlugin == Needs("plugins.manage", "named")
EnablePlugin == Needs("plugins.manage", "named")
DisablePlugin == Needs("plugins.manage", "named")
UninstallPlugin == Needs("plugins.manage", "named")
UpdatePluginConfig == Needs("plugins.manage", "named")
HotReloadPlugin == Needs("plugins.manage", "named")
ListPluginPages == Needs("plugins.read", "nothing")
ListUsers == Needs("users.read", "scope")
GetUser == Needs("users.read", "named")
ListSubscriptions == Needs("analytics.read", "scope")
ListInvoices == Needs("analytics.read", "scope")
GetSettings == Needs("settings.manage", "nothing")
UpdateSettings == Needs("settings.manage", "nothing")
GetStats == Needs("analytics.read", "scope")
GetMetrics == Needs("analytics.read", "scope")
GetMetricsHistory == Needs("analytics.read", "scope")
ListSessions == Needs("sessions.read", "scope")
ListActivity == Needs("sessions.read", "scope")
CreateShop == Needs("shops.manage", "named")
CreateTenant == Needs("shops.manage", "named")
ListTenants == Needs("shops.read", "scope")
GetTenant == Needs("shops.read", "named")
UpdateBranding == Needs("shops.branding", "named")
GetTenantBot == Needs("shops.read", "named")
UpdateTenantBot == Needs("shops.manage", "named")
ListBotPlugins == {Needs("shops.read", "nothing"), Needs("shop_settings.manage", "nothing")}
Dashboard == Needs("dashboard.read", "shop")
Commissions == Needs("billing.read", "shop")
Customers == Needs("customers.read", "shop")
SetResellerBot == Needs("shop_settings.manage", "shop")
GetResellerBot == Needs("shop_settings.manage", "shop")
GuardedRoutes == {CreateInvitation, ListInvitations, RevokeInvitation, CreateUserDirect,
                  AssignRole, RevokeRole, ListUserRoles, CreateCustomRole, ListCustomRoles,
                  UpdateCustomRole, DeleteCustomRole, ListPermissions, AssignCustomRole,
                  ListPlugins, InstallPlugin, GetPlugin, EnablePlugin, DisablePlugin,
                  UninstallPlugin, UpdatePluginConfig, HotReloadPlugin, ListPluginPages,
                  ListUsers, GetUser, ListSubscriptions, ListInvoices, GetSettings,
                  UpdateSettings, GetStats, GetMetrics, GetMetricsHistory, ListSessions,
                  ListActivity, CreateShop, CreateTenant, ListTenants, GetTenant,
                  UpdateBranding, GetTenantBot, UpdateTenantBot, Dashboard, Commissions,
                  Customers, SetResellerBot, GetResellerBot} \cup ListBotPlugins

\* The routes of the enabled plugins, outside /api: open ones, ones for any account and
\* ones with a permission, "plugins.manage" unless the manifest names another.
PluginRoutes == {Route("outer", "", "plugin code"), Route("outer protected", "", "plugin code")}
                  \cup {Route("outer protected", p, "plugin code") :
                          p \in {"plugins.manage", "tariffs.write", "infra.manage"}}

Routes == PublicRoutes \cup SignedRoutes \cup GuardedRoutes \cup PluginRoutes

-----------------------------------------------------------------------------
NoRequest == [pc |-> "none"]
NoAct == [who |-> Nobody]

GateInit ==
    /\ \E b \in Binding : gateRoles = {b}
    /\ httpRequest = [g \in GateWorkers |-> NoRequest]
    /\ lastAct = NoAct
    /\ gateCalls = 0 /\ bindingChanges = 0

Move(g, r) == httpRequest' = [httpRequest EXCEPT ![g] = r]
Reply(g) == Move(g, NoRequest)
Keep == UNCHANGED <<gateRoles, lastAct, gateCalls, bindingChanges>>

\* A request arrives: its token, the shop its key or host belongs to, and X-Shop-Id.
Receive(g, who, group, storefront, header) ==
    /\ httpRequest[g] = NoRequest
    /\ gateCalls < MaxGateCalls
    /\ gateCalls' = gateCalls + 1
    /\ Move(g, [pc |-> "tenant", who |-> who, group |-> group, storefront |-> storefront,
                header |-> header, scope |-> "", seen |-> gateRoles])
    /\ UNCHANGED <<gateRoles, lastAct, bindingChanges>>

\* TenantResolver and TenantRLS, under /api only.  The shop of an API key or of a host
\* is known unless the key is wrong or the shop inactive.
TenantResolver(g) ==
    /\ httpRequest[g].pc = "tenant"
    /\ LET api == httpRequest[g].group \in {"public", "protected"}
           scope == IF api THEN httpRequest[g].storefront ELSE ""
           next == IF httpRequest[g].group \in {"public", "outer"} THEN "route" ELSE "auth"
       IN \/ Move(g, [httpRequest[g] EXCEPT !.pc = next, !.scope = scope])
          \/ api /\ httpRequest[g].storefront # "" /\ Reply(g)                          \* 401
          \/ api /\ httpRequest[g].storefront # "" /\ Move(g, [httpRequest[g] EXCEPT !.pc = next])
    /\ Keep

\* Auth: a bearer token that verifies.
Auth(g) ==
    /\ httpRequest[g].pc = "auth"
    /\ IF httpRequest[g].who = Nobody THEN Reply(g) ELSE Move(g, [httpRequest[g] EXCEPT !.pc = "shop"])
    /\ Keep

\* Mutant: whoever names a shop gets it.
ShopResolverAny(g) ==
    LET r == httpRequest[g] IN
    /\ r.pc = "shop"
    /\ IF r.header = "bad" THEN Reply(g)
       ELSE Move(g, [r EXCEPT !.pc = "route",
                              !.scope = IF r.header = "" THEN @ ELSE r.header])
    /\ Keep

\* ShopResolver: a shop that is named must be an identifier, and the caller a member of
\* it or a platform administrator; an administrator who names none sees every shop, and
\* for anyone else the storefront's scope stays.
ShopResolver(g) ==
    LET r == httpRequest[g]
        admin == IsPlatformAdmin(gateRoles, r.who)
    IN /\ r.pc = "shop"
       /\ \/ /\ r.header = ""
             /\ Move(g, [r EXCEPT !.pc = "route", !.scope = IF admin THEN "*" ELSE @])
          \/ r.header = "bad" /\ Reply(g)                                             \* 400
          \/ /\ r.header \in GateShops
             /\ IF admin \/ IsMember(gateRoles, r.who, r.header)
                THEN Move(g, [r EXCEPT !.pc = "route", !.scope = r.header])
                ELSE Reply(g)                                                         \* 403
       /\ Keep

\* RequirePermission of the route, with the tenant of the scope.
RequirePermission(g, op) ==
    LET r == httpRequest[g]
    IN /\ r.pc = "route" /\ op.group = r.group
       /\ IF op.need = "" \/ Can(gateRoles, r.who, r.scope, op.need)
          THEN Move(g, [pc |-> "handle", op |-> op, who |-> r.who, scope |-> r.scope,
                        storefront |-> r.storefront, seen |-> r.seen])
          ELSE Reply(g)
       /\ Keep

\* What a handler with reach may get at.  A shop's handlers refuse a request without an
\* active tenant; a plugin must be enabled, and the documents of a built-in one are
\* written by its own routes only (verifyPluginEnabled, denyBuiltInCollectionWrite).
Targets(r) ==
    CASE r.op.reach \in {"self", "owned"} -> {r.who}
      [] r.op.reach = "shop" -> {r.scope} \ {""}
      [] r.op.reach = "scope" -> {r.scope}
      [] r.op.reach = "named" -> GateUsers \cup GateShops
      [] r.op.reach \in {"plugin documents", "plugin code"} -> {"wasm", "builtin"}
      [] r.op.reach = "plugin write" -> {"wasm"}
      [] OTHER -> {"nothing"}

Handle(g, target) ==
    LET r == httpRequest[g]
    IN /\ r.pc = "handle" /\ target \in Targets(r)
       /\ lastAct' = [who |-> r.who, op |-> r.op, scope |-> r.scope, target |-> target,
                      storefront |-> r.storefront, seen |-> r.seen]
       /\ Reply(g)
       /\ UNCHANGED <<gateRoles, gateCalls, bindingChanges>>

\* Any check of a handler, an error of the access service or a limit of the rates.
WriteError(g) ==
    /\ httpRequest[g] # NoRequest
    /\ Reply(g)
    /\ Keep

\* Roles are granted and revoked meanwhile (AccessControl).
ChangeBinding(b) ==
    /\ bindingChanges < MaxBindingChanges
    /\ bindingChanges' = bindingChanges + 1
    /\ gateRoles' = IF b \in gateRoles THEN gateRoles \ {b} ELSE gateRoles \cup {b}
    /\ httpRequest' = [g \in GateWorkers |->
         IF httpRequest[g] = NoRequest THEN NoRequest
                                   ELSE [httpRequest[g] EXCEPT !.seen = @ \cup gateRoles']]
    /\ UNCHANGED <<lastAct, gateCalls>>

GateNext ==
    \/ \E b \in Binding : ChangeBinding(b)
    \/ \E g \in GateWorkers :
         \/ \E who \in GateUsers \cup {Nobody},
               group \in {"public", "protected", "outer", "outer protected"},
               storefront \in GateShops \cup {""}, header \in GateShops \cup {"", "bad"} :
              Receive(g, who, group, storefront, header)
         \/ TenantResolver(g) \/ Auth(g) \/ ShopResolver(g)
         \/ \E op \in Routes : RequirePermission(g, op)
         \/ \E target \in GateUsers \cup GateShops \cup {"*", "", "wasm", "builtin", "nothing"} :
              Handle(g, target)
         \/ WriteError(g)

GateSpec == GateInit /\ [][GateNext]_gateVars

-----------------------------------------------------------------------------
\* rbac.go: whatever roles change while a request is under way, what its handler did was
\* within what the caller held at some moment of the request: the permission of the
\* route in the very scope the rows are read with, the whole platform only for an
\* administrator, a shop only for its members or through its own storefront, its own
\* rows where the handler compares owners, and never a built-in plugin's documents
\* through the generic routes.
RequestsInBounds ==
    lastAct # NoAct =>
        LET a == lastAct
            admin == IsPlatformAdmin(a.seen, a.who)
        IN /\ a.op.need # "" => Can(a.seen, a.who, a.scope, a.op.need)
           /\ a.scope = "*" => admin
           /\ a.scope \in GateShops =>
                admin \/ a.scope = a.storefront \/ IsMember(a.seen, a.who, a.scope)
           /\ a.op.reach \in {"self", "owned"} => a.target = a.who
           /\ a.op.reach = "shop" => a.scope # ""
           /\ a.op.reach = "plugin write" => a.target # "builtin"
=============================================================================
