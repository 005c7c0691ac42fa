---------------------------- MODULE VPNProviders ----------------------------
(***************************************************************************)
(* The two ways to the VPN panel: the built-in Remnawave client            *)
(* (adapter/remnawave: client.go, circuit_breaker.go, gateway_adapter.go)  *)
(* and the plugin-backed provider (adapter/plugin: vpn_provider.go,        *)
(* vpn_http_executor.go) with the plugin it was written for                *)
(* (plugins/remnawave-provider/main.go).  The plugin builds the request    *)
(* and reads the answer; the host sends it.  Either way the call goes      *)
(* through one circuit breaker.                                            *)
(*                                                                         *)
(* A user of the panel is active, disabled or absent.  The call that fails *)
(* after the panel acted is what the sagas above have to live with.        *)
(***************************************************************************)
EXTENDS Naturals, FiniteSets

CONSTANTS
    VPNUsers,           \* users the panel may come to know
    VPNCallers,         \* goroutines of the sagas
    MaxBreakerFailures, \* MaxFailures of the breaker
    MaxProbes,          \* MaxRequests: calls a half-open breaker admits
    MaxVPNCalls, MaxVPNFaults, MaxPluginSwitches

VARIABLES
    backend,        \* "client" or "plugin"
    envelope,       \* how the panel wraps a user: "response" or "data"
    handled,        \* the provider plugin's hooks are registered
    vpnUser,        \* the panel's users
    vpnBreaker,
    vpnCall,        \* what each caller is doing
    answered,       \* history: what the last caller was told, and what had been done
    vpnCalls, vpnFaults, pluginSwitches

vpnVars == <<backend, envelope, handled, vpnUser, vpnBreaker, vpnCall, answered, vpnCalls,
             vpnFaults, pluginSwitches>>
vpnBounds == <<vpnCalls, vpnFaults, pluginSwitches>>

NoUser == "none"
NoCall == [pc |-> "idle"]
StateChanges == {"delete", "enable", "disable"}

VPNInit ==
    /\ backend \in {"client", "plugin"}
    /\ envelope \in {"response", "data"}
    /\ backend = "client" => envelope = "response"
    /\ handled = TRUE
    /\ vpnUser \in [VPNUsers -> {"absent", "active"}]
    /\ \E st \in {"closed", "half-open"} :   \* after earlier calls
         vpnBreaker = [st |-> st, fails |-> 0, gen |-> 0, admitted |-> 0, passed |-> 0]
    /\ vpnCall = [c \in VPNCallers |-> NoCall]
    /\ answered = {}
    /\ vpnCalls = 0 /\ vpnFaults = 0 /\ pluginSwitches = 0

-----------------------------------------------------------------------------
\* The plugin is switched on or off by an administrator at any time.
SwitchPlugin ==
    /\ backend = "plugin"
    /\ pluginSwitches < MaxPluginSwitches
    /\ pluginSwitches' = pluginSwitches + 1
    /\ handled' = ~handled
    /\ UNCHANGED <<backend, envelope, vpnUser, vpnBreaker, vpnCall, answered, vpnCalls, vpnFaults>>

\* The first hook builds the request.  A hook nobody handles passes its payload through,
\* which holds no request: the host then sends an empty one to the panel's root.
Request(op) == IF backend = "plugin" /\ ~handled THEN "root" ELSE op

BeginCall(c, op, u) ==
    /\ vpnCall[c] = NoCall
    /\ vpnCalls < MaxVPNCalls
    /\ vpnCalls' = vpnCalls + 1
    /\ vpnCall' = [vpnCall EXCEPT ![c] =
         [pc |-> "send", op |-> op, user |-> u, request |-> Request(op), acted |-> FALSE,
          made |-> NoUser, status |-> "unsent", gen |-> 0]]
    /\ answered' = {}
    /\ UNCHANGED <<backend, envelope, handled, vpnUser, vpnBreaker, vpnFaults, pluginSwitches>>

\* The five operations, of GatewayAdapter and of pluginVPNProvider.  The defaults for the
\* squads and the expiry of a new user are left out.
GatewayAdapter(c) ==
    /\ backend = "client"
    /\ \/ BeginCall(c, "create", NoUser)
       \/ \E op \in StateChanges \cup {"get"}, u \in VPNUsers : BeginCall(c, op, u)

CreateUser(c) == backend = "plugin" /\ BeginCall(c, "create", NoUser)
GetUser(c, u) == backend = "plugin" /\ BeginCall(c, "get", u)
DeleteUser(c, u) == backend = "plugin" /\ BeginCall(c, "delete", u)
EnableUser(c, u) == backend = "plugin" /\ BeginCall(c, "enable", u)
DisableUser(c, u) == backend = "plugin" /\ BeginCall(c, "disable", u)

-----------------------------------------------------------------------------
\* The breaker: gobreaker with the settings of pkg/circuitbreaker.
Generation(b, st) == [st |-> st, fails |-> 0, gen |-> b.gen + 1, admitted |-> 0, passed |-> 0]

Admits(b) == b.st = "closed" \/ (b.st = "half-open" /\ b.admitted < MaxProbes)

AfterCall(b, gen, ok) ==
    IF b.gen # gen THEN b
    ELSE IF ok
    THEN IF b.st = "half-open" /\ b.passed + 1 >= MaxProbes
         THEN Generation(b, "closed")
         ELSE [b EXCEPT !.fails = 0, !.passed = @ + 1]
    ELSE IF b.st = "half-open" \/ b.fails + 1 >= MaxBreakerFailures
         THEN Generation(b, "open")
         ELSE [b EXCEPT !.fails = @ + 1, !.passed = 0]

BreakerWaits ==
    /\ vpnBreaker.st = "open"
    /\ vpnBreaker' = Generation(vpnBreaker, "half-open")
    /\ UNCHANGED <<backend, envelope, handled, vpnUser, vpnCall, answered, vpnBounds>>

-----------------------------------------------------------------------------
\* What a caller is told, beside what was really done.
Tell(c, ok, uuid) ==
    /\ answered' =
         {[op |-> vpnCall[c].op, ok |-> ok, uuid |-> uuid,
           acted |-> vpnCall[c].acted, made |-> vpnCall[c].made, status |-> vpnCall[c].status,
           parsed |-> handled]}
    /\ vpnCall' = [vpnCall EXCEPT ![c] = NoCall]

ThroughBreaker(c) ==
    /\ vpnCall[c].pc = "send"
    /\ IF Admits(vpnBreaker)
       THEN /\ vpnBreaker' = [vpnBreaker EXCEPT !.admitted = @ + 1]
            /\ vpnCall' = [vpnCall EXCEPT ![c].pc = "panel", ![c].gen = vpnBreaker.gen]
            /\ UNCHANGED answered
       ELSE Tell(c, FALSE, NoUser) /\ UNCHANGED vpnBreaker
    /\ UNCHANGED <<backend, envelope, handled, vpnUser, vpnBounds>>

cbExec(c) == backend = "client" /\ ThroughBreaker(c)
Execute(c) == backend = "plugin" /\ ThroughBreaker(c)

\* The panel: refuses what it cannot do, and does the rest.
CanDo(request, u) ==
    CASE request = "root" -> TRUE
      [] request = "create" -> \E v \in VPNUsers : vpnUser[v] = "absent"
      [] OTHER -> vpnUser[u] # "absent"

Becomes(request, v) ==
    CASE request = "delete" -> "absent"
      [] request = "create" -> "active"
      [] request = "enable" -> "active"
      [] request = "disable" -> "disabled"
      [] OTHER -> vpnUser[v]

\* The user a request is about: for a creation, one the panel makes.
Subject(request, u) ==
    IF request = "create" THEN {v \in VPNUsers : vpnUser[v] = "absent"}
    ELSE IF request = "root" THEN {NoUser} ELSE {u}

Answer(c, status, acted, v) ==
    /\ vpnCall' = [vpnCall EXCEPT ![c].pc = "answer", ![c].status = status, ![c].acted = acted,
                                  ![c].made = IF vpnCall[c].request = "create" /\ acted
                                              THEN v ELSE NoUser]
    /\ vpnUser' = IF acted THEN [vpnUser EXCEPT ![v] = Becomes(vpnCall[c].request, v)] ELSE vpnUser
    /\ UNCHANGED <<backend, envelope, handled, vpnBreaker, answered, vpnCalls, pluginSwitches>>

\* Faults: a status of 500, an answer or a request that is lost, a body cut short.
PanelAnswers(c) ==
    LET request == vpnCall[c].request  u == vpnCall[c].user IN
    /\ vpnCall[c].pc = "panel"
    /\ IF CanDo(request, u)
       THEN \E v \in Subject(request, u) : Answer(c, "ok", v # NoUser, v)
       ELSE Answer(c, "refused", FALSE, NoUser)
    /\ UNCHANGED vpnFaults

PanelFails(c) ==
    LET request == vpnCall[c].request  u == vpnCall[c].user IN
    /\ vpnCall[c].pc = "panel"
    /\ vpnFaults < MaxVPNFaults
    /\ vpnFaults' = vpnFaults + 1
    /\ \/ Answer(c, "error", FALSE, NoUser)
       \/ Answer(c, "lost", FALSE, NoUser)
       \/ /\ request # "root" /\ CanDo(request, u)
          /\ \E v \in Subject(request, u), status \in {"lost", "garbled"} : Answer(c, status, TRUE, v)

-----------------------------------------------------------------------------
\* client.do: a status that is not 2xx is an error, and so is a body that cannot be
\* decoded, where one is asked for.  All of it counts for the breaker.
isHTTPSuccess(status) == status \in {"ok", "garbled"}
Decodes(op, status) == op \in StateChanges \/ status = "ok"

Client(c) ==
    LET k == vpnCall[c]
        ok == isHTTPSuccess(k.status) /\ Decodes(k.op, k.status)
    IN
    /\ backend = "client" /\ k.pc = "answer"
    /\ vpnBreaker' = AfterCall(vpnBreaker, k.gen, ok)
    /\ Tell(c, ok, IF ok THEN k.made ELSE NoUser)
    /\ UNCHANGED <<backend, envelope, handled, vpnUser, vpnBounds>>

\* doRequest: whatever status comes back is a success.  A state change ends there; a
\* creation and a read go on to the second hook.
doRequest(c) ==
    LET k == vpnCall[c]  came == k.status # "lost" IN
    /\ backend = "plugin" /\ k.pc = "answer"
    /\ vpnBreaker' = AfterCall(vpnBreaker, k.gen, came)
    /\ IF came /\ k.op \notin StateChanges
       THEN vpnCall' = [vpnCall EXCEPT ![c].pc = "parse"] /\ UNCHANGED answered
       ELSE Tell(c, came, NoUser)
    /\ UNCHANGED <<backend, envelope, handled, vpnUser, vpnBounds>>

\* The plugin wants {success, data} with a user.
handleUserFetched(k) == k.status = "ok" /\ k.request # "root" /\ envelope = "data"

\* A hook nobody handles passes the answer through, in which no user is found: a success
\* with an empty UUID.
parseUserResponse(c) ==
    LET k == vpnCall[c]  reads == handled /\ handleUserFetched(k) IN
    /\ k.pc = "parse"
    /\ Tell(c, ~handled \/ reads, IF reads THEN k.made ELSE NoUser)
    /\ UNCHANGED <<backend, envelope, handled, vpnUser, vpnBreaker, vpnBounds>>

VPNNext ==
    \/ \E c \in VPNCallers :
         \/ GatewayAdapter(c) \/ CreateUser(c)
         \/ \E u \in VPNUsers : GetUser(c, u) \/ DeleteUser(c, u) \/ EnableUser(c, u) \/ DisableUser(c, u)
         \/ cbExec(c) \/ Execute(c) \/ PanelAnswers(c) \/ PanelFails(c)
         \/ Client(c) \/ doRequest(c) \/ parseUserResponse(c)
    \/ SwitchPlugin \/ BreakerWaits

-----------------------------------------------------------------------------
\* gateway_adapter.go: through the client a success means that the panel did it, and that
\* the caller of a creation has the new user's UUID.  The plugin-backed provider promises
\* less: a state change may have been refused by the panel or, if its hook was not handled,
\* not been asked for; what the second hook did not read has no UUID.
SuccessMeansDone ==
    \A a \in answered : a.ok =>
        /\ backend = "client" \/ (a.op \notin StateChanges /\ a.parsed) =>
             a.acted /\ a.uuid = a.made /\ (a.op = "create" => a.made # NoUser)
        /\ backend = "plugin" => a.status # "lost"

\* A failed call left the panel as it was, or its answer was lost or could not be read:
\* only then does a saga that runs again do the work twice.
FailureIsClean ==
    \A a \in answered : ~a.ok /\ a.acted /\ a.op # "get" =>
        a.status \in {"lost", "garbled"} \/ (backend = "plugin" /\ envelope = "response")

\* circuit_breaker.go: a half-open breaker tests with no more calls than it may, and
\* answers of the panel, whatever they say, never open the breaker of the plugin's executor.
ProbesBounded ==
    /\ vpnBreaker.st = "half-open" =>
         Cardinality({c \in VPNCallers : /\ vpnCall[c].pc \in {"panel", "answer"}
                                         /\ vpnCall[c].gen = vpnBreaker.gen}) <= MaxProbes
    /\ vpnBreaker.st = "open" /\ backend = "plugin" => vpnFaults > 0

ProvidersSafe == SuccessMeansDone /\ FailureIsClean /\ ProbesBounded
=============================================================================
