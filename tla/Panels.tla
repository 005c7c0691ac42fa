-------------------------------- MODULE Panels --------------------------------
(***************************************************************************)
(* The built-in remnawave-provider (internal/builtin/remnawave): the       *)
(* documents of the VPN panels an installation manages, and the handlers   *)
(* that act on a panel.  Every such handler reads the panel's document,    *)
(* makes a client of its address and token and then calls the panel, so    *)
(* the document may have changed by the time of the call.  Removing a      *)
(* panel and putting it into maintenance read the document and write it    *)
(* back whole.  A request chooses its handler at the call: the handlers    *)
(* differ only from there on.                                              *)
(***************************************************************************)
EXTENDS Integers, Sequences, FiniteSets

CONSTANTS
    PanelUsers,     \* goroutines with a request
    RulePriorities, \* priorities a routing rule may have
    LegacyPanel,    \* the number of the panel the plugin's own settings name; 0: none
    MaxPanels,      \* bounds on the panels, the requests and the routing rules
    MaxPanelCalls, MaxGeoRules

VARIABLES
    panels,         \* documents of panel_connections, oldest first: [status, token]
    holds,          \* what each panel holds: resource |-> "on", "off" or "gone"
    panelCall,           \* what each goroutine is doing
    geoRules,       \* documents of geo_routing_rules, oldest first
    driftEvent,     \* the status of a drift event's document
    report,         \* the last answer of BulkNodeAction
    removed,        \* history: panels DeletePanel disabled and nobody has put back since
    rivalled,        \* history: panels whose document two requests changed at once
    reached,        \* history: panels called through a client made after their removal
    lastToken,      \* history: the token last given for each panel
    panelCalls

panelVars == <<panels, holds, panelCall, geoRules, driftEvent, report, removed, rivalled, reached,
               lastToken, panelCalls>>
docHistory == <<removed, rivalled, lastToken>>
settingsVars == <<geoRules, driftEvent>>

Resources == {"user", "device", "node1", "node2", "squad", "external", "host", "profile", "filter"}
Nodes == {"node1", "node2"}
Resting == [pc |-> "rest"]
NoReport == [to |-> "", ok |-> {}, panel |-> 0]

\* The token the panel knows; ListPanels shows stars in its place.
RealToken == "secret"
MaskToken(token) == "masked"

\* validatePanelConnectionInput: the four statuses, and some token.
PanelInput ==
    [status : {"active", "readonly", "disabled", "maintenance"}, token : {RealToken}]
        \cup [status : {"active"}, token : {MaskToken(RealToken)}]

PanelInit ==
    /\ panels = <<[status |-> "active", token |-> RealToken]>>
    /\ holds = [i \in 1 .. MaxPanels |-> [r \in Resources |-> "on"]]
    /\ panelCall = [g \in PanelUsers |-> Resting]
    /\ geoRules = <<>>
    /\ driftEvent = "open"
    /\ report = NoReport
    /\ removed = {} /\ rivalled = {} /\ reached = {}
    /\ lastToken = <<RealToken>>
    /\ panelCalls = 0

BeginPanelCall(g, c) ==
    /\ panelCall[g] = Resting /\ panelCalls < MaxPanelCalls
    /\ panelCalls' = panelCalls + 1
    /\ panelCall' = [panelCall EXCEPT ![g] = c]

\* A request that reads and writes nothing but one document.
Atomic(g) ==
    /\ panelCall[g] = Resting /\ panelCalls < MaxPanelCalls
    /\ panelCalls' = panelCalls + 1
    /\ UNCHANGED <<panelCall, holds, report, reached>>

-----------------------------------------------------------------------------
CreatePanel(g, input) ==
    /\ Atomic(g)
    /\ Len(panels) < MaxPanels
    /\ panels' = Append(panels, input)
    /\ lastToken' = Append(lastToken, input.token)
    /\ UNCHANGED <<removed, rivalled, settingsVars>>

\* A request that has read panel i and will write its document back.
Rewrites(o, i) == panelCall[o].pc = "rewrite" /\ panelCall[o].panel = i

\* The whole document is replaced, the token included.
UpdatePanel(g, i, input) ==
    /\ Atomic(g)
    /\ panels' = [panels EXCEPT ![i] = input]
    /\ lastToken' = [lastToken EXCEPT ![i] = input.token]
    /\ removed' = removed \ {i}
    /\ rivalled' = IF \E o \in PanelUsers : Rewrites(o, i) THEN rivalled \cup {i} ELSE rivalled
    /\ UNCHANGED settingsVars

\* GetDocument of DeletePanel (to = "disabled") and of SetPanelMaintenance.
ReadPanel(g, i, to) ==
    /\ BeginPanelCall(g, [pc |-> "rewrite", panel |-> i, to |-> to, doc |-> panels[i],
                 over |-> i \in removed])
    /\ UNCHANGED <<panels, holds, report, reached, docHistory, settingsVars>>

\* UpdateDocument with the document read and the new status.
WritePanel(g, to) ==
    LET c == panelCall[g]
        others == \E o \in PanelUsers \ {g} : Rewrites(o, c.panel)
    IN /\ c.pc = "rewrite" /\ c.to = to
       /\ panels' = [panels EXCEPT ![c.panel] = [c.doc EXCEPT !.status = to]]
       /\ rivalled' = IF others THEN rivalled \cup {c.panel} ELSE rivalled
       /\ panelCall' = [panelCall EXCEPT ![g] = Resting]
       /\ UNCHANGED <<holds, report, reached, lastToken, settingsVars, panelCalls>>

\* Soft: the document stays.
DeletePanel(g) ==
    /\ WritePanel(g, "disabled")
    /\ removed' = removed \cup {panelCall[g].panel}

\* A request that was made after the removal puts the panel back.
SetPanelMaintenance(g) ==
    /\ WritePanel(g, "maintenance")
    /\ removed' = IF panelCall[g].over THEN removed \ {panelCall[g].panel} ELSE removed

-----------------------------------------------------------------------------
\* Mutant: every panel that is known will do.
UsableAny(i) == i \in DOMAIN panels

\* The check of buildClientForPanel.
Usable(i) == i \in DOMAIN panels /\ panels[i].status # "disabled"

\* buildClientForPanel.
BuildClientForPanel(g, i) ==
    /\ Usable(i)
    /\ BeginPanelCall(g, [pc |-> "client", todo |-> {i}, panel |-> i, token |-> panels[i].token,
                 late |-> removed \cap {i}])
    /\ UNCHANGED <<panels, holds, report, reached, docHistory, settingsVars>>

\* buildDefaultClient: the newest active panel, or the one of the plugin's settings.
BuildDefaultClient ==
    LET actives == {i \in DOMAIN panels : panels[i].status = "active"}
    IN IF actives # {} THEN {CHOOSE i \in actives : \A j \in actives : j <= i}
                       ELSE {LegacyPanel} \ {0}

\* getAllPanelClients, for the lists over all panels.
GetAllPanelClients ==
    LET listed == {i \in DOMAIN panels : panels[i].status \in {"active", "readonly"}}
    IN IF listed # {} THEN listed ELSE BuildDefaultClient

\* The lists and the dashboard make their clients first and then visit one panel
\* after the other; the client of the settings is not counted as a late one.
Tour(g) ==
    /\ GetAllPanelClients # {}
    /\ BeginPanelCall(g, [pc |-> "tour", todo |-> GetAllPanelClients,
                          late |-> removed \ {LegacyPanel}])
    /\ UNCHANGED <<panels, holds, report, reached, docHistory, settingsVars>>

GetDashboardOverview(g) == Tour(g)
GetDashboardRealtime(g) == Tour(g)
GetTrafficTopUsers(g) == Tour(g)
GetTrafficByNode(g) == Tour(g)
GetTrafficByCountry(g) == Tour(g)
GetHWIDDistribution(g) == Tour(g)
SearchUsers(g) == Tour(g)
ListNodes(g) == Tour(g)
ListHosts(g) == Tour(g)
ListInternalSquads(g) == Tour(g)
ListExternalSquads(g) == Tour(g)
ListSubscriptionPageConfigs(g) == Tour(g)

StartTour(g) ==
    \/ GetDashboardOverview(g) \/ GetDashboardRealtime(g) \/ GetTrafficTopUsers(g)
    \/ GetTrafficByNode(g) \/ GetTrafficByCountry(g) \/ GetHWIDDistribution(g)
    \/ SearchUsers(g) \/ ListNodes(g) \/ ListHosts(g) \/ ListInternalSquads(g)
    \/ ListExternalSquads(g) \/ ListSubscriptionPageConfigs(g)

\* One visit of the loop; a panel that does not answer is passed over.
VisitPanel(g, i) ==
    /\ panelCall[g].pc = "tour" /\ i \in panelCall[g].todo
    /\ LET left == panelCall[g].todo \ {i}
       IN panelCall' = [panelCall EXCEPT ![g] = IF left = {} THEN Resting ELSE [@ EXCEPT !.todo = left]]
    /\ reached' = reached \cup (panelCall[g].late \cap {i})
    /\ UNCHANGED <<panels, holds, report, docHistory, settingsVars, panelCalls>>

-----------------------------------------------------------------------------
\* What a handler has the panel do: bring resource r, if it is in one of the states
\* from, to state to; "same" where the change is one of content only.
Effect(r, from, to) == [on |-> r, from |-> from, to |-> to]
Present == {"on", "off"}

EnableUser == Effect("user", Present, "on")
DisableUser == Effect("user", Present, "off")
DeleteUser == Effect("user", Present, "gone")
UpdatePanelUser == Effect("user", Present, "same")
ResetUserTraffic == Effect("user", Present, "same")
RevokeUserSubscription == Effect("user", Present, "same")
DisconnectUser == Effect("user", Present, "same")
UpsertUserMetadata == Effect("user", Present, "same")
CreateHWIDDevice == Effect("device", {"gone"}, "on")
DeleteUserHWID == Effect("device", Present, "gone")
DeleteAllUserHWID == Effect("device", Present, "gone")

\* Only users that are disabled, expired or limited can be deleted by status.
BulkDeleteUsersByStatus == Effect("user", {"off"}, "gone")
BulkDeleteUsers == Effect("user", Present, "gone")
BulkUpdateUsers == Effect("user", Present, "same")
BulkResetTraffic == Effect("user", Present, "same")
BulkRevokeSubscription == Effect("user", Present, "same")
BulkUpdateSquads == Effect("user", Present, "same")
BulkExtendExpiration == Effect("user", Present, "same")
BulkUpdateAllUsers == Effect("user", Present, "same")
BulkResetAllTraffic == Effect("user", Present, "same")
BulkExtendAllExpiration == Effect("user", Present, "same")

CreateNode == Effect("node1", {"gone"}, "on")
EnableNode == Effect("node1", Present, "on")
DisableNode == Effect("node1", Present, "off")
DeleteNode == Effect("node1", Present, "gone")
UpdateNode == Effect("node1", Present, "same")
RestartNode == Effect("node1", Present, "same")
ResetNodeTraffic == Effect("node1", Present, "same")
RestartAllNodes == Effect("node1", Present, "same")
ReorderNodes == Effect("node1", Present, "same")
UpsertNodeMetadata == Effect("node1", Present, "same")

CreateSquad == Effect("squad", {"gone"}, "on")
UpdateSquad == Effect("squad", Present, "same")
DeleteSquad == Effect("squad", Present, "gone")
\* The nodes are handed to the panel as users of the squad.
AddNodesToSquad == Effect("squad", Present, "same")
RemoveNodesFromSquad == Effect("squad", Present, "same")
ReorderSquad == Effect("squad", Present, "same")
CreateExternalSquad == Effect("external", {"gone"}, "on")
UpdateExternalSquad == Effect("external", Present, "same")
DeleteExternalSquad == Effect("external", Present, "gone")
AddUsersToExternalSquad == Effect("external", Present, "same")
RemoveUsersFromExternalSquad == Effect("external", Present, "same")
ReorderExternalSquads == Effect("external", Present, "same")

CreateHost == Effect("host", {"gone"}, "on")
UpdateHost == Effect("host", Present, "same")
DeleteHost == Effect("host", Present, "gone")
ReorderHosts == Effect("host", Present, "same")
\* One call for all hosts of the list, with one of three actions.
BulkHostAction == {Effect("host", Present, to) : to \in {"on", "off", "gone"}}
CreateConfigProfile == Effect("profile", {"gone"}, "on")
UpdateConfigProfile == Effect("profile", Present, "same")
DeleteConfigProfile == Effect("profile", Present, "gone")
ReorderConfigProfiles == Effect("profile", Present, "same")
CreateNodePlugin == Effect("filter", {"gone"}, "on")
CloneNodePlugin == Effect("filter", Present, "same")
UpdateNodePlugin == Effect("filter", Present, "same")
DeleteNodePlugin == Effect("filter", Present, "gone")
ReorderNodePlugins == Effect("filter", Present, "same")

\* Handlers that only read from their panel.
Look(r) == Effect(r, Present, "same")
TestPanel == Look("node1")
GetPanelStats == Look("node1")
GetUser == Look("user")
GetUserSessions == Look("user")
GetUserHWID == Look("device")
GetUserSubscriptionURL == Look("user")
GetUserTags == Look("user")
GetUserBandwidth == Look("user")
GetIPFetchResult == Look("user")
ListAllHWIDDevices == Look("device")
GetUserMetadata == Look("user")
GetNodeMetadata == Look("node1")
ListSubscriptions == Look("user")
GetSubscriptionByUUID == Look("user")
GetSubscriptionByShortUUID == Look("user")
GetSubscriptionByUsername == Look("user")
GetNode == Look("node1")
GetNodeStats == Look("node1")
GetNodeUsers == Look("node1")
GetNodeTags == Look("node1")
GetSystemInfo == Look("node1")
FetchNodeUsersIPs == Look("node1")
GetFetchNodeUsersIPsResult == Look("node1")
GetSquadByUUID == Look("squad")
GetSquadNodes == Look("squad")
GetHost == Look("host")
GetHostTags == Look("host")
ListConfigProfiles == Look("profile")
GetConfigProfile == Look("profile")
GetConfigProfileInbounds == Look("profile")
GetAllInbounds == Look("profile")
ListNodePlugins == Look("filter")
GetNodePlugin == Look("filter")

Effects ==
    {TestPanel, GetPanelStats, GetUser, GetUserSessions, GetUserHWID, GetUserSubscriptionURL,
     GetUserTags, GetUserBandwidth, GetIPFetchResult, ListAllHWIDDevices, GetUserMetadata,
     GetNodeMetadata, ListSubscriptions, GetSubscriptionByUUID, GetSubscriptionByShortUUID,
     GetSubscriptionByUsername, GetNode, GetNodeStats, GetNodeUsers, GetNodeTags,
     GetSystemInfo, FetchNodeUsersIPs, GetFetchNodeUsersIPsResult, GetSquadByUUID,
     GetSquadNodes, GetHost, GetHostTags, ListConfigProfiles, GetConfigProfile,
     GetConfigProfileInbounds, GetAllInbounds, ListNodePlugins, GetNodePlugin} \cup
    {EnableUser, DisableUser, DeleteUser, UpdatePanelUser, ResetUserTraffic, RevokeUserSubscription,
     DisconnectUser, UpsertUserMetadata, CreateHWIDDevice, DeleteUserHWID, DeleteAllUserHWID,
     BulkDeleteUsersByStatus, BulkDeleteUsers, BulkUpdateUsers, BulkResetTraffic,
     BulkRevokeSubscription, BulkUpdateSquads, BulkExtendExpiration, BulkUpdateAllUsers,
     BulkResetAllTraffic, BulkExtendAllExpiration, CreateNode, EnableNode, DisableNode,
     DeleteNode, UpdateNode, RestartNode, ResetNodeTraffic, RestartAllNodes, ReorderNodes,
     UpsertNodeMetadata, CreateSquad, UpdateSquad, DeleteSquad, AddNodesToSquad,
     RemoveNodesFromSquad, ReorderSquad, CreateExternalSquad, UpdateExternalSquad,
     DeleteExternalSquad, AddUsersToExternalSquad, RemoveUsersFromExternalSquad,
     ReorderExternalSquads, CreateHost, UpdateHost, DeleteHost, ReorderHosts,
     CreateConfigProfile, UpdateConfigProfile, DeleteConfigProfile, ReorderConfigProfiles,
     CreateNodePlugin, CloneNodePlugin, UpdateNodePlugin, DeleteNodePlugin, ReorderNodePlugins}
        \cup BulkHostAction

\* What the panel does with a call: it refuses one with a token it does not know.
Applies(c, e) == c.token = RealToken /\ holds[c.panel][e.on] \in e.from
Applied(c, e) ==
    IF Applies(c, e) /\ e.to # "same" THEN [holds EXCEPT ![c.panel][e.on] = e.to] ELSE holds

\* Neither the report nor a list in the making vouches for a node someone else changed.
Forget(c, e) ==
    IF Applies(c, e) /\ c.panel = report.panel THEN [report EXCEPT !.ok = @ \ {e.on}] ELSE report
Unsay(g, c, e) ==
    [o \in PanelUsers |->
        IF o # g /\ Applies(c, e) /\ panelCall[o].pc = "bulk" /\ panelCall[o].panel = c.panel
        THEN [panelCall[o] EXCEPT !.ok = @ \ {e.on}] ELSE panelCall[o]]

\* A handler's one call to its panel, which may fail on the way.
CallPanel(g, e) ==
    LET c == panelCall[g]
    IN /\ c.pc = "client"
       /\ \/ /\ holds' = Applied(c, e) /\ report' = Forget(c, e)
             /\ panelCall' = [Unsay(g, c, e) EXCEPT ![g] = Resting]
          \/ UNCHANGED <<holds, report>> /\ panelCall' = [panelCall EXCEPT ![g] = Resting]
       /\ reached' = reached \cup c.late
       /\ UNCHANGED <<panels, docHistory, settingsVars, panelCalls>>

\* BulkNodeAction calls the panel once for each node and goes on after an error.
BulkNodeAction(g, to) ==
    /\ panelCall[g].pc = "client"
    /\ panelCall' = [panelCall EXCEPT ![g] = [pc |-> "bulk", todo |-> Nodes, panel |-> panelCall[g].panel,
                                    token |-> panelCall[g].token, late |-> panelCall[g].late,
                                    to |-> to, ok |-> {}]]
    /\ UNCHANGED <<panels, holds, report, reached, docHistory, settingsVars, panelCalls>>

BulkNode(g, n) ==
    LET c == panelCall[g]
        e == Effect(n, Present, c.to)
        left == c.todo \ {n}
        Done(calls, ok) ==
            IF left = {} THEN /\ panelCall' = [calls EXCEPT ![g] = Resting]
                              /\ report' = [to |-> c.to, ok |-> ok, panel |-> c.panel]
            ELSE /\ panelCall' = [calls EXCEPT ![g] = [c EXCEPT !.todo = left, !.ok = ok]]
                 /\ report' = Forget(c, e)
    IN /\ c.pc = "bulk" /\ n \in c.todo
       /\ \/ holds' = Applied(c, e) /\ Done(Unsay(g, c, e), IF Applies(c, e) THEN c.ok \cup {n} ELSE c.ok)
          \/ UNCHANGED holds /\ Done(panelCall, c.ok)
       /\ reached' = reached \cup c.late
       /\ UNCHANGED <<panels, docHistory, settingsVars, panelCalls>>

-----------------------------------------------------------------------------
\* Rules for one country; validateGeoRoutingRuleInput does not look at the panel.
GeoRule == [panel : 1 .. MaxPanels, priority : RulePriorities, active : BOOLEAN]

CreateRoutingRule(g, r) ==
    /\ Atomic(g)
    /\ Len(geoRules) < MaxGeoRules
    /\ geoRules' = Append(geoRules, r)
    /\ UNCHANGED <<panels, docHistory, driftEvent>>

UpdateRoutingRule(g, k, r) ==
    /\ Atomic(g)
    /\ geoRules' = [geoRules EXCEPT ![k] = r]
    /\ UNCHANGED <<panels, docHistory, driftEvent>>

DeleteRoutingRule(g, k) ==
    /\ Atomic(g)
    /\ geoRules' = SubSeq(geoRules, 1, k - 1) \o SubSeq(geoRules, k + 1, Len(geoRules))
    /\ UNCHANGED <<panels, docHistory, driftEvent>>

\* SimulateRouting: the loop over the rules, newest first, and the panel it ends with;
\* 0 stands for none.
SimulateRouting ==
    LET match[k \in 0 .. Len(geoRules)] ==
          IF k = 0 THEN [panel |-> 0, priority |-> -1]
          ELSE LET before == match[k - 1]
                   r == geoRules[Len(geoRules) + 1 - k]
               IN IF r.active /\ (before.priority < 0 \/ r.priority < before.priority)
                  THEN [panel |-> r.panel, priority |-> r.priority] ELSE before
        actives == {i \in DOMAIN panels : panels[i].status = "active"}
        found == match[Len(geoRules)].panel
    IN IF found # 0 THEN found
       ELSE IF actives # {} THEN CHOOSE i \in actives : \A j \in actives : j <= i ELSE 0

\* Both write the status over what they have read; nothing is healed.
ResolveDriftEvent(g) ==
    /\ Atomic(g)
    /\ driftEvent' = "resolved"
    /\ UNCHANGED <<panels, docHistory, geoRules>>

HealDriftEvent(g) ==
    /\ Atomic(g)
    /\ driftEvent' = "healed"
    /\ UNCHANGED <<panels, docHistory, geoRules>>

-----------------------------------------------------------------------------
PanelNext ==
    \E g \in PanelUsers :
        \/ \E input \in PanelInput : CreatePanel(g, input)
        \/ \E i \in DOMAIN panels, input \in PanelInput : UpdatePanel(g, i, input)
        \/ \E i \in DOMAIN panels, to \in {"disabled", "maintenance"} : ReadPanel(g, i, to)
        \/ DeletePanel(g) \/ SetPanelMaintenance(g)
        \/ \E i \in DOMAIN panels : BuildClientForPanel(g, i)
        \/ \E e \in Effects : CallPanel(g, e)
        \/ \E to \in {"on", "off", "same"} : BulkNodeAction(g, to)
        \/ \E n \in Nodes : BulkNode(g, n)
        \/ StartTour(g)
        \/ \E i \in DOMAIN panels : VisitPanel(g, i)
        \/ \E r \in GeoRule : CreateRoutingRule(g, r)
        \/ \E k \in DOMAIN geoRules, r \in GeoRule : UpdateRoutingRule(g, k, r)
        \/ \E k \in DOMAIN geoRules : DeleteRoutingRule(g, k)
        \/ ResolveDriftEvent(g) \/ HealDriftEvent(g)

-----------------------------------------------------------------------------
\* The rule with the least priority among the active ones decides, whatever the order
\* they were made in, as long as no priority is negative.
LeastPriorityWins ==
    LET active == {k \in DOMAIN geoRules : geoRules[k].active}
    IN (active # {} /\ \A k \in active : geoRules[k].priority >= 0)
         => \E k \in active : /\ SimulateRouting = geoRules[k].panel
                              /\ \A j \in active : geoRules[k].priority <= geoRules[j].priority

\* panels.go, handler.go: a panel that was removed stays disabled, keeps its token and
\* is not called by any request made after the removal, until an administrator puts it
\* back, unless two requests rewrote its document at once; what BulkNodeAction reported
\* as done holds until someone changes the node; and routing follows the least priority.
PanelsSafe ==
    /\ \A i \in DOMAIN panels \ rivalled :
         /\ i \in removed => panels[i].status = "disabled" /\ i \notin reached
         /\ panels[i].token = lastToken[i]
    /\ \A n \in report.ok : report.to # "same" => holds[report.panel][n] = report.to
    /\ LeastPriorityWins
=============================================================================
