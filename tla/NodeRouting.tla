------------------------------ MODULE NodeRouting ------------------------------
(***************************************************************************)
(* Node health and the smart router (infra/health, infra/routing).  The    *)
(* monitor polls the panel, replaces the cache and tells of each node that *)
(* is new or has changed; the router scores the nodes that the cache has   *)
(* online.  Scores are in hundredths and weights in percent; the monitor   *)
(* fills in neither coordinates nor a latency, so those terms have the     *)
(* values for "unknown".                                                   *)
(***************************************************************************)
EXTENDS Integers, FiniteSets

CONSTANTS
    VPNNodes, CountryOf,    \* nodes of the panel, the country in each name
    TrafficLevels,                \* percentages of highLoadThreshold
    ConfiguredWeights,      \* SmartRouter section of the configuration, by purpose
    RouteRequests,          \* what the router is asked for
    MaxPolls, MaxNodeChanges, MaxPublishFaults

VARIABLES
    panelNodes,     \* the panel: node -> [online, used], for the nodes it has
    nodeCache,      \* NodeHealthCache, the same shape
    poll,           \* checkAll: its phase, the nodes it got and the cache it saw
    told,           \* history: the last status published of each node
    untold,         \* history: nodes with a publish that failed and none since
    route,          \* history: the request to the router that was just answered
    polls, nodeChanges, publishFaults

nodeVars == <<panelNodes, nodeCache, poll, told, untold, route, polls, nodeChanges,
              publishFaults>>

Purposes == {"browsing", "gaming", "streaming"}
ScoreMax == 100 * 100
PremiumTierBonus == 15 * 100
LatencyScoreUnknown == 50
GeoScoreSameCountry == 100
GeoScoreDifferentCountry == 30
LoadScoreZeroTraffic == 100
LoadScoreHighLoad == 10

-----------------------------------------------------------------------------
\* NewSmartRouter: a purpose whose configured weights are all zero keeps the built-in ones.
DefaultWeights ==
    [browsing |-> [geo |-> 33, latency |-> 34, load |-> 33],
     gaming |-> [geo |-> 20, latency |-> 60, load |-> 20],
     streaming |-> [geo |-> 50, latency |-> 20, load |-> 30]]
NoWeights == [geo |-> 0, latency |-> 0, load |-> 0]
WeightsForPurpose(p) ==
    IF ConfiguredWeights[p] = NoWeights THEN DefaultWeights[p] ELSE ConfiguredWeights[p]

GeoProximityScore(country, n) ==
    IF country = CountryOf[n] THEN GeoScoreSameCountry ELSE GeoScoreDifferentCountry

\* Mutant: traffic counts for the node that carries it.
LoadScoreInverted(used) == used

\* loadScore of used percent of the threshold.
LoadScore(used) ==
    IF used >= 100 THEN LoadScoreHighLoad ELSE LoadScoreZeroTraffic - used

Capped(s) == IF s > ScoreMax THEN ScoreMax ELSE s
Score(req, n, h) ==
    LET w == WeightsForPurpose(req.purpose)
        composite == w.geo * GeoProximityScore(req.country, n)
                       + w.latency * LatencyScoreUnknown + w.load * LoadScore(h.used)
    IN Capped(composite + IF req.tier \in {"premium", "ultra"} THEN PremiumTierBonus ELSE 0)

GetHealthy(cache) == {n \in DOMAIN cache : cache[n].online}
Candidates(req) ==
    {n \in GetHealthy(nodeCache) : req.allowed # {} => n \in req.allowed}

-----------------------------------------------------------------------------
NoPoll == [pc |-> "none"]
NoRoute == [primary |-> "none"]
Health == [online : BOOLEAN, used : TrafficLevels]

NodeInit ==
    /\ panelNodes \in [VPNNodes -> [online : {TRUE}, used : TrafficLevels]]
    /\ nodeCache = [n \in {} |-> [online |-> FALSE, used |-> 0]]
    /\ poll = NoPoll
    /\ told = [n \in VPNNodes |-> "nothing"] /\ untold = {}
    /\ route = NoRoute
    /\ polls = 0 /\ nodeChanges = 0 /\ publishFaults = 0

\* The panel: a node goes on or off line, is removed, or added.
ChangeNode(n, h) ==
    /\ nodeChanges < MaxNodeChanges /\ nodeChanges' = nodeChanges + 1
    /\ \/ panelNodes' = [m \in DOMAIN panelNodes \cup {n} |-> IF m = n THEN h ELSE panelNodes[m]]
       \/ panelNodes' = [m \in DOMAIN panelNodes \ {n} |-> panelNodes[m]]
    /\ route' = NoRoute
    /\ UNCHANGED <<nodeCache, poll, told, untold, polls, publishFaults>>

\* checkAll, on a tick: GetNodes, and an error ends the poll with the cache as it is.
CheckAll ==
    /\ poll = NoPoll /\ polls < MaxPolls
    /\ polls' = polls + 1
    /\ \/ poll' = [pc |-> "update", got |-> panelNodes]
       \/ UNCHANGED poll
    /\ route' = NoRoute
    /\ UNCHANGED <<panelNodes, nodeCache, told, untold, nodeChanges, publishFaults>>

\* The cache is replaced at once; who changed is decided against what it held before.
Update ==
    /\ poll.pc = "update"
    /\ nodeCache' = poll.got
    /\ poll' = [pc |-> "publish",
                todo |-> {n \in DOMAIN poll.got :
                            \/ n \notin DOMAIN nodeCache
                            \/ nodeCache[n].online # poll.got[n].online}]
    /\ route' = NoRoute
    /\ UNCHANGED <<panelNodes, told, untold, polls, nodeChanges, publishFaults>>

StatusOf(h) == IF h.online THEN "online" ELSE "offline"

\* publishTransition of one node; an error is logged and the next node comes.
PublishTransition(n) ==
    /\ poll.pc = "publish" /\ n \in poll.todo
    /\ poll' = [poll EXCEPT !.todo = @ \ {n}]
    /\ \/ /\ told' = [told EXCEPT ![n] = StatusOf(nodeCache[n])]
          /\ untold' = untold \ {n}
          /\ UNCHANGED publishFaults
       \/ /\ publishFaults < MaxPublishFaults /\ publishFaults' = publishFaults + 1
          /\ untold' = untold \cup {n}
          /\ UNCHANGED told
    /\ route' = NoRoute
    /\ UNCHANGED <<panelNodes, nodeCache, polls, nodeChanges>>

EndPoll ==
    /\ poll.pc = "publish" /\ poll.todo = {}
    /\ poll' = NoPoll
    /\ route' = NoRoute
    /\ UNCHANGED <<panelNodes, nodeCache, told, untold, polls, nodeChanges,
                   publishFaults>>

\* SelectNode: the best score, any of those that tie; an error when nobody is left.  The
\* plugins behind routing.score_modifier may put any other scores in place.
SelectNode(req) ==
    LET scored == Candidates(req)
        score == [n \in scored |-> Score(req, n, nodeCache[n])]
        answer(n, by) == [primary |-> n, req |-> req, cache |-> nodeCache, by |-> by]
    IN /\ route = NoRoute
       /\ \/ scored = {} /\ route' = answer("error", "router")
          \/ \E n \in scored :
               (\A m \in scored : score[m] <= score[n]) /\ route' = answer(n, "router")
          \/ scored # {} /\ \E n \in VPNNodes : route' = answer(n, "plugin")
       /\ UNCHANGED <<panelNodes, nodeCache, poll, told, untold, polls, nodeChanges, publishFaults>>

NodeNext ==
    \/ \E n \in VPNNodes, h \in Health : ChangeNode(n, h)
    \/ CheckAll \/ Update \/ EndPoll
    \/ \E n \in VPNNodes : PublishTransition(n)
    \/ \E req \in RouteRequests : SelectNode(req)

-----------------------------------------------------------------------------
\* health_monitor.go: between polls, every node the cache holds was last told of with the
\* status it has there, unless that very publish failed; nodes that leave and come back
\* are told of anew.
TransitionsTold ==
    poll = NoPoll => \A n \in DOMAIN nodeCache \ untold : told[n] = StatusOf(nodeCache[n])

\* smart_router.go: unless a plugin changed the scores, the answer is an allowed node
\* that is online by the last poll, and an error means there is none; an idler node of the same country loses only when the bonus
\* brings both to the top score, or when it carries between 90 and 100 percent of the
\* threshold and the winner all of it.
RoutedFairly ==
    route # NoRoute /\ route.by = "router" =>
        LET req == route.req
            able == {n \in DOMAIN route.cache :
                       route.cache[n].online /\ (req.allowed # {} => n \in req.allowed)}
            used(n) == route.cache[n].used
            p == route.primary
        IN /\ IF able = {} THEN p = "error" ELSE p \in able
           /\ \A n \in able : CountryOf[n] = CountryOf[p] /\ used(n) < used(p) =>
                \/ used(n) > 90 /\ used(p) >= 100
                \/ req.tier = "premium" /\ Score(req, p, route.cache[p]) = ScoreMax
                \/ WeightsForPurpose(req.purpose).load = 0
=============================================================================
