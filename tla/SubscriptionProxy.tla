--------------------------- MODULE SubscriptionProxy ---------------------------
(***************************************************************************)
(* The subscription proxy (infra/proxy): a config is served from an LRU    *)
(* cache in memory, else from Valkey, else from Remnawave, where one       *)
(* request per key goes out (singleflight) through a circuit breaker and   *)
(* the others wait for its answer.  Whoever got a body stores it below     *)
(* with a fresh time to live, however old the body is by then.             *)
(***************************************************************************)
EXTENDS Integers, Sequences, SequencesExt

CONSTANTS
    ShortUUIDs,             \* subscriptions
    ProxyWorkers,           \* goroutines of the server
    L1CacheSize, L1CacheTTL, L2CacheTTL,
    MaxHold,                \* how long a request may be under way
    ProxyCBFailures,        \* ProxyCBConsecutiveFailures
    MaxProxyTime, MaxProxyCalls, MaxProxyFaults

VARIABLES
    l1,             \* LRUCache: its list, most recently used first
    l2,             \* Valkey: key -> entry or NoEntry
    flight,         \* singleflight: key -> the worker that fetches, or NoWorker
    proxyCall,      \* the request of each worker
    proxyBreaker,   \* gobreaker: state and consecutive failures
    configServed,   \* history: the last reply
    proxyTime, proxyCalls, proxyFaults

proxyVars == <<l1, l2, flight, proxyCall, proxyBreaker, configServed, proxyTime, proxyCalls,
               proxyFaults>>

NoEntry == [exp |-> -1]
NoWorker == "nobody"
NoCall == [pc |-> "idle"]
NothingServed == [key |-> "none"]

\* A body is the config of a key as Remnawave had it at a time.
Entry(body, exp) == [body |-> body, exp |-> exp]

ProxyInit ==
    /\ l1 = <<>>
    /\ l2 = [k \in ShortUUIDs |-> NoEntry]
    /\ flight = [k \in ShortUUIDs |-> NoWorker]
    /\ proxyCall = [w \in ProxyWorkers |-> NoCall]
    /\ proxyBreaker = [state |-> "closed", failures |-> 0]
    /\ configServed = NothingServed
    /\ proxyTime = 0 /\ proxyCalls = 0 /\ proxyFaults = 0

-----------------------------------------------------------------------------
\* LRUCache, whole calls under its mutex: the list without a key (removeNode), with a
\* key in front (addToFront), and without its last entry when it is full (evictLRU).
RemoveNode(list, k) == SelectSeq(list, LAMBDA n : n.key # k)
AddToFront(list, k, e) == <<[key |-> k, entry |-> e]>> \o list
EvictLRU(list) == IF Len(list) >= L1CacheSize THEN Front(list) ELSE list
Cached(k) == \E i \in DOMAIN l1 : l1[i].key = k
EntryOf(k) == l1[CHOOSE i \in DOMAIN l1 : l1[i].key = k].entry

\* Get: an entry is good until its time is past.
Hit(k) == Cached(k) /\ proxyTime <= EntryOf(k).exp
Get(k) ==
    l1' = IF Hit(k) THEN AddToFront(RemoveNode(l1, k), k, EntryOf(k)) ELSE RemoveNode(l1, k)
Set(k, body) ==
    LET e == Entry(body, proxyTime + L1CacheTTL)
    IN l1' = IF Cached(k) THEN AddToFront(RemoveNode(l1, k), k, e)
                          ELSE AddToFront(EvictLRU(l1), k, e)

-----------------------------------------------------------------------------
Step(w, r) == proxyCall' = [proxyCall EXCEPT ![w] = r]
Answer(w, body) ==
    /\ configServed' = [key |-> proxyCall[w].key, body |-> body, at |-> proxyTime]
    /\ Step(w, NoCall)

ServeSubscription(w, k) ==
    /\ proxyCall[w] = NoCall /\ proxyCalls < MaxProxyCalls
    /\ proxyCalls' = proxyCalls + 1
    /\ Step(w, [pc |-> "L1", key |-> k, since |-> proxyTime])
    /\ UNCHANGED <<l1, l2, flight, proxyBreaker, configServed, proxyTime, proxyFaults>>

ReadL1(w) ==
    LET r == proxyCall[w]
    IN /\ r.pc = "L1"
       /\ Get(r.key)
       /\ IF Hit(r.key) THEN Answer(w, EntryOf(r.key).body)
                        ELSE Step(w, [r EXCEPT !.pc = "L2"]) /\ UNCHANGED configServed
       /\ UNCHANGED <<l2, flight, proxyBreaker, proxyTime, proxyCalls, proxyFaults>>

\* Valkey answers with an entry that has not expired; an error counts as a miss.
ReadL2(w) ==
    LET r == proxyCall[w]
    IN /\ r.pc = "L2"
       /\ \/ /\ proxyTime < l2[r.key].exp
             /\ Step(w, [pc |-> "fill", key |-> r.key, since |-> r.since,
                         body |-> l2[r.key].body])
             /\ UNCHANGED proxyFaults
          \/ /\ proxyTime >= l2[r.key].exp
             /\ Step(w, [r EXCEPT !.pc = "L3"])
             /\ UNCHANGED proxyFaults
          \/ /\ proxyTime < l2[r.key].exp /\ proxyFaults < MaxProxyFaults
             /\ proxyFaults' = proxyFaults + 1
             /\ Step(w, [r EXCEPT !.pc = "L3"])
       /\ UNCHANGED <<l1, l2, flight, proxyBreaker, configServed, proxyTime, proxyCalls>>

\* sfGroup.Do: the first request of a key fetches, the others wait for it.
Do(w) ==
    LET r == proxyCall[w]
    IN /\ r.pc = "L3"
       /\ IF flight[r.key] = NoWorker
          THEN /\ flight' = [flight EXCEPT ![r.key] = w]
               /\ Step(w, [r EXCEPT !.pc = "fetch"])
          ELSE Step(w, [r EXCEPT !.pc = "wait"]) /\ UNCHANGED flight
       /\ UNCHANGED <<l1, l2, proxyBreaker, configServed, proxyTime, proxyCalls, proxyFaults>>

\* The flight of k lands: its leader and all who wait go on with pc and body.
Land(k, leader, pc, body) ==
    /\ flight' = [flight EXCEPT ![k] = NoWorker]
    /\ proxyCall' = [w \in ProxyWorkers |->
         IF w = leader \/ (proxyCall[w].pc = "wait" /\ proxyCall[w].key = k)
         THEN IF pc = "failed" THEN NoCall
              ELSE [pc |-> pc, key |-> k, since |-> proxyCall[w].since, body |-> body]
         ELSE proxyCall[w]]

\* fetchFromRemnawave behind the proxyBreaker, which opens after so many failures in a row.
FetchFromRemnawave(w) ==
    LET r == proxyCall[w]
    IN /\ r.pc = "fetch"
       /\ \/ /\ proxyBreaker.state # "open"
             /\ Land(r.key, w, "store", [key |-> r.key, time |-> proxyTime])
             /\ proxyBreaker' = [state |-> "closed", failures |-> 0]
             /\ UNCHANGED proxyFaults
          \/ /\ proxyBreaker.state # "open" /\ proxyFaults < MaxProxyFaults
             /\ proxyFaults' = proxyFaults + 1
             /\ LET n == proxyBreaker.failures + 1
                IN proxyBreaker' = [state |-> IF proxyBreaker.state = "half-open" \/ n >= ProxyCBFailures
                                         THEN "open" ELSE "closed", failures |-> n]
             /\ Land(r.key, w, "failed", 0)
          \/ /\ proxyBreaker.state = "open"
             /\ Land(r.key, w, "failed", 0)
             /\ UNCHANGED <<proxyBreaker, proxyFaults>>
       /\ UNCHANGED <<l1, l2, configServed, proxyTime, proxyCalls>>

\* Valkey's Set, whose error nobody reads, before the one in memory.
StoreL2(w) ==
    LET r == proxyCall[w]
    IN /\ r.pc = "store"
       /\ \/ /\ l2' = [l2 EXCEPT ![r.key] = Entry(r.body, proxyTime + L2CacheTTL)]
             /\ UNCHANGED proxyFaults
          \/ /\ proxyFaults < MaxProxyFaults /\ proxyFaults' = proxyFaults + 1
             /\ UNCHANGED l2
       /\ Step(w, [r EXCEPT !.pc = "fill"])
       /\ UNCHANGED <<l1, flight, proxyBreaker, configServed, proxyTime, proxyCalls>>

FillL1(w) ==
    LET r == proxyCall[w]
    IN /\ r.pc = "fill"
       /\ Set(r.key, r.body)
       /\ Answer(w, r.body)
       /\ UNCHANGED <<l2, flight, proxyBreaker, proxyTime, proxyCalls, proxyFaults>>

\* Time passes while no request is held for longer than MaxHold; the proxyBreaker's timeout
\* ends some time or other.
PassTime ==
    /\ proxyTime < MaxProxyTime
    /\ \A w \in ProxyWorkers : proxyCall[w] # NoCall => proxyTime - proxyCall[w].since < MaxHold
    /\ proxyTime' = proxyTime + 1
    /\ proxyBreaker' = IF proxyBreaker.state = "open"
                       THEN [proxyBreaker EXCEPT !.state = "half-open"] ELSE proxyBreaker
    /\ UNCHANGED <<l1, l2, flight, proxyCall, configServed, proxyCalls, proxyFaults>>

ProxyNext ==
    \/ \E w \in ProxyWorkers :
         \/ \E k \in ShortUUIDs : ServeSubscription(w, k)
         \/ ReadL1(w) \/ ReadL2(w) \/ Do(w) \/ FetchFromRemnawave(w) \/ StoreL2(w) \/ FillL1(w)
    \/ PassTime

-----------------------------------------------------------------------------
\* subscription_proxy.go: through both caches, shared flights and late stores, a client
\* gets the config of the subscription it asked for, as Remnawave had it no longer ago
\* than both times to live and two requests' time; and the list in memory has an entry
\* per key and keeps its bound.
ConfigsFresh ==
    /\ configServed # NothingServed =>
         /\ configServed.body.key = configServed.key
         /\ configServed.at - configServed.body.time <= L1CacheTTL + L2CacheTTL + 2 * MaxHold
    /\ Len(l1) <= L1CacheSize
    /\ \A i, j \in DOMAIN l1 : l1[i].key = l1[j].key => i = j

\* A request that waits for another's fetch has somebody to wait for.
WaitersHaveLeader ==
    \A w \in ProxyWorkers : proxyCall[w].pc = "wait" =>
        \E v \in ProxyWorkers \ {w} :
            flight[proxyCall[w].key] = v /\ proxyCall[v].pc = "fetch"
=============================================================================
