------------------------------ MODULE EntityLocks ------------------------------
(***************************************************************************)
(* The per-entity mutexes of BillingEventConsumer in one pod               *)
(* (getEntityLock, evictStaleLocks) for one entity: a sync.Map entry that  *)
(* points to a lock object, goroutines that look the object up, stamp it   *)
(* and lock it, and the evictor that removes entries it finds unused.      *)
(* BillingEventConsumer takes these locks for ideal mutexes.               *)
(***************************************************************************)
EXTENDS Integers, FiniteSets

CONSTANTS
    LockThreads,    \* goroutines with an event of the entity
    MaxLocks        \* bound on the lock objects ever created

Locks == 1 .. MaxLocks
NoLock == 0

VARIABLES
    entry,      \* the object under the entity's key, or NoLock
    created,    \* lock objects created so far
    stale,      \* objects whose lastUsed is older than entityLockTTL
    lockPc,         \* goroutine: idle, loaded, waiting, holding
    lock,       \* the object it works with
    evict,      \* the evictor found the entry stale and is about to delete it
    raced       \* history: an entry was deleted while a goroutine used its object

lockVars == <<entry, created, stale, lockPc, lock, evict, raced>>

LockInit ==
    /\ entry = NoLock
    /\ created = 0
    /\ stale = {}
    /\ lockPc = [t \in LockThreads |-> "idle"]
    /\ lock = [t \in LockThreads |-> NoLock]
    /\ evict = FALSE
    /\ raced = FALSE

\* Mutant: Store in place of LoadOrStore.
StoreAlways(t) ==
    /\ lockPc[t] = "idle"
    /\ created < MaxLocks
    /\ created' = created + 1
    /\ entry' = created + 1
    /\ stale' = stale \cup {created + 1}
    /\ lock' = [lock EXCEPT ![t] = created + 1]
    /\ lockPc' = [lockPc EXCEPT ![t] = "loaded"]
    /\ UNCHANGED <<evict, raced>>

\* entityLocks.LoadOrStore; a new object's lastUsed is zero, hence stale.
LoadOrStore(t) ==
    /\ lockPc[t] = "idle"
    /\ \/ /\ entry # NoLock
          /\ lock' = [lock EXCEPT ![t] = entry]
          /\ UNCHANGED <<entry, created, stale>>
       \/ /\ entry = NoLock
          /\ created < MaxLocks
          /\ created' = created + 1
          /\ entry' = created + 1
          /\ stale' = stale \cup {created + 1}
          /\ lock' = [lock EXCEPT ![t] = created + 1]
    /\ lockPc' = [lockPc EXCEPT ![t] = "loaded"]
    /\ UNCHANGED <<evict, raced>>

\* lock.lastUsed.Store(now).
Touch(t) ==
    /\ lockPc[t] = "loaded"
    /\ stale' = stale \ {lock[t]}
    /\ lockPc' = [lockPc EXCEPT ![t] = "waiting"]
    /\ UNCHANGED <<entry, created, lock, evict, raced>>

Acquire(t) ==
    /\ lockPc[t] = "waiting"
    /\ \A u \in LockThreads : lockPc[u] = "holding" => lock[u] # lock[t]
    /\ lockPc' = [lockPc EXCEPT ![t] = "holding"]
    /\ UNCHANGED <<entry, created, stale, lock, evict, raced>>

Unlock(t) ==
    /\ lockPc[t] = "holding"
    /\ lockPc' = [lockPc EXCEPT ![t] = "idle"]
    /\ lock' = [lock EXCEPT ![t] = NoLock]
    /\ UNCHANGED <<entry, created, stale, evict, raced>>

\* entityLockTTL passes without a use.  A message is handled within
\* messageTimeout, far below the TTL, so no goroutine waits or holds meanwhile.
Age(l) ==
    /\ l \in 1 .. created
    /\ l \notin stale
    /\ \A t \in LockThreads : lockPc[t] \in {"waiting", "holding"} => lock[t] # l
    /\ stale' = stale \cup {l}
    /\ UNCHANGED <<entry, created, lockPc, lock, evict, raced>>

\* The evictor's two steps: lastUsed.Load() < cutoff, then Delete(key).
FindStale ==
    /\ ~evict
    /\ entry \in stale
    /\ evict' = TRUE
    /\ UNCHANGED <<entry, created, stale, lockPc, lock, raced>>

DeleteEntry ==
    /\ evict
    /\ raced' = (raced \/ \E t \in LockThreads : lock[t] = entry)
    /\ entry' = NoLock
    /\ evict' = FALSE
    /\ UNCHANGED <<created, stale, lockPc, lock>>

LockNext ==
    \/ \E t \in LockThreads : LoadOrStore(t) \/ Touch(t) \/ Acquire(t) \/ Unlock(t)
    \/ \E l \in Locks : Age(l)
    \/ FindStale
    \/ DeleteEntry

LockSpec == LockInit /\ [][LockNext]_lockVars

-----------------------------------------------------------------------------
\* billing_event_consumer.go, entityLock: "serialises event processing for a
\* single entity".  It does, except after the evictor deleted an entry on a lastUsed
\* it read before a goroutine stamped it: the goroutine then holds an object that
\* is no longer in the map.
SerialUnlessEvicted ==
    raced \/ \A t, u \in LockThreads : lockPc[t] = "holding" /\ lockPc[u] = "holding" => t = u
=============================================================================
