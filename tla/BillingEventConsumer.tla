------------------------- MODULE BillingEventConsumer -------------------------
(***************************************************************************)
(* The durable consumer of billing, payment and traffic events             *)
(* (billing_event_consumer.go, billing_event_handlers.go), its idempotency *)
(* keys and retry counters (idempotency_repo.go) and the replay of its     *)
(* dead letters (dlq_replay.go).                                           *)
(*                                                                         *)
(* One goroutine per pod and subject takes one message at a time through   *)
(* handleMessage; the pods share the durable JetStream consumer of each    *)
(* subject.  Every database statement of handleMessage commits on its own  *)
(* and is a step of its own here; the entity lock is held from processing  *)
(* to the last step.  The handlers are abstracted to their outcome.        *)
(*                                                                         *)
(* External: JetStream's acknowledgement, redelivery and Msg-Id window.    *)
(***************************************************************************)
EXTENDS Integers, FiniteSets

CONSTANTS
    Events,             \* domain event ids, the idempotency keys
    EntityOf,           \* EntityID of each event
    SubjectOf,          \* NATS subject of each event
    NoEvent,            \* an idle goroutine's event
    Malformed,          \* events whose payload does not unmarshal
    Pods,               \* running instances
    MaxMessageRetries,  \* failures before an event is dead-lettered
    MaxTimeouts,        \* bounds on: handlers that exceed messageTimeout,
    MaxCrashes,         \*   pod crashes,
    MaxDBErrors,        \*   failing idempotency statements,
    MaxDLQErrors,       \*   dead letters NATS refuses,
    MaxLateAcks,        \*   deliveries that outlive the ack wait,
    MaxDuplicates,      \*   copies the relay publishes again,
    MaxReplays,         \*   replayed dead letters,
    MaxDryRuns          \*   letters read by a dry run

ASSUME ConsumerAssumption ==
    /\ NoEvent \notin Events
    /\ Malformed \subseteq Events
    /\ DOMAIN EntityOf = Events
    /\ DOMAIN SubjectOf = Events
    /\ MaxMessageRetries \in Nat \ {0}
    /\ {MaxTimeouts, MaxCrashes, MaxDBErrors, MaxDLQErrors, MaxLateAcks,
        MaxDuplicates, MaxReplays, MaxDryRuns} \subseteq Nat

Subjects == {SubjectOf[e] : e \in Events}
Threads == Pods \X Subjects

VARIABLES
    msg,        \* JetStream's view of each message: queued, out or acked
    window,     \* Msg-Ids JetStream still deduplicates
    dlq,        \* events in the dead-letter stream
    keys,       \* idempotency keys in the database
    retry,      \* retry_count of the "retry:" keys
    pc,         \* where each goroutine stands in handleMessage
    cur,        \* its event
    expired,    \* its context is past the deadline
    applied,    \* history: successful runs of the event's handler
    failOpen,   \* history: events processed without a key
    upset,      \* history: events that met an infrastructure fault
    budget      \* faults that may still happen, by kind

msgVars == <<msg, window, dlq>>
dbVars == <<keys, retry>>
threadVars == <<pc, cur, expired>>
history == <<applied, failOpen, upset>>
vars == <<msg, window, dlq, keys, retry, pc, cur, expired, applied, failOpen, upset, budget>>

Kinds == {"timeout", "crash", "db", "dlq", "late", "duplicate", "replay", "dryrun"}
PCs == {"idle", "acquire", "lock", "process", "release", "retry", "backoff", "dlq", "ack"}

Init ==
    /\ msg = [e \in Events |-> "queued"]
    /\ window = Events
    /\ dlq = {}
    /\ keys = {}
    /\ retry = [e \in Events |-> 0]
    /\ pc = [t \in Threads |-> "idle"]
    /\ cur = [t \in Threads |-> NoEvent]
    /\ expired = [t \in Threads |-> FALSE]
    /\ applied = [e \in Events |-> 0]
    /\ failOpen = {}
    /\ upset = {}
    /\ budget = [k \in Kinds |->
                   CASE k = "timeout" -> MaxTimeouts
                     [] k = "crash" -> MaxCrashes
                     [] k = "db" -> MaxDBErrors
                     [] k = "dlq" -> MaxDLQErrors
                     [] k = "late" -> MaxLateAcks
                     [] k = "duplicate" -> MaxDuplicates
                     [] k = "replay" -> MaxReplays
                     [] k = "dryrun" -> MaxDryRuns]

\* A fault of kind k happens to the events of S.
Fault(k, S) ==
    /\ budget[k] > 0
    /\ budget' = [budget EXCEPT ![k] = @ - 1]
    /\ upset' = upset \cup S

NoFault == UNCHANGED <<budget, upset>>

\* The threads working on an event; those between getting its key and giving up.
On(e) == {t \in Threads : cur[t] = e}
HoldsLock(t) == pc[t] \in {"process", "release", "retry", "backoff", "dlq", "ack"}

Goto(t, l) == pc' = [pc EXCEPT ![t] = l] /\ UNCHANGED <<cur, expired>>
Finish(t) ==
    /\ pc' = [pc EXCEPT ![t] = "idle"]
    /\ cur' = [cur EXCEPT ![t] = NoEvent]
    /\ expired' = [expired EXCEPT ![t] = FALSE]

\* An ack settles the message, whichever delivery it is for; a nak of a settled
\* message does nothing.
Ack(e) == msg' = [msg EXCEPT ![e] = "acked"]
Nack(e) == msg' = [msg EXCEPT ![e] = IF @ = "out" THEN "queued" ELSE @]

-----------------------------------------------------------------------------
(* consumeLoop and handleMessage.                                           *)

Deliver(t, e) ==
    /\ pc[t] = "idle"
    /\ msg[e] = "queued"
    /\ SubjectOf[e] = t[2]
    /\ msg' = [msg EXCEPT ![e] = "out"]
    /\ pc' = [pc EXCEPT ![t] = IF e \in Malformed THEN "dlq" ELSE "acquire"]
    /\ cur' = [cur EXCEPT ![t] = e]
    /\ UNCHANGED <<window, dlq, dbVars, expired, history, budget>>

\* Mutants: ON CONFLICT DO UPDATE; the key is only written once the handler is done.
TryAcquireAlways(t) ==
    /\ pc[t] = "acquire"
    /\ keys' = keys \cup {cur[t]}
    /\ Goto(t, "lock")
    /\ UNCHANGED <<msgVars, retry, history, budget>>
TryAcquireCheckOnly(t) ==
    /\ pc[t] = "acquire"
    /\ cur[t] \notin keys
    /\ Goto(t, "lock")
    /\ UNCHANGED <<msgVars, dbVars, history, budget>>

\* TryAcquire: INSERT ... ON CONFLICT DO NOTHING.
TryAcquire(t) ==
    /\ pc[t] = "acquire"
    /\ cur[t] \notin keys
    /\ keys' = keys \cup {cur[t]}
    /\ Goto(t, "lock")
    /\ UNCHANGED <<msgVars, retry, history, budget>>

SkipDuplicate(t) ==
    /\ pc[t] = "acquire"
    /\ cur[t] \in keys
    /\ Ack(cur[t])
    /\ Finish(t)
    /\ UNCHANGED <<window, dlq, dbVars, history, budget>>

\* "If the idempotency check fails (DB error), we fail open".
FailOpen(t) ==
    /\ pc[t] = "acquire"
    /\ Fault("db", {cur[t]})
    /\ failOpen' = failOpen \cup {cur[t]}
    /\ Goto(t, "lock")
    /\ UNCHANGED <<msgVars, dbVars, applied>>

\* getEntityLock(entityID).mu.Lock(): one per entity and pod.
LockEntity(t) ==
    /\ pc[t] = "lock"
    /\ \A u \in Threads : u # t /\ u[1] = t[1] /\ HoldsLock(u) /\ cur[u] \notin Malformed
                            => EntityOf[cur[u]] # EntityOf[cur[t]]
    /\ Goto(t, "process")
    /\ UNCHANGED <<msgVars, dbVars, history, budget>>

ProcessOk(t) ==
    /\ pc[t] = "process"
    /\ applied' = [applied EXCEPT ![cur[t]] = @ + 1]
    /\ Goto(t, "ack")
    /\ UNCHANGED <<msgVars, dbVars, failOpen, upset, budget>>

ProcessError(t) ==
    /\ pc[t] = "process"
    /\ Goto(t, "release")
    /\ UNCHANGED <<msgVars, dbVars, history, budget>>

\* Mutant: the key is kept when the handler failed.
ReleaseNothing(t) ==
    /\ pc[t] = "release"
    /\ ~expired[t]
    /\ keys' = keys
    /\ Goto(t, "retry")
    /\ UNCHANGED <<msgVars, retry, history, budget>>

\* Release: DELETE of the key, on the message's own context.
Release(t) ==
    /\ pc[t] = "release"
    /\ ~expired[t]
    /\ keys' = keys \ {cur[t]}
    /\ Goto(t, "retry")
    /\ UNCHANGED <<msgVars, retry, history, budget>>

\* The error is only logged: the key stays.
ReleaseError(t) ==
    /\ pc[t] = "release"
    /\ IF expired[t] THEN NoFault ELSE Fault("db", {cur[t]})
    /\ Goto(t, "retry")
    /\ UNCHANGED <<msgVars, dbVars, applied, failOpen>>

\* Mutant: the counter is never written.
RetryForever(t) ==
    /\ pc[t] = "retry"
    /\ ~expired[t]
    /\ Goto(t, "backoff")
    /\ UNCHANGED <<msgVars, dbVars, history, budget>>

IncrementRetry(t) ==
    /\ pc[t] = "retry"
    /\ ~expired[t]
    /\ retry' = [retry EXCEPT ![cur[t]] = @ + 1]
    /\ Goto(t, IF retry[cur[t]] + 1 < MaxMessageRetries THEN "backoff" ELSE "dlq")
    /\ UNCHANGED <<msgVars, keys, history, budget>>

IncrementRetryError(t) ==
    /\ pc[t] = "retry"
    /\ IF expired[t] THEN NoFault ELSE Fault("db", {cur[t]})
    /\ Nack(cur[t])
    /\ Finish(t)
    /\ UNCHANGED <<window, dlq, dbVars, applied, failOpen>>

\* The sleep ends or the context does; both end in Nack.
BackoffNack(t) ==
    /\ pc[t] = "backoff"
    /\ Nack(cur[t])
    /\ Finish(t)
    /\ UNCHANGED <<window, dlq, dbVars, history, budget>>

\* Mutant: Ack without the dead letter.
AckWithoutDLQ(t) ==
    /\ pc[t] = "dlq"
    /\ Goto(t, "ack")
    /\ UNCHANGED <<msgVars, dbVars, history, budget>>

SendToDLQ(t) ==
    /\ pc[t] = "dlq"
    /\ dlq' = dlq \cup {cur[t]}
    /\ Goto(t, "ack")
    /\ UNCHANGED <<msg, window, dbVars, history, budget>>

\* A publish error is only logged and the message is acked all the same.
SendToDLQError(t) ==
    /\ pc[t] = "dlq"
    /\ Fault("dlq", {cur[t]})
    /\ Goto(t, "ack")
    /\ UNCHANGED <<msgVars, dbVars, applied, failOpen>>

\* msg.Ack() after the handler's success or the dead letter.
AckMessage(t) ==
    /\ pc[t] = "ack"
    /\ Ack(cur[t])
    /\ Finish(t)
    /\ UNCHANGED <<window, dlq, dbVars, history, budget>>

-----------------------------------------------------------------------------
(* Environment.                                                             *)

\* messageTimeout runs out, while waiting for the lock or later.
Timeout(t) ==
    /\ pc[t] \in {"lock", "process", "release", "retry", "backoff"}
    /\ ~expired[t]
    /\ Fault("timeout", {cur[t]})
    /\ expired' = [expired EXCEPT ![t] = TRUE]
    /\ UNCHANGED <<msgVars, dbVars, pc, cur, applied, failOpen>>

Crash(p) ==
    /\ Fault("crash", {cur[t] : t \in {u \in Threads : u[1] = p}} \ {NoEvent})
    /\ pc' = [t \in Threads |-> IF t[1] = p THEN "idle" ELSE pc[t]]
    /\ cur' = [t \in Threads |-> IF t[1] = p THEN NoEvent ELSE cur[t]]
    /\ expired' = [t \in Threads |-> IF t[1] = p THEN FALSE ELSE expired[t]]
    /\ UNCHANGED <<msgVars, dbVars, applied, failOpen>>

\* The ack wait runs out: always when the pod died, sometimes under a handler.
AckWait(e) ==
    /\ msg[e] = "out"
    /\ IF On(e) = {} THEN NoFault ELSE Fault("late", {e})
    /\ msg' = [msg EXCEPT ![e] = "queued"]
    /\ UNCHANGED <<window, dlq, dbVars, threadVars, applied, failOpen>>

WindowExpire(e) ==
    /\ e \in window
    /\ window' = window \ {e}
    /\ UNCHANGED <<msg, dlq, dbVars, threadVars, history, budget>>

\* The relay published the event again after the Msg-Id window.
RelayDuplicate(e) ==
    /\ msg[e] = "acked"
    /\ e \notin window
    /\ Fault("duplicate", {})
    /\ msg' = [msg EXCEPT ![e] = "queued"]
    /\ window' = window \cup {e}
    /\ UNCHANGED <<dlq, dbVars, threadVars, applied, failOpen>>

\* replayFromChannel for a matching letter: publish under the original Msg-Id and
\* ack the letter.  Within the window JetStream drops the copy.  At most one copy
\* of an event is unsettled at a time.
Replay(e) ==
    /\ e \in dlq
    /\ msg[e] = "acked"
    /\ Fault("replay", IF e \in window THEN {e} ELSE {})
    /\ dlq' = dlq \ {e}
    /\ msg' = [msg EXCEPT ![e] = IF e \in window THEN @ ELSE "queued"]
    /\ window' = window \cup {e}
    /\ UNCHANGED <<dbVars, threadVars, applied, failOpen>>

\* A dry run acks the letter without publishing it.
ReplayDryRun(e) ==
    /\ e \in dlq
    /\ Fault("dryrun", {e})
    /\ dlq' = dlq \ {e}
    /\ UNCHANGED <<msg, window, dbVars, threadVars, applied, failOpen>>

-----------------------------------------------------------------------------
ThreadStep(t) ==
    \/ \E e \in Events : Deliver(t, e)
    \/ TryAcquire(t) \/ SkipDuplicate(t) \/ FailOpen(t)
    \/ LockEntity(t) \/ ProcessOk(t) \/ ProcessError(t)
    \/ Release(t) \/ ReleaseError(t)
    \/ IncrementRetry(t) \/ IncrementRetryError(t)
    \/ BackoffNack(t) \/ SendToDLQ(t) \/ SendToDLQError(t) \/ AckMessage(t)

Next ==
    \/ \E t \in Threads : ThreadStep(t) \/ Timeout(t)
    \/ \E p \in Pods : Crash(p)
    \/ \E e \in Events : \/ AckWait(e) \/ WindowExpire(e) \/ RelayDuplicate(e)
                         \/ Replay(e) \/ ReplayDryRun(e)

Spec == Init /\ [][Next]_vars

\* Goroutines keep running, JetStream redelivers what is not acked, and a waiter
\* on a Go mutex gets it (starvation mode), hence SF on the lock.
Fairness ==
    /\ \A t \in Threads : WF_vars(ThreadStep(t)) /\ SF_vars(LockEntity(t))
    /\ \A e \in Events : WF_vars(On(e) = {} /\ AckWait(e))

FairSpec == Spec /\ Fairness

-----------------------------------------------------------------------------
\* Every variable has its type.
TypeOK ==
    /\ msg \in [Events -> {"queued", "out", "acked"}]
    /\ window \in SUBSET Events
    /\ dlq \in SUBSET Events
    /\ keys \in SUBSET Events
    /\ retry \in [Events -> Nat]
    /\ pc \in [Threads -> PCs]
    /\ cur \in [Threads -> Events \cup {NoEvent}]
    /\ expired \in [Threads -> BOOLEAN]
    /\ applied \in [Events -> Nat]
    /\ failOpen \in SUBSET Events
    /\ upset \in SUBSET Events
    /\ budget \in [Kinds -> Nat]

\* "Per-event-instance idempotency": unless the idempotency check failed open,
\* no redelivery, relay duplicate, replay or other pod makes the handler of an
\* event succeed twice.
AppliedAtMostOnce ==
    \A e \in Events \ failOpen : applied[e] <= 1

\* Two goroutines never run the handler of one event at the same time, unless
\* the idempotency check failed open for it.
OneHandlerPerEvent ==
    \A t, u \in Threads :
        /\ t # u /\ cur[t] = cur[u]
        /\ pc[t] \in {"lock", "process"} /\ pc[u] \in {"lock", "process"}
        => cur[t] \in failOpen

\* Nobody works on the event and JetStream will not deliver it again.
Settled(e) == msg[e] = "acked" /\ On(e) = {}

\* An event that met no infrastructure fault itself is applied or dead-lettered
\* when it is settled, whatever its handler returned, however often a copy came
\* back and whatever happened to other events.
UndisturbedNotLost ==
    \A e \in Events \ upset : Settled(e) => applied[e] > 0 \/ e \in dlq

\* Redelivery ends: "Ack'd to prevent infinite redelivery".
EventuallySettled == \A e \in Events : []<>Settled(e)

\* billing_event_consumer.go: "the context is cancelled, the handler returns an
\* error, and the message is Nack'd for retry".  An event is never settled
\* without being applied or dead-lettered.
NoSilentLoss == \A e \in Events : Settled(e) => applied[e] > 0 \/ e \in dlq
=============================================================================
