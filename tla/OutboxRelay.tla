------------------------------ MODULE OutboxRelay ------------------------------
(***************************************************************************)
(* The transactional outbox and the relay that forwards it to JetStream.   *)
(*                                                                         *)
(* Domain services insert outbox rows in their own database transaction    *)
(* (outbox_publisher.go).  Every pod runs WorkerCount relay goroutines     *)
(* (outbox_relay.go); one pass of a worker is one database transaction:    *)
(* lock a batch with FOR UPDATE SKIP LOCKED, publish the rows one by one   *)
(* through the pod's circuit breaker, count the failures, mark the         *)
(* successes, commit.  Nothing a pass writes is visible before its commit, *)
(* so the pass keeps its results in its own variables until then.          *)
(* The published rows are deleted (OutboxRelay.cleanup) or dropped with    *)
(* their quarterly partition (partition_manager.go).                       *)
(*                                                                         *)
(* External: PostgreSQL's row locks, JetStream's Msg-Id window and the     *)
(* gobreaker state machine, modelled from how the relay uses them.         *)
(***************************************************************************)
EXTENDS Integers, Sequences, FiniteSets

CONSTANTS
    Events,             \* outbox row ids (= domain event ids = Nats-Msg-Id)
    EntityOf,           \* the entity each event is about
    HashText,           \* abs(hashtext(entity_id))
    Pods,               \* running instances of the platform
    WorkerCount,        \* relay goroutines in one pod
    BaseBatch,          \* OutboxRelayBatchSize
    MaxBatch,           \* OutboxRelayMaxBatchSize
    MaxRelayAttempts,   \* failed publishes before a row is dead-lettered
    MaxFailures,        \* consecutive failures that open the breaker
    MaxRequests,        \* probes the half-open breaker admits
    Retention,          \* quarters a past partition is kept, 0 = for ever
    MaxQuarter,         \* bound on the clock
    MaxFaults           \* bound on rolled back passes and pod crashes

ASSUME OutboxRelayAssumption ==
    /\ WorkerCount \in Nat \ {0}
    /\ BaseBatch \in Nat \ {0}
    /\ MaxBatch \in Nat \ {0}
    /\ BaseBatch <= MaxBatch
    /\ MaxRelayAttempts \in Nat \ {0}
    /\ MaxFailures \in Nat \ {0}
    /\ MaxRequests \in Nat \ {0}
    /\ Retention \in Nat
    /\ MaxQuarter \in Nat
    /\ MaxFaults \in Nat
    /\ DOMAIN EntityOf = Events
    /\ \A e \in Events : HashText[EntityOf[e]] \in Nat

Workers == Pods \X (0 .. WorkerCount - 1)

VARIABLES
    status,     \* outbox row: published, relay_failed and whether it exists
    seq,        \* sequence_number, drawn at insert, not at commit
    nextSeq,    \* the sequence_number generator
    born,       \* quarter of created_at, hence the row's partition
    attempts,   \* relay_attempts
    quarter,    \* the current quarter
    pc,         \* where a worker stands in its pass
    todo,       \* fetched rows the pass has not handled yet
    ok,         \* publishedIDs of the pass
    failed,     \* failedEvents of the pass
    fresh,      \* the call in flight belongs to the breaker's generation
    size,       \* currentBatchSize of runWorker
    breaker,    \* circuit breaker of each pod
    stream,     \* messages JetStream stored, in order
    window,     \* Msg-Ids JetStream still deduplicates
    faults      \* rollbacks and crashes so far

rowVars == <<status, seq, nextSeq, born, attempts, quarter>>
workerVars == <<pc, todo, ok, failed, fresh, size>>
natsVars == <<breaker, stream, window>>
vars == <<status, seq, nextSeq, born, attempts, quarter, pc, todo, ok, failed,
          fresh, size, breaker, stream, window, faults>>

\* gobreaker: a state change clears the counts.
NewGeneration(st) == [state |-> st, fails |-> 0, requests |-> 0, successes |-> 0]

Init ==
    /\ status = [e \in Events |-> "none"]
    /\ seq = [e \in Events |-> 0]
    /\ nextSeq = 1
    /\ born = [e \in Events |-> 0]
    /\ attempts = [e \in Events |-> 0]
    /\ quarter = 0
    /\ pc = [w \in Workers |-> "idle"]
    /\ todo = [w \in Workers |-> {}]
    /\ ok = [w \in Workers |-> {}]
    /\ failed = [w \in Workers |-> {}]
    /\ fresh = [w \in Workers |-> FALSE]
    /\ size = [w \in Workers |-> BaseBatch]
    /\ breaker = [p \in Pods |-> NewGeneration("closed")]
    /\ stream = <<>>
    /\ window = {}
    /\ faults = 0

-----------------------------------------------------------------------------
(* Domain transactions.  The row's sequence number is drawn when the INSERT *)
(* runs, so rows may become visible out of sequence order.                  *)

PublishBatch(e) ==
    /\ status[e] = "none"
    /\ status' = [status EXCEPT ![e] = "inserting"]
    /\ seq' = [seq EXCEPT ![e] = nextSeq]
    /\ nextSeq' = nextSeq + 1
    /\ born' = [born EXCEPT ![e] = quarter]
    /\ UNCHANGED <<attempts, quarter, workerVars, natsVars, faults>>

CommitDomainTx(e) ==
    /\ status[e] = "inserting"
    /\ status' = [status EXCEPT ![e] = "unpublished"]
    /\ UNCHANGED <<seq, nextSeq, born, attempts, quarter, workerVars, natsVars, faults>>

RollbackDomainTx(e) ==
    /\ status[e] = "inserting"
    /\ status' = [status EXCEPT ![e] = "aborted"]
    /\ UNCHANGED <<seq, nextSeq, born, attempts, quarter, workerVars, natsVars, faults>>

-----------------------------------------------------------------------------
(* A relay pass.                                                            *)

\* Rows locked by the open transactions of the workers.
Batch(w) == todo[w] \cup ok[w] \cup failed[w]
Locked == UNION {Batch(w) : w \in Workers}

\* Mutants: rows other workers have locked are not skipped; no hash partition.
EligibleLockedToo(w) ==
    {e \in Events : /\ status[e] = "unpublished"
                    /\ HashText[EntityOf[e]] % WorkerCount = w[2]}
EligibleAnyWorker(w) == {e \in Events : status[e] = "unpublished" /\ e \notin Locked}

\* The rows that qualify before ORDER BY, LIMIT.
Eligible(w) ==
    {e \in Events : /\ status[e] = "unpublished"
                    /\ e \notin Locked
                    /\ HashText[EntityOf[e]] % WorkerCount = w[2]}

\* The n rows with the smallest sequence numbers.
Oldest(S, n) == {e \in S : Cardinality({f \in S : seq[f] < seq[e]}) < n}

GetUnpublishedForWorker(w) == Oldest(Eligible(w), size[w])

\* The row the loop handles next: events come back ordered by sequence_number.
Current(w) == CHOOSE e \in todo[w] : \A f \in todo[w] : seq[e] <= seq[f]

\* relay up to the fetch.  An open breaker or an empty batch ends the pass,
\* which only resets the batch size.
Poll(w) ==
    /\ pc[w] = "idle"
    /\ breaker[w[1]].state # "open"
    /\ GetUnpublishedForWorker(w) # {}
    /\ pc' = [pc EXCEPT ![w] = "relaying"]
    /\ todo' = [todo EXCEPT ![w] = GetUnpublishedForWorker(w)]
    /\ UNCHANGED <<rowVars, ok, failed, fresh, size, natsVars, faults>>

PollNothing(w) ==
    /\ pc[w] = "idle"
    /\ \/ breaker[w[1]].state = "open"
       \/ GetUnpublishedForWorker(w) = {}
    /\ size' = [size EXCEPT ![w] = BaseBatch]
    /\ UNCHANGED <<rowVars, pc, todo, ok, failed, fresh, natsVars, faults>>

\* gobreaker beforeRequest.
Admits(b) ==
    \/ b.state = "closed"
    \/ b.state = "half-open" /\ b.requests < MaxRequests

CountRequest(b) ==
    [state |-> b.state, fails |-> b.fails, successes |-> b.successes,
     requests |-> IF b.state = "half-open" THEN b.requests + 1 ELSE b.requests]

Admit(w) ==
    /\ pc[w] = "relaying"
    /\ todo[w] # {}
    /\ Admits(breaker[w[1]])
    /\ pc' = [pc EXCEPT ![w] = "calling"]
    /\ fresh' = [fresh EXCEPT ![w] = TRUE]
    /\ breaker' = [breaker EXCEPT ![w[1]] = CountRequest(@)]
    /\ UNCHANGED <<rowVars, todo, ok, failed, size, stream, window, faults>>

\* A refused call is an error like any other: the row joins failedEvents.
Refuse(w) ==
    /\ pc[w] = "relaying"
    /\ todo[w] # {}
    /\ ~Admits(breaker[w[1]])
    /\ failed' = [failed EXCEPT ![w] = @ \cup {Current(w)}]
    /\ todo' = [todo EXCEPT ![w] = @ \ {Current(w)}]
    /\ UNCHANGED <<rowVars, pc, ok, fresh, size, natsVars, faults>>

\* gobreaker afterRequest for a call of the current generation.
OnSuccess(b) ==
    IF b.state = "half-open" /\ b.successes + 1 >= MaxRequests
    THEN NewGeneration("closed")
    ELSE [state |-> b.state, fails |-> 0, requests |-> b.requests,
          successes |-> IF b.state = "half-open" THEN b.successes + 1 ELSE b.successes]
OnFailure(b) ==
    IF b.state = "half-open" \/ b.fails + 1 >= MaxFailures
    THEN NewGeneration("open")
    ELSE [state |-> b.state, fails |-> b.fails + 1, requests |-> b.requests, successes |-> 0]

\* A state change starts a new generation: results of older calls are ignored.
AfterRequest(w, b) ==
    LET p == w[1]
    IN  IF fresh[w]
        THEN /\ breaker' = [breaker EXCEPT ![p] = b]
             /\ fresh' = [v \in Workers |->
                            fresh[v] /\ v # w /\ (v[1] = p => b.state = breaker[p].state)]
        ELSE UNCHANGED <<breaker, fresh>>

\* JetStream stores a message unless its Msg-Id is in the duplicate window.
JetStreamStores(e) ==
    /\ stream' = IF e \in window THEN stream ELSE Append(stream, e)
    /\ window' = window \cup {e}

PublishRaw(w) ==
    /\ pc[w] = "calling"
    /\ JetStreamStores(Current(w))
    /\ AfterRequest(w, OnSuccess(breaker[w[1]]))
    /\ ok' = [ok EXCEPT ![w] = @ \cup {Current(w)}]
    /\ todo' = [todo EXCEPT ![w] = @ \ {Current(w)}]
    /\ pc' = [pc EXCEPT ![w] = "relaying"]
    /\ UNCHANGED <<rowVars, failed, size, faults>>

\* Mutant: the error of PublishRaw is ignored.
PublishRawErrorIgnored(w) ==
    /\ pc[w] = "calling"
    /\ AfterRequest(w, OnFailure(breaker[w[1]]))
    /\ ok' = [ok EXCEPT ![w] = @ \cup {Current(w)}]
    /\ todo' = [todo EXCEPT ![w] = @ \ {Current(w)}]
    /\ pc' = [pc EXCEPT ![w] = "relaying"]
    /\ UNCHANGED <<rowVars, failed, size, stream, window, faults>>

\* The call errs: the message is lost, or stored while its ack is lost.
PublishRawError(w) ==
    /\ pc[w] = "calling"
    /\ \/ JetStreamStores(Current(w))
       \/ UNCHANGED <<stream, window>>
    /\ AfterRequest(w, OnFailure(breaker[w[1]]))
    /\ failed' = [failed EXCEPT ![w] = @ \cup {Current(w)}]
    /\ todo' = [todo EXCEPT ![w] = @ \ {Current(w)}]
    /\ pc' = [pc EXCEPT ![w] = "relaying"]
    /\ UNCHANGED <<rowVars, ok, size, faults>>

\* Mutants: failures are not counted; every fetched row is marked.
IncrementNothing(w) == attempts' = attempts
MarkWholeBatch(w) ==
    status' = [e \in Events |-> IF e \in ok[w] \cup failed[w] THEN "published"
                                                            ELSE status[e]]

\* IncrementRelayAttempts on failedEvents, MarkPublishedBatch on publishedIDs.
IncrementRelayAttempts(w) ==
    attempts' = [e \in Events |-> IF e \in failed[w] THEN attempts[e] + 1
                                                     ELSE attempts[e]]
MarkPublishedBatch(w) ==
    status' = [e \in Events |->
                 IF e \in ok[w] THEN "published"
                 ELSE IF e \in failed[w] /\ attempts[e] + 1 >= MaxRelayAttempts
                      THEN "dead"
                      ELSE status[e]]

\* runWorker's adaptive batch size, from the count relay returned.
NextSize(n, published) ==
    IF published = n
    THEN IF 2 * n <= MaxBatch THEN 2 * n ELSE MaxBatch
    ELSE BaseBatch

EndPass(w, published) ==
    /\ pc' = [pc EXCEPT ![w] = "idle"]
    /\ ok' = [ok EXCEPT ![w] = {}]
    /\ failed' = [failed EXCEPT ![w] = {}]
    /\ size' = [size EXCEPT ![w] = NextSize(@, published)]

\* COMMIT reached the database, whatever the client heard of it.
Commit(w) ==
    /\ pc[w] = "relaying"
    /\ todo[w] = {}
    /\ IncrementRelayAttempts(w)
    /\ MarkPublishedBatch(w)
    /\ EndPass(w, Cardinality(ok[w]))
    /\ UNCHANGED <<seq, nextSeq, born, quarter, todo, fresh, natsVars, faults>>

\* A statement or the COMMIT failed.  published keeps its count when only the
\* COMMIT failed, and the row locks are released in both cases.
Rollback(w) ==
    /\ faults < MaxFaults
    /\ pc[w] = "relaying"
    /\ todo[w] = {}
    /\ \E published \in {0, Cardinality(ok[w])} : EndPass(w, published)
    /\ faults' = faults + 1
    /\ UNCHANGED <<rowVars, todo, fresh, natsVars>>

-----------------------------------------------------------------------------
(* Environment and housekeeping.                                            *)

\* The breaker's timeout ran out.
BreakerTimeout(p) ==
    /\ breaker[p].state = "open"
    /\ breaker' = [breaker EXCEPT ![p] = NewGeneration("half-open")]
    /\ fresh' = [w \in Workers |-> fresh[w] /\ w[1] # p]
    /\ UNCHANGED <<rowVars, pc, todo, ok, failed, size, stream, window, faults>>

\* A pod dies: its transactions roll back, its breaker and batch sizes are new.
Crash(p) ==
    /\ faults < MaxFaults
    /\ faults' = faults + 1
    /\ pc' = [w \in Workers |-> IF w[1] = p THEN "idle" ELSE pc[w]]
    /\ todo' = [w \in Workers |-> IF w[1] = p THEN {} ELSE todo[w]]
    /\ ok' = [w \in Workers |-> IF w[1] = p THEN {} ELSE ok[w]]
    /\ failed' = [w \in Workers |-> IF w[1] = p THEN {} ELSE failed[w]]
    /\ fresh' = [w \in Workers |-> IF w[1] = p THEN FALSE ELSE fresh[w]]
    /\ size' = [w \in Workers |-> IF w[1] = p THEN BaseBatch ELSE size[w]]
    /\ breaker' = [breaker EXCEPT ![p] = NewGeneration("closed")]
    /\ UNCHANGED <<rowVars, stream, window>>

DedupExpire(e) ==
    /\ e \in window
    /\ window' = window \ {e}
    /\ UNCHANGED <<rowVars, workerVars, breaker, stream, faults>>

\* A domain transaction never lasts into a later quarter.
NextQuarter ==
    /\ quarter < MaxQuarter
    /\ \A e \in Events : status[e] # "inserting"
    /\ quarter' = quarter + 1
    /\ UNCHANGED <<status, seq, nextSeq, born, attempts, workerVars, natsVars, faults>>

\* OutboxRelay.cleanup: published rows of the current quarter that are past the
\* seven days; which ones are old enough is the clock's choice.
DeleteOld ==
    /\ \E S \in SUBSET {e \in Events : status[e] = "published" /\ born[e] = quarter} :
          /\ S # {}
          /\ status' = [e \in Events |-> IF e \in S THEN "gone" ELSE status[e]]
    /\ UNCHANGED <<seq, nextSeq, born, attempts, quarter, workerVars, natsVars, faults>>

\* Rows a partition holds, rows with published = false.
Rows(q) == {e \in Events : born[e] = q /\ status[e] \in {"unpublished", "published", "dead"}}
\* Mutant: countUnpublishedSQL's relay_failed filter also in the drop checks.
UnpublishedNotFailed == {e \in Events : status[e] = "unpublished"}
Unpublished == {e \in Events : status[e] \in {"unpublished", "dead"}}

HasUnpublished(q) == Rows(q) \cap Unpublished # {}

IsSafeToDrop(q) == \A e \in Rows(q), f \in Unpublished : seq[e] < seq[f]

\* PartitionManager.cleanup for one expired partition.  Rows of an old partition
\* only ever become published, so what the two checks saw still holds at DROP.
DropPartition(q) ==
    /\ Retention > 0
    /\ q + Retention < quarter
    /\ ~HasUnpublished(q)
    /\ IsSafeToDrop(q)
    /\ Rows(q) # {}
    /\ status' = [e \in Events |-> IF e \in Rows(q) THEN "gone" ELSE status[e]]
    /\ UNCHANGED <<seq, nextSeq, born, attempts, quarter, workerVars, natsVars, faults>>

-----------------------------------------------------------------------------
WorkerStep(w) ==
    \/ Poll(w) \/ PollNothing(w)
    \/ Admit(w) \/ Refuse(w) \/ PublishRaw(w) \/ PublishRawError(w)
    \/ Commit(w) \/ Rollback(w)

Next ==
    \/ \E e \in Events : \/ PublishBatch(e)
                         \/ CommitDomainTx(e) \/ RollbackDomainTx(e)
                         \/ DedupExpire(e)
    \/ \E w \in Workers : WorkerStep(w)
    \/ \E p \in Pods : BreakerTimeout(p) \/ Crash(p)
    \/ NextQuarter
    \/ DeleteOld
    \/ \E q \in 0 .. MaxQuarter : DropPartition(q)

Spec == Init /\ [][Next]_vars

\* Timers fire and calls return; a pass whose calls returned reaches COMMIT
\* unless the transaction fails, which happens at most MaxFaults times.
Fairness ==
    /\ \A w \in Workers : /\ WF_vars(Poll(w))
                          /\ WF_vars(Admit(w) \/ Refuse(w))
                          /\ WF_vars(PublishRaw(w) \/ PublishRawError(w))
                          /\ WF_vars(Commit(w) \/ Rollback(w))
    /\ \A p \in Pods : WF_vars(BreakerTimeout(p))

FairSpec == Spec /\ Fairness

-----------------------------------------------------------------------------
Statuses == {"none", "inserting", "aborted", "unpublished", "published", "dead", "gone"}

Breakers == [state : {"closed", "open", "half-open"},
             fails : Nat, requests : Nat, successes : Nat]

\* Every variable has its type.
TypeOK ==
    /\ status \in [Events -> Statuses]
    /\ seq \in [Events -> Nat]
    /\ nextSeq \in Nat \ {0}
    /\ born \in [Events -> Nat]
    /\ attempts \in [Events -> Nat]
    /\ quarter \in Nat
    /\ pc \in [Workers -> {"idle", "relaying", "calling"}]
    /\ todo \in [Workers -> SUBSET Events]
    /\ ok \in [Workers -> SUBSET Events]
    /\ failed \in [Workers -> SUBSET Events]
    /\ fresh \in [Workers -> BOOLEAN]
    /\ size \in [Workers -> Nat \ {0}]
    /\ breaker \in [Pods -> Breakers]
    /\ stream \in Seq(Events)
    /\ window \in SUBSET Events
    /\ faults \in Nat

Delivered == {stream[i] : i \in 1 .. Len(stream)}

\* The outbox as its users see it.
PhaseOf(st) ==
    CASE st \in {"none", "inserting", "aborted"} -> "absent"
      [] st = "unpublished" -> "pending"
      [] st \in {"published", "gone"} -> "done"
      [] st = "dead" -> "dead"

Delivery == INSTANCE OutboxDelivery WITH
                phase <- [e \in Events |-> PhaseOf(status[e])],
                delivered <- Delivered

\* The relay implements OutboxDelivery: an event reaches JetStream only while its
\* committed row is pending, is done only after it reached JetStream, and
\* cleanup, drops, crashes and rollbacks change nothing a user could see.
ImplementsDelivery == Delivery!DSpec

\* At-least-once, across commits that fail, crashes, cleanup and partition
\* drops: a row the database shows as published, or that has been deleted or
\* dropped with its partition, is on the stream.
SettledWasDelivered ==
    \A e \in Events : status[e] \in {"published", "gone"} => e \in Delivered

\* "rows are never processed by more than one worker": every row a pass holds is
\* still unpublished in the database and in no other pass, so no worker of any
\* pod publishes a row that another has already settled.
BatchIsCurrent ==
    \A w \in Workers :
        /\ \A e \in Batch(w) : status[e] = "unpublished"
        /\ \A v \in Workers : v # w => Batch(v) \cap Batch(w) = {}

\* "events for the same entity always go to the same worker": inside one pod the
\* rows of one entity are never in two passes at once, so the entity's events are
\* published one after the other.
OneWorkerPerEntity ==
    \A v, w \in Workers : v # w /\ v[1] = w[1] =>
        \A e \in Batch(v), f \in Batch(w) : EntityOf[e] # EntityOf[f]

\* "The event remains in the table for manual inspection": neither the hourly
\* DELETE nor a partition drop removes a dead-lettered row.
DeadRowsKept == [][\A e \in Events : status[e] = "dead" => status'[e] = "dead"]_vars

\* A committed row is never forgotten: it is marked published or, after
\* MaxRelayAttempts failed passes, dead-lettered, even when NATS never answers.
EverySettled ==
    \A e \in Events : status[e] = "unpublished" ~> status[e] # "unpublished"

\* outbox_relay.go, relay: "events for the same entity always go to the same
\* worker, preserving per-entity ordering".  A pass that could not hand an event
\* to JetStream hands over no later event of the same entity.
PerEntityOrdering ==
    \A w \in Workers : \A e \in failed[w] \ Delivered, f \in ok[w] :
        EntityOf[e] = EntityOf[f] => seq[f] < seq[e]
=============================================================================
