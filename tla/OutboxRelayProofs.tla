-------------------------- MODULE OutboxRelayProofs --------------------------
(***************************************************************************)
(* Proofs about OutboxRelay, for every value of its constants; and about   *)
(* the records of the sagas its events start (SagaRecords) and the HTTP    *)
(* gateway, for any routes, roles and workers (Gateway).                   *)
(***************************************************************************)
EXTENDS OutboxRelay, SagaRecords, Gateway, TLAPS, WellFoundedInduction

-----------------------------------------------------------------------------
(* Facts about the operators of a pass.                                     *)

\* A nonempty set of naturals has a minimal element: "<" is well-founded.
LEMMA MinimalNatural ==
    ASSUME NEW U, U \subseteq Nat, U # {}
    PROVE  \E x \in U : \A y \in U : ~(y < x)
<1> DEFINE R == {ss \in Nat \X Nat : ss[1] < ss[2]}
<1>1. IsWellFoundedOn(R, Nat)
  BY NatLessThanWellFounded DEF OpToRel
<1> HIDE DEF R
<1>2. \E x \in U : \A y \in U : ~ (<<y, x>> \in R)
  BY <1>1, WFMin
<1> QED
  BY <1>2 DEF R

\* The row the publish loop handles next is one of the rows it still has.
LEMMA CurrentInTodo ==
    ASSUME NEW w \in Workers, seq \in [Events -> Nat],
           todo[w] \subseteq Events, todo[w] # {}
    PROVE  Current(w) \in todo[w]
<1> DEFINE U == {seq[e] : e \in todo[w]}
<1>1. U \subseteq Nat /\ U # {}
  OBVIOUS
<1> HIDE DEF U
<1>2. PICK x \in U : \A y \in U : ~(y < x)
  BY <1>1, MinimalNatural
<1> USE DEF U
<1>3. PICK e \in todo[w] : x = seq[e]
  BY <1>2
<1>4. \A f \in todo[w] : seq[e] <= seq[f]
  BY <1>2, <1>3
<1> QED
  BY <1>3, <1>4 DEF Current

\* A fetch returns unpublished rows that no open pass holds.
LEMMA FetchedRows ==
    ASSUME NEW w \in Workers, NEW e \in GetUnpublishedForWorker(w)
    PROVE  /\ e \in Events
           /\ status[e] = "unpublished"
           /\ \A v \in Workers : e \notin Batch(v)
  BY DEF GetUnpublishedForWorker, Oldest, Eligible, Locked

\* The batch size stays positive, whatever relay reported.
LEMMA NextSizePositive ==
    ASSUME NEW n \in Nat \ {0}, NEW published
    PROVE  NextSize(n, published) \in Nat \ {0}
  BY OutboxRelayAssumption DEF NextSize

-----------------------------------------------------------------------------
(* Type correctness.  It needs one more fact: a call is in flight only for a *)
(* row the pass still has, so the row it settles is an event.                *)

CallHasRow == \A w \in Workers : pc[w] = "calling" => todo[w] # {}

TypeInv == TypeOK /\ CallHasRow

\* What gobreaker makes of a breaker is a breaker.
LEMMA BreakerTypes ==
    /\ \A st \in {"closed", "open", "half-open"} : NewGeneration(st) \in Breakers
    /\ \A b \in Breakers : /\ CountRequest(b) \in Breakers
                           /\ OnSuccess(b) \in Breakers
                           /\ OnFailure(b) \in Breakers
  BY DEF Breakers, NewGeneration, CountRequest, OnSuccess, OnFailure

\* Every step of the relay keeps the types.
LEMMA TypeStep ==
    ASSUME TypeInv, [Next]_vars
    PROVE  TypeInv'
<1> USE DEF TypeInv, TypeOK, CallHasRow, Statuses, rowVars, workerVars, natsVars
<1>1. ASSUME NEW e \in Events, PublishBatch(e)
      PROVE  TypeInv'
  BY <1>1 DEF PublishBatch
<1>2. ASSUME NEW e \in Events, CommitDomainTx(e) \/ RollbackDomainTx(e) \/ DedupExpire(e)
      PROVE  TypeInv'
  BY <1>2 DEF CommitDomainTx, RollbackDomainTx, DedupExpire
<1>3. ASSUME NEW w \in Workers, Poll(w)
      PROVE  TypeInv'
  <2>1. GetUnpublishedForWorker(w) \in SUBSET Events
    BY FetchedRows
  <2> QED
    BY <1>3, <2>1 DEF Poll
<1>4. ASSUME NEW w \in Workers, PollNothing(w)
      PROVE  TypeInv'
  BY <1>4, OutboxRelayAssumption DEF PollNothing
<1>5. ASSUME NEW w \in Workers, Admit(w) \/ Refuse(w) \/ PublishRaw(w) \/ PublishRawError(w)
      PROVE  TypeInv'
  <2>1. w[1] \in Pods
    BY DEF Workers
  <2>2. todo[w] # {}
    BY <1>5 DEF Admit, Refuse, PublishRaw, PublishRawError
  <2>3. Current(w) \in Events
    BY <2>2, CurrentInTodo
  <2>4. CASE Admit(w)
    BY <2>1, <2>2, <2>3, <2>4, BreakerTypes DEF Admit
  <2>5. CASE Refuse(w)
    BY <2>3, <2>5 DEF Refuse
  <2>6. ASSUME NEW b \in Breakers, AfterRequest(w, b)
        PROVE  breaker' \in [Pods -> Breakers] /\ fresh' \in [Workers -> BOOLEAN]
    BY <2>1, <2>6 DEF AfterRequest
  <2>7. ASSUME JetStreamStores(Current(w))
        PROVE  stream' \in Seq(Events) /\ window' \in SUBSET Events
    BY <2>3, <2>7 DEF JetStreamStores
  <2>8. breaker[w[1]] \in Breakers
    BY <2>1
  <2>9. CASE PublishRaw(w)
    <3>1. breaker' \in [Pods -> Breakers] /\ fresh' \in [Workers -> BOOLEAN]
      BY <2>6, <2>8, <2>9, BreakerTypes DEF PublishRaw
    <3>2. stream' \in Seq(Events) /\ window' \in SUBSET Events
      BY <2>7, <2>9 DEF PublishRaw
    <3> QED
      BY <2>3, <2>9, <3>1, <3>2 DEF PublishRaw
  <2>10. CASE PublishRawError(w)
    <3>1. breaker' \in [Pods -> Breakers] /\ fresh' \in [Workers -> BOOLEAN]
      BY <2>6, <2>8, <2>10, BreakerTypes DEF PublishRawError
    <3>2. stream' \in Seq(Events) /\ window' \in SUBSET Events
      BY <2>7, <2>10 DEF PublishRawError
    <3> QED
      BY <2>3, <2>10, <3>1, <3>2 DEF PublishRawError
  <2> QED
    BY <1>5, <2>4, <2>5, <2>9, <2>10
<1>6. ASSUME NEW w \in Workers, NEW n, EndPass(w, n), todo[w] = {}, UNCHANGED todo
      PROVE  /\ pc' \in [Workers -> {"idle", "relaying", "calling"}]
             /\ ok' \in [Workers -> SUBSET Events]
             /\ failed' \in [Workers -> SUBSET Events]
             /\ size' \in [Workers -> Nat \ {0}]
             /\ CallHasRow'
  BY <1>6, NextSizePositive DEF EndPass
<1>7. ASSUME NEW w \in Workers, Commit(w)
      PROVE  TypeInv'
  BY <1>6, <1>7 DEF Commit, IncrementRelayAttempts, MarkPublishedBatch
<1>8. ASSUME NEW w \in Workers, Rollback(w)
      PROVE  TypeInv'
  BY <1>6, <1>8 DEF Rollback
<1>9. ASSUME NEW p \in Pods, BreakerTimeout(p)
      PROVE  TypeInv'
  BY <1>9, BreakerTypes DEF BreakerTimeout
<1>10. ASSUME NEW p \in Pods, Crash(p)
       PROVE  TypeInv'
  <2>1. breaker' \in [Pods -> Breakers]
    BY <1>10, BreakerTypes DEF Crash
  <2>2. size' \in [Workers -> Nat \ {0}]
    BY <1>10, OutboxRelayAssumption DEF Crash
  <2>3. /\ pc' \in [Workers -> {"idle", "relaying", "calling"}]
        /\ todo' \in [Workers -> SUBSET Events]
        /\ ok' \in [Workers -> SUBSET Events]
        /\ failed' \in [Workers -> SUBSET Events]
        /\ fresh' \in [Workers -> BOOLEAN]
    BY <1>10 DEF Crash
  <2>4. CallHasRow'
    BY <1>10 DEF Crash
  <2>5. UNCHANGED <<status, seq, nextSeq, born, attempts, quarter, stream, window>>
    BY <1>10 DEF Crash
  <2>6. faults' \in Nat
    BY <1>10 DEF Crash
  <2> QED
    BY <2>1, <2>2, <2>3, <2>4, <2>5, <2>6
<1>11. CASE NextQuarter \/ DeleteOld
  BY <1>11 DEF NextQuarter, DeleteOld
<1>12. ASSUME NEW q, DropPartition(q)
       PROVE  TypeInv'
  BY <1>12 DEF DropPartition
<1>13. CASE UNCHANGED vars
  BY <1>13 DEF vars
<1> QED
  BY <1>1, <1>2, <1>3, <1>4, <1>5, <1>7, <1>8, <1>9, <1>10, <1>11, <1>12, <1>13
  DEF Next, WorkerStep

\* Every variable of the relay keeps its type in every reachable state.
THEOREM TypeCorrect == Spec => []TypeOK
<1>1. Init => TypeInv
  BY OutboxRelayAssumption, BreakerTypes
  DEF Init, TypeInv, TypeOK, CallHasRow, Statuses
<1>2. TypeInv /\ [Next]_vars => TypeInv'
  BY TypeStep
<1>3. TypeInv => TypeOK
  BY DEF TypeInv
<1> QED
  BY <1>1, <1>2, <1>3, PTL DEF Spec

-----------------------------------------------------------------------------
(* At-least-once delivery and exclusive batches.                            *)
(*                                                                          *)
(* A row is settled at COMMIT from the pass's own ok set, so the invariant  *)
(* says that every row in an ok set is on the stream; it got there by being *)
(* stored or by being dropped as a duplicate, so the Msg-Ids of the window  *)
(* are on the stream too.  Batches are exclusive because a fetch skips      *)
(* locked rows and only the pass that holds a row changes it.               *)

AckedRowsStored == \A w \in Workers : ok[w] \subseteq Delivered

RelayInv ==
    /\ TypeInv
    /\ AckedRowsStored
    /\ window \subseteq Delivered
    /\ SettledWasDelivered
    /\ BatchIsCurrent

\* After a store, accepted or deduplicated, the event is on the stream.
LEMMA StoredEvent ==
    ASSUME stream \in Seq(Events), window \subseteq Delivered,
           NEW e \in Events, JetStreamStores(e)
    PROVE  Delivered' = Delivered \cup {e} /\ window' \subseteq Delivered'
<1>1. CASE e \in window
  BY <1>1 DEF JetStreamStores, Delivered
<1>2. CASE e \notin window
  <2>1. stream' = Append(stream, e)
    BY <1>2 DEF JetStreamStores
  <2>2. /\ Len(stream') = Len(stream) + 1
        /\ Len(stream) \in Nat
        /\ \A i \in 1 .. Len(stream) : stream'[i] = stream[i]
        /\ stream'[Len(stream) + 1] = e
    BY <2>1
  <2>3. Delivered' = Delivered \cup {e}
    BY <2>2 DEF Delivered
  <2> QED
    BY <2>3 DEF JetStreamStores
<1> QED
  BY <1>1, <1>2

\* Handling a row moves it inside its batch.
LEMMA BatchKept ==
    ASSUME TypeInv, NEW w \in Workers,
           Admit(w) \/ Refuse(w) \/ PublishRaw(w) \/ PublishRawError(w)
    PROVE  /\ Current(w) \in Events
           /\ Current(w) \in todo[w]
           /\ \A v \in Workers : Batch(v)' = Batch(v)
<1> USE DEF TypeInv, TypeOK, CallHasRow
<1>1. todo[w] # {}
  BY DEF Admit, Refuse, PublishRaw, PublishRawError
<1>2. Current(w) \in todo[w]
  BY <1>1, CurrentInTodo
<1>3. Current(w) \in Events
  BY <1>2
<1>4. ASSUME NEW v \in Workers
      PROVE  Batch(v)' = Batch(v)
  <2>1. CASE v # w
    BY <2>1 DEF Admit, Refuse, PublishRaw, PublishRawError, Batch,
                rowVars, workerVars, natsVars
  <2>2. CASE v = w
    <3> DEFINE c == Current(w)
    <3>1. c \in todo[w]
      BY <1>2
    <3> HIDE DEF c
    <3>2. \/ todo'[w] = todo[w] /\ ok'[w] = ok[w] /\ failed'[w] = failed[w]
          \/ todo'[w] = todo[w] \ {c} /\ ok'[w] = ok[w] \cup {c} /\ failed'[w] = failed[w]
          \/ todo'[w] = todo[w] \ {c} /\ ok'[w] = ok[w] /\ failed'[w] = failed[w] \cup {c}
      BY DEF Admit, Refuse, PublishRaw, PublishRawError, c, rowVars, workerVars, natsVars
    <3> QED
      BY <2>2, <3>1, <3>2 DEF Batch
  <2> QED
    BY <2>1, <2>2
<1> QED
  BY <1>2, <1>3, <1>4

\* Only published rows are deleted or dropped with their partition.
LEMMA RemovedRowsWerePublished ==
    ASSUME TypeOK, DeleteOld \/ \E q \in 0 .. MaxQuarter : DropPartition(q),
           NEW e \in Events
    PROVE  status'[e] = status[e] \/ (status[e] = "published" /\ status'[e] = "gone")
<1>1. CASE DeleteOld
  BY <1>1 DEF DeleteOld, TypeOK
<1>2. ASSUME NEW q \in 0 .. MaxQuarter, DropPartition(q)
      PROVE  status'[e] = status[e] \/ (status[e] = "published" /\ status'[e] = "gone")
  <2>1. e \in Rows(q) => status[e] = "published"
    BY <1>2 DEF DropPartition, HasUnpublished, Rows, Unpublished
  <2> QED
    BY <1>2, <2>1 DEF DropPartition, TypeOK
<1> QED
  BY <1>1, <1>2

\* Every step of the relay keeps the invariant.
LEMMA RelayStep ==
    ASSUME RelayInv, [Next]_vars
    PROVE  RelayInv'
<1>1. TypeInv /\ TypeInv'
  BY TypeStep DEF RelayInv
<1>2. TypeOK /\ TypeOK'
  BY <1>1 DEF TypeInv
<1> USE DEF RelayInv, AckedRowsStored, SettledWasDelivered, BatchIsCurrent
<1>3. ASSUME NEW e \in Events,
             PublishBatch(e) \/ CommitDomainTx(e) \/ RollbackDomainTx(e)
      PROVE  RelayInv'
  <2>1. /\ status[e] \in {"none", "inserting"}
        /\ status'[e] \in {"inserting", "unpublished", "aborted"}
        /\ \A f \in Events : f # e => status'[f] = status[f]
    BY <1>2, <1>3 DEF PublishBatch, CommitDomainTx, RollbackDomainTx, TypeOK
  <2>2. UNCHANGED <<todo, ok, failed, stream, window>>
    BY <1>3 DEF PublishBatch, CommitDomainTx, RollbackDomainTx, workerVars, natsVars
  <2>3. Delivered' = Delivered /\ \A v \in Workers : Batch(v)' = Batch(v)
    BY <2>2 DEF Delivered, Batch
  <2>4. \A v \in Workers : Batch(v) \subseteq Events
    BY <1>2 DEF Batch, TypeOK
  <2> QED
    BY <1>1, <2>1, <2>2, <2>3, <2>4
<1>4. ASSUME NEW w \in Workers, Poll(w)
      PROVE  RelayInv'
  <2>1. /\ UNCHANGED <<status, ok, failed, stream, window>>
        /\ todo' = [todo EXCEPT ![w] = GetUnpublishedForWorker(w)]
    BY <1>4 DEF Poll, rowVars, natsVars
  <2>2. Delivered' = Delivered
    BY <2>1 DEF Delivered
  <2>3. \A v \in Workers : v # w => Batch(v)' = Batch(v)
    BY <1>2, <2>1 DEF Batch, TypeOK
  <2>4. Batch(w)' \subseteq Batch(w) \cup GetUnpublishedForWorker(w)
    BY <1>2, <2>1 DEF Batch, TypeOK
  <2>5. \A e \in GetUnpublishedForWorker(w) :
            status[e] = "unpublished" /\ \A v \in Workers : e \notin Batch(v)
    BY FetchedRows
  <2>6. BatchIsCurrent'
    <3>1. \A v \in Workers : \A e \in Batch(v)' : status'[e] = "unpublished"
      BY <2>1, <2>3, <2>4, <2>5
    <3>2. \A u, v \in Workers : u # v => Batch(u)' \cap Batch(v)' = {}
      BY <2>3, <2>4, <2>5
    <3> QED
      BY <3>1, <3>2
  <2> QED
    BY <1>1, <2>1, <2>2, <2>6
<1>5. ASSUME NEW w \in Workers, Admit(w) \/ Refuse(w) \/ PublishRaw(w) \/ PublishRawError(w)
      PROVE  RelayInv'
  <2>1. /\ Current(w) \in Events
        /\ \A v \in Workers : Batch(v)' = Batch(v)
    BY <1>1, <1>5, BatchKept
  <2>2. status' = status
    BY <1>5 DEF Admit, Refuse, PublishRaw, PublishRawError, rowVars
  <2>3. BatchIsCurrent'
    BY <2>1, <2>2
  <2>4. CASE Admit(w) \/ Refuse(w)
    <3>1. UNCHANGED <<ok, stream, window>>
      BY <2>4 DEF Admit, Refuse, natsVars
    <3>2. Delivered' = Delivered
      BY <3>1 DEF Delivered
    <3> QED
      BY <1>1, <2>2, <2>3, <3>1, <3>2
  <2>5. CASE PublishRaw(w)
    <3>1. Delivered' = Delivered \cup {Current(w)} /\ window' \subseteq Delivered'
      BY <1>2, <2>1, <2>5, StoredEvent DEF PublishRaw, TypeOK
    <3>2. \A v \in Workers : ok'[v] \subseteq ok[v] \cup {Current(w)}
      BY <1>2, <2>5 DEF PublishRaw, TypeOK
    <3>3. AckedRowsStored'
      BY <3>1, <3>2
    <3> QED
      BY <1>1, <2>2, <2>3, <3>1, <3>3
  <2>6. CASE PublishRawError(w)
    <3>1. \/ Delivered' = Delivered /\ window' = window
          \/ Delivered' = Delivered \cup {Current(w)} /\ window' \subseteq Delivered'
      <4>1. CASE JetStreamStores(Current(w))
        BY <1>2, <2>1, <4>1, StoredEvent DEF TypeOK
      <4>2. CASE UNCHANGED <<stream, window>>
        BY <4>2 DEF Delivered
      <4> QED
        BY <2>6, <4>1, <4>2 DEF PublishRawError
    <3>2. ok' = ok
      BY <2>6 DEF PublishRawError
    <3> QED
      BY <1>1, <2>2, <2>3, <3>1, <3>2
  <2> QED
    BY <1>5, <2>4, <2>5, <2>6
<1>6. ASSUME NEW w \in Workers, NEW n, EndPass(w, n),
             todo[w] = {}, UNCHANGED <<todo, stream, window>>
      PROVE  /\ Delivered' = Delivered
             /\ Batch(w)' = {}
             /\ \A v \in Workers : v # w => Batch(v)' = Batch(v)
             /\ \A v \in Workers : ok'[v] \subseteq ok[v]
  BY <1>2, <1>6 DEF EndPass, Delivered, Batch, TypeOK
<1>7. ASSUME NEW w \in Workers, Commit(w)
      PROVE  RelayInv'
  <2>1. /\ Delivered' = Delivered
        /\ Batch(w)' = {}
        /\ \A v \in Workers : v # w => Batch(v)' = Batch(v)
        /\ \A v \in Workers : ok'[v] \subseteq ok[v]
    BY <1>6, <1>7 DEF Commit, natsVars
  <2>2. \A e \in Events : /\ e \notin Batch(w) => status'[e] = status[e]
                          /\ status'[e] \in {status[e], "dead"} \/ e \in ok[w]
    BY <1>7 DEF Commit, MarkPublishedBatch, Batch
  <2>3. window' = window
    BY <1>7 DEF Commit, natsVars
  <2>4. BatchIsCurrent'
    <3>1. \A v \in Workers : Batch(v) \subseteq Events
      BY <1>2 DEF Batch, TypeOK
    <3> QED
      BY <2>1, <2>2, <3>1
  <2>5. SettledWasDelivered'
    BY <2>1, <2>2
  <2> QED
    BY <1>1, <2>1, <2>3, <2>4, <2>5
<1>8. ASSUME NEW w \in Workers, Rollback(w)
      PROVE  RelayInv'
  <2>1. /\ Delivered' = Delivered
        /\ Batch(w)' = {}
        /\ \A v \in Workers : v # w => Batch(v)' = Batch(v)
        /\ \A v \in Workers : ok'[v] \subseteq ok[v]
    BY <1>6, <1>8 DEF Rollback, natsVars
  <2>2. UNCHANGED <<status, window>>
    BY <1>8 DEF Rollback, rowVars, natsVars
  <2> QED
    BY <1>1, <2>1, <2>2
<1>9. ASSUME NEW p \in Pods, Crash(p)
      PROVE  RelayInv'
  <2>1. UNCHANGED <<status, stream, window>>
    BY <1>9 DEF Crash, rowVars
  <2>2. Delivered' = Delivered
    BY <2>1 DEF Delivered
  <2>3. \A v \in Workers : ok'[v] \subseteq ok[v] /\ Batch(v)' \subseteq Batch(v)
    BY <1>9 DEF Crash, Batch
  <2> QED
    BY <1>1, <2>1, <2>2, <2>3
<1>10. ASSUME DeleteOld \/ \E q \in 0 .. MaxQuarter : DropPartition(q)
       PROVE  RelayInv'
  <2>1. \A e \in Events : status'[e] = status[e]
                          \/ (status[e] = "published" /\ status'[e] = "gone")
    BY <1>2, <1>10, RemovedRowsWerePublished
  <2>2. UNCHANGED <<todo, ok, failed, stream, window>>
    BY <1>10 DEF DeleteOld, DropPartition, workerVars, natsVars
  <2>3. Delivered' = Delivered /\ \A v \in Workers : Batch(v)' = Batch(v)
    BY <2>2 DEF Delivered, Batch
  <2>4. \A v \in Workers : Batch(v) \subseteq Events
    BY <1>2 DEF Batch, TypeOK
  <2> QED
    BY <1>1, <2>1, <2>2, <2>3, <2>4
<1>11. ASSUME \/ \E e \in Events : DedupExpire(e)
              \/ \E w \in Workers : PollNothing(w)
              \/ \E p \in Pods : BreakerTimeout(p)
              \/ NextQuarter
              \/ UNCHANGED vars
       PROVE  RelayInv'
  <2>1. UNCHANGED <<status, todo, ok, failed, stream>> /\ window' \subseteq window
    BY <1>11 DEF DedupExpire, PollNothing, BreakerTimeout, NextQuarter,
                 vars, rowVars, workerVars, natsVars
  <2>2. Delivered' = Delivered /\ \A v \in Workers : Batch(v)' = Batch(v)
    BY <2>1 DEF Delivered, Batch
  <2> QED
    BY <1>1, <2>1, <2>2
<1> QED
  BY <1>3, <1>4, <1>5, <1>7, <1>8, <1>9, <1>10, <1>11 DEF Next, WorkerStep

\* The invariant holds in every reachable state.
THEOREM RelayInvariant == Spec => []RelayInv
<1>1. Init => RelayInv
  <2>1. Init => TypeInv
    BY OutboxRelayAssumption, BreakerTypes
    DEF Init, TypeInv, TypeOK, CallHasRow, Statuses
  <2> QED
    BY <2>1 DEF Init, RelayInv, AckedRowsStored, SettledWasDelivered, BatchIsCurrent, Batch
<1>2. RelayInv /\ [Next]_vars => RelayInv'
  BY RelayStep
<1> QED
  BY <1>1, <1>2, PTL DEF Spec

\* At-least-once: whatever passes fail and pods crash, a row that is marked
\* published, deleted by cleanup or dropped with its partition is on the stream.
THEOREM AtLeastOnce == Spec => []SettledWasDelivered
<1>1. RelayInv => SettledWasDelivered
  BY DEF RelayInv
<1> QED
  BY <1>1, RelayInvariant, PTL

\* Two passes, of whatever pods, never hold the same row, and the rows of a pass
\* are unpublished in the database until it commits.
THEOREM ExclusiveBatches == Spec => []BatchIsCurrent
<1>1. RelayInv => BatchIsCurrent
  BY DEF RelayInv
<1> QED
  BY <1>1, RelayInvariant, PTL

-----------------------------------------------------------------------------
(* One worker per entity.  A fetch takes only rows whose entity hashes to    *)
(* the worker's own index, and a row stays in the pass that fetched it; the  *)
(* indexes of two workers of one pod differ.                                 *)

OwnPartition ==
    \A w \in Workers : \A e \in Batch(w) : HashText[EntityOf[e]] % WorkerCount = w[2]

\* Every step of the relay leaves a worker's batch inside its hash partition.
LEMMA PartitionStep ==
    ASSUME TypeInv, OwnPartition, [Next]_vars
    PROVE  OwnPartition'
<1> USE DEF OwnPartition
<1>1. TypeOK
  BY DEF TypeInv
<1>2. CASE \A v \in Workers : Batch(v)' \subseteq Batch(v)
  BY <1>2
<1>3. ASSUME NEW e \in Events, \/ PublishBatch(e) \/ CommitDomainTx(e)
                               \/ RollbackDomainTx(e) \/ DedupExpire(e)
      PROVE  OwnPartition'
  BY <1>2, <1>3 DEF PublishBatch, CommitDomainTx, RollbackDomainTx, DedupExpire,
                    workerVars, Batch
<1>4. ASSUME NEW w \in Workers, Poll(w)
      PROVE  OwnPartition'
  <2>1. \A e \in GetUnpublishedForWorker(w) : HashText[EntityOf[e]] % WorkerCount = w[2]
    BY DEF GetUnpublishedForWorker, Oldest, Eligible
  <2>2. /\ UNCHANGED <<ok, failed>>
        /\ todo' = [todo EXCEPT ![w] = GetUnpublishedForWorker(w)]
    BY <1>4 DEF Poll
  <2>3. Batch(w)' \subseteq Batch(w) \cup GetUnpublishedForWorker(w)
    BY <1>1, <2>2 DEF Batch, TypeOK
  <2>4. \A v \in Workers : v # w => Batch(v)' = Batch(v)
    BY <1>1, <2>2 DEF Batch, TypeOK
  <2> QED
    BY <2>1, <2>3, <2>4
<1>5. ASSUME NEW w \in Workers, PollNothing(w)
      PROVE  OwnPartition'
  BY <1>2, <1>5 DEF PollNothing, Batch
<1>6. ASSUME NEW w \in Workers,
             Admit(w) \/ Refuse(w) \/ PublishRaw(w) \/ PublishRawError(w)
      PROVE  OwnPartition'
  BY <1>2, <1>6, BatchKept
<1>7. ASSUME NEW w \in Workers, Commit(w) \/ Rollback(w)
      PROVE  OwnPartition'
  <2>1. /\ todo' = todo
        /\ ok' = [ok EXCEPT ![w] = {}]
        /\ failed' = [failed EXCEPT ![w] = {}]
    BY <1>7 DEF Commit, Rollback, EndPass
  <2> QED
    BY <1>1, <1>2, <2>1 DEF Batch, TypeOK
<1>8. ASSUME NEW p \in Pods, BreakerTimeout(p)
      PROVE  OwnPartition'
  BY <1>2, <1>8 DEF BreakerTimeout, Batch
<1>9. ASSUME NEW p \in Pods, Crash(p)
      PROVE  OwnPartition'
  BY <1>2, <1>9 DEF Crash, Batch
<1>10. CASE NextQuarter \/ DeleteOld \/ \E q \in 0 .. MaxQuarter : DropPartition(q)
  BY <1>2, <1>10 DEF NextQuarter, DeleteOld, DropPartition, workerVars, Batch
<1>11. CASE UNCHANGED vars
  BY <1>2, <1>11 DEF vars, Batch
<1> QED
  BY <1>3, <1>4, <1>5, <1>6, <1>7, <1>8, <1>9, <1>10, <1>11 DEF Next, WorkerStep

\* Inside one pod the rows of one entity are never in two passes at once, for any
\* number of pods and workers and any hash.
THEOREM EntitiesArePartitioned == Spec => []OneWorkerPerEntity
<1>1. Init => TypeInv /\ OwnPartition
  BY OutboxRelayAssumption, BreakerTypes
  DEF Init, TypeInv, TypeOK, CallHasRow, Statuses, OwnPartition, Batch
<1>2. TypeInv /\ OwnPartition /\ [Next]_vars => TypeInv' /\ OwnPartition'
  BY TypeStep, PartitionStep
<1>3. OwnPartition => OneWorkerPerEntity
  <2>1. \A v, w \in Workers : v # w /\ v[1] = w[1] => v[2] # w[2]
    BY DEF Workers
  <2> QED
    BY <2>1 DEF OwnPartition, OneWorkerPerEntity
<1> QED
  BY <1>1, <1>2, <1>3, PTL DEF Spec

-----------------------------------------------------------------------------
(* What a step may do to the rows.                                          *)

\* A commit changes only rows of its own batch, which were unpublished.
LEMMA CommitSettlesBatch ==
    ASSUME RelayInv, NEW w \in Workers, Commit(w), NEW e \in Events
    PROVE  \/ status'[e] = status[e]
           \/ status[e] = "unpublished" /\ status'[e] = "published" /\ e \in Delivered
           \/ status[e] = "unpublished" /\ status'[e] = "dead"
<1>1. e \in ok[w] \cup failed[w] => status[e] = "unpublished"
  BY DEF RelayInv, BatchIsCurrent, Batch
<1>2. e \in ok[w] => e \in Delivered
  BY DEF RelayInv, AckedRowsStored
<1> QED
  BY <1>1, <1>2 DEF Commit, MarkPublishedBatch

\* Steps that leave the rows as they are.
LEMMA RowsUntouched ==
    ASSUME \/ \E w \in Workers : Poll(w) \/ PollNothing(w) \/ Admit(w) \/ Refuse(w)
                                 \/ PublishRaw(w) \/ PublishRawError(w) \/ Rollback(w)
           \/ \E e \in Events : DedupExpire(e)
           \/ \E p \in Pods : BreakerTimeout(p) \/ Crash(p)
           \/ NextQuarter
           \/ UNCHANGED vars
    PROVE  status' = status
  BY DEF Poll, PollNothing, Admit, Refuse, PublishRaw, PublishRawError, Rollback,
         DedupExpire, BreakerTimeout, Crash, NextQuarter, rowVars, vars

\* A dead-lettered row stays in the table for manual inspection.
THEOREM DeadRowsStay == Spec => DeadRowsKept
<1> DEFINE Kept == \A e \in Events : status[e] = "dead" => status'[e] = "dead"
<1>1. ASSUME RelayInv, [Next]_vars
      PROVE  Kept
  <2>1. TypeOK
    BY <1>1 DEF RelayInv, TypeInv
  <2>2. ASSUME NEW e \in Events,
               PublishBatch(e) \/ CommitDomainTx(e) \/ RollbackDomainTx(e)
        PROVE  Kept
    BY <2>1, <2>2 DEF PublishBatch, CommitDomainTx, RollbackDomainTx, TypeOK
  <2>3. ASSUME NEW w \in Workers, Commit(w)
        PROVE  Kept
    BY <1>1, <2>3, CommitSettlesBatch
  <2>4. ASSUME DeleteOld \/ \E q \in 0 .. MaxQuarter : DropPartition(q)
        PROVE  Kept
    BY <2>1, <2>4, RemovedRowsWerePublished
  <2>5. CASE status' = status
    BY <2>5
  <2> QED
    BY <1>1, <2>2, <2>3, <2>4, <2>5, RowsUntouched DEF Next, WorkerStep
<1> QED
  BY <1>1, RelayInvariant, PTL DEF Spec, DeadRowsKept

-----------------------------------------------------------------------------
(* OutboxRelay implements OutboxDelivery.                                   *)

\* What a user sees changes only with the rows and the stream.
LEMMA SameView ==
    ASSUME UNCHANGED status, Delivered' = Delivered
    PROVE  UNCHANGED Delivery!dvars
  BY DEF Delivery!dvars

\* Every step of the relay is a step of the abstract outbox, or no step at all.
LEMMA DeliveryStep ==
    ASSUME RelayInv, [Next]_vars
    PROVE  [Delivery!DNext]_(Delivery!dvars)
<1>1. TypeInv /\ TypeOK
  BY DEF RelayInv, TypeInv
<1> USE DEF Delivery!DNext, Delivery!dvars
<1>2. ASSUME NEW e \in Events, CommitDomainTx(e)
      PROVE  Delivery!Record(e)
  <2>1. status[e] = "inserting" /\ status' = [status EXCEPT ![e] = "unpublished"]
    BY <1>2 DEF CommitDomainTx
  <2>2. Delivered' = Delivered
    BY <1>2 DEF CommitDomainTx, natsVars, Delivered
  <2>3. PhaseOf("inserting") = "absent" /\ PhaseOf("unpublished") = "pending"
    BY DEF PhaseOf
  <2>4. \A f \in Events : PhaseOf(status'[f]) = IF f = e THEN "pending" ELSE PhaseOf(status[f])
    BY <1>1, <2>1, <2>3 DEF TypeOK
  <2> QED
    BY <2>1, <2>2, <2>3, <2>4 DEF Delivery!Record
<1>3. ASSUME NEW e \in Events, PublishBatch(e) \/ RollbackDomainTx(e)
      PROVE  UNCHANGED Delivery!dvars
  <2>1. \A f \in Events : PhaseOf(status'[f]) = PhaseOf(status[f])
    <3>1. PhaseOf("none") = "absent" /\ PhaseOf("inserting") = "absent" /\ PhaseOf("aborted") = "absent"
      BY DEF PhaseOf
    <3>2. /\ status[e] \in {"none", "inserting"}
          /\ status'[e] \in {"inserting", "aborted"}
          /\ \A f \in Events \ {e} : status'[f] = status[f]
      BY <1>1, <1>3 DEF PublishBatch, RollbackDomainTx, TypeOK
    <3> QED BY <3>1, <3>2
  <2>2. Delivered' = Delivered
    BY <1>3 DEF PublishBatch, RollbackDomainTx, natsVars, Delivered
  <2> QED
    BY <2>1, <2>2
<1>4. ASSUME NEW w \in Workers, PublishRaw(w) \/ PublishRawError(w)
      PROVE  (\E e \in Events : Delivery!Deliver(e)) \/ UNCHANGED Delivery!dvars
  <2>1. /\ Current(w) \in Events
        /\ Current(w) \in todo[w]
    BY <1>1, <1>4, BatchKept
  <2>2. status[Current(w)] = "unpublished"
    BY <2>1 DEF RelayInv, BatchIsCurrent, Batch
  <2>3. status' = status
    BY <1>4, RowsUntouched
  <2>4. Delivered' = Delivered \/ Delivered' = Delivered \cup {Current(w)}
    <3>1. CASE JetStreamStores(Current(w))
      BY <1>1, <2>1, <3>1, StoredEvent DEF RelayInv, TypeOK
    <3>2. CASE UNCHANGED <<stream, window>>
      BY <3>2 DEF Delivered
    <3> QED
      BY <1>4, <3>1, <3>2 DEF PublishRaw, PublishRawError
  <2>5. PhaseOf(status[Current(w)]) = "pending"
    BY <2>2 DEF PhaseOf
  <2> QED
    BY <2>1, <2>3, <2>4, <2>5 DEF Delivery!Deliver
<1>5. ASSUME NEW w \in Workers, Commit(w)
      PROVE  \E done, dead \in SUBSET Events : Delivery!Settle(done, dead)
  <2> DEFINE Done == {e \in Events : status[e] = "unpublished" /\ status'[e] = "published"}
             Dead == {e \in Events : status[e] = "unpublished" /\ status'[e] = "dead"}
  <2>1. \A e \in Done : PhaseOf(status[e]) = "pending" /\ e \in Delivered
    BY <1>5, CommitSettlesBatch DEF PhaseOf
  <2>2. \A e \in Dead : PhaseOf(status[e]) = "pending"
    BY DEF PhaseOf
  <2>3. \A e \in Events : PhaseOf(status'[e]) = IF e \in Done THEN "done"
                                                ELSE IF e \in Dead THEN "dead"
                                                ELSE PhaseOf(status[e])
    <3>1. PhaseOf("published") = "done" /\ PhaseOf("dead") = "dead"
      BY DEF PhaseOf
    <3> QED
      BY <1>5, <3>1, CommitSettlesBatch
  <2>4. Delivered' = Delivered
    BY <1>5 DEF Commit, natsVars, Delivered
  <2>5. Done \in SUBSET Events /\ Dead \in SUBSET Events
    OBVIOUS
  <2> HIDE DEF Done, Dead
  <2>6. Delivery!Settle(Done, Dead)
    BY <2>1, <2>2, <2>3, <2>4, <2>5 DEF Delivery!Settle
  <2> QED
    BY <2>5, <2>6
<1>6. ASSUME DeleteOld \/ \E q \in 0 .. MaxQuarter : DropPartition(q)
      PROVE  UNCHANGED Delivery!dvars
  <2>1. \A e \in Events : PhaseOf(status'[e]) = PhaseOf(status[e])
    BY <1>1, <1>6, RemovedRowsWerePublished DEF PhaseOf
  <2>2. Delivered' = Delivered
    BY <1>6 DEF DeleteOld, DropPartition, natsVars, Delivered
  <2> QED
    BY <2>1, <2>2
<1>7. ASSUME \/ \E w \in Workers : Poll(w) \/ PollNothing(w) \/ Admit(w) \/ Refuse(w)
                                   \/ Rollback(w)
             \/ \E e \in Events : DedupExpire(e)
             \/ \E p \in Pods : BreakerTimeout(p) \/ Crash(p)
             \/ NextQuarter
             \/ UNCHANGED vars
      PROVE  UNCHANGED Delivery!dvars
  <2>1. status' = status
    BY <1>7, RowsUntouched
  <2>2. stream' = stream
    BY <1>7 DEF Poll, PollNothing, Admit, Refuse, Rollback, DedupExpire,
                BreakerTimeout, Crash, NextQuarter, natsVars, vars
  <2> QED
    BY <2>1, <2>2, SameView DEF Delivered
<1> QED
  BY <1>2, <1>3, <1>4, <1>5, <1>6, <1>7 DEF Next, WorkerStep

\* The relay, with its workers, breakers, crashes, rollbacks, cleanup and
\* partition drops, implements the at-least-once outbox.
THEOREM RelayImplementsDelivery == Spec => ImplementsDelivery
<1>1. Init => Delivery!DInit
  BY DEF Init, Delivery!DInit, PhaseOf, Delivered
<1>2. RelayInv /\ [Next]_vars => [Delivery!DNext]_(Delivery!dvars)
  BY DeliveryStep
<1> QED
  BY <1>1, <1>2, RelayInvariant, PTL DEF Spec, ImplementsDelivery, Delivery!DSpec

-----------------------------------------------------------------------------
(* The records the sagas keep of themselves (SagaRecords).                   *)
Given == {"none", "failed", "crashed", "completed"}

\* What is of one record: its row, the run that has it, and what became of that.
RowSound(row, done, ends, crossed) ==
  row.id # NoRecord =>
    /\ row.step <= done[row.id]
    /\ row.st = "completed" => done[row.id] = SagaSteps /\ ends[row.id] = "completed"
    /\ row.id \notin crossed =>
         /\ row.st = "failed" => ends[row.id] \in {"failed", "crashed"}
         /\ row.st \in InProgress => ends[row.id] \in {"none", "crashed"}

RunSound(run, done, ends, runs) ==
  /\ run = [pc |-> run.pc, id |-> run.id, step |-> run.step]
  /\ run.id \in 0 .. runs /\ run.step \in Nat /\ run.step <= SagaSteps
  /\ run.pc = "idle" => run.id = NoRecord
  /\ run.id # NoRecord => done[run.id] = run.step /\ ends[run.id] = "none"

SagaTyped ==
  /\ sagaRuns \in Nat /\ sagaRuns <= MaxSagaRuns
  /\ sagaRow = [id |-> sagaRow.id, st |-> sagaRow.st, step |-> sagaRow.step, old |-> sagaRow.old]
  /\ sagaRow.id \in 0 .. sagaRuns /\ sagaRow.step \in Nat
  /\ sagaRow.id = NoRecord <=> sagaRow = NoSaga
  /\ DOMAIN sagaRun = SagaPods /\ DOMAIN sagaStart = SagaPods
  /\ \A p \in SagaPods : sagaStart[p].listed \in 0 .. sagaRuns
  /\ did \in [Records -> Nat] /\ DOMAIN outcome = Records
  /\ \A r \in Records : r > sagaRuns => did[r] = 0 /\ outcome[r] = "none"

SagaInv ==
  /\ SagaTyped
  /\ RowSound(sagaRow, did, outcome, sagaCrossed)
  /\ \A p \in SagaPods : RunSound(sagaRun[p], did, outcome, sagaRuns)
  /\ RecordOfOneRun

LEMMA SagaHolds == ASSUME SagaInv PROVE SagasSafe
<1>1. sagaRow # NoSaga => sagaRow.id # NoRecord
  BY DEF SagaInv, SagaTyped
<1>2. SagaRecordsHonest
  BY <1>1 DEF SagaInv, RowSound, SagaRecordsHonest
<1> QED BY <1>2 DEF SagaInv, SagasSafe

LEMMA SagaStarts == ASSUME MaxSagaRuns \in Nat, SagaSteps \in Nat, SagaInit PROVE SagaInv
<1>1. SagaTyped
  BY DEF SagaInit, SagaTyped, NoSaga, NoRecord, Up, Records
<1>2. RowSound(sagaRow, did, outcome, sagaCrossed)
  BY DEF SagaInit, RowSound, NoSaga
<1>3. \A p \in SagaPods : RunSound(sagaRun[p], did, outcome, sagaRuns)
  <2>1. ASSUME NEW p \in SagaPods
        PROVE  RunSound(sagaRun[p], did, outcome, sagaRuns)
    <3>1. PICK r : r = [pc |-> "idle", id |-> NoRecord, step |-> 0]
      OBVIOUS
    <3>2. r = [pc |-> r.pc, id |-> r.id, step |-> r.step] /\ r.id = NoRecord /\ r.step = 0
      BY <3>1
    <3>3. sagaRun[p] = r /\ sagaRuns = 0
      BY <3>1 DEF SagaInit, NotRunning
    <3> QED BY <3>2, <3>3 DEF RunSound, NoRecord
  <2> QED BY <2>1
<1>4. RecordOfOneRun
  BY DEF SagaInit, RecordOfOneRun, NotRunning
<1> QED BY <1>1, <1>2, <1>3, <1>4 DEF SagaInv

\* A write took place, or the row is as it was: not the run's, or no longer trusted.
LEMMA Written ==
  ASSUME NEW id, NEW row, Write(id, row)
  PROVE  /\ sagaCrossed \subseteq sagaCrossed'
         /\ \/ id # NoRecord /\ sagaRow.id = id /\ sagaRow' = row
            \/ sagaRow' = sagaRow /\ (id # NoRecord /\ sagaRow.id = id => id \in sagaCrossed')
BY DEF Write, Fault, RowOf

\* The row of a run says no more than the run did.
LEMMA RowOfRun ==
  ASSUME MaxSagaRuns \in Nat, SagaInv, NEW p \in SagaPods, sagaRun[p].id # NoRecord
  PROVE  /\ sagaRun[p].id \in Records /\ did[sagaRun[p].id] = sagaRun[p].step
         /\ outcome[sagaRun[p].id] = "none"
         /\ sagaRow.id = sagaRun[p].id =>
              sagaRow.st # "completed" /\ (sagaRow.id \notin sagaCrossed => sagaRow.st # "failed")
         /\ \A q \in SagaPods : q # p => sagaRun[q].id # sagaRun[p].id
<1>1. RunSound(sagaRun[p], did, outcome, sagaRuns) /\ sagaRuns \in Nat /\ sagaRuns <= MaxSagaRuns
  BY DEF SagaInv, SagaTyped
<1>2. sagaRun[p].id \in Records /\ did[sagaRun[p].id] = sagaRun[p].step /\ outcome[sagaRun[p].id] = "none"
  BY <1>1 DEF RunSound, Records, NoRecord
<1>3. sagaRow.id = sagaRun[p].id =>
        sagaRow.st # "completed" /\ (sagaRow.id \notin sagaCrossed => sagaRow.st # "failed")
  BY <1>2 DEF SagaInv, RowSound
<1>4. \A q \in SagaPods : q # p => sagaRun[q].id # sagaRun[p].id
  BY DEF SagaInv, RecordOfOneRun
<1> QED BY <1>2, <1>3, <1>4

Goes(p, run) ==
  DOMAIN sagaRun' = SagaPods /\ sagaRun'[p] = run /\ \A q \in SagaPods \ {p} : sagaRun'[q] = sagaRun[q]

LEMMA Going ==
  ASSUME SagaInv, NEW p \in SagaPods, NEW run, sagaRun' = [sagaRun EXCEPT ![p] = run]
  PROVE  Goes(p, run)
BY DEF SagaInv, SagaTyped, Goes

\* What a step does to the runs: one of them goes on with its record, or without.
LEMMA RunGoesOn ==
  ASSUME SagaInv, NEW p \in SagaPods, NEW run, Goes(p, run),
         run.id \in {NoRecord, sagaRun[p].id} \/ run.id > sagaRuns
  PROVE  /\ DOMAIN sagaRun' = SagaPods /\ sagaRun'[p] = run
         /\ \A q \in SagaPods \ {p} : sagaRun'[q] = sagaRun[q]
         /\ RecordOfOneRun'
<1>1. DOMAIN sagaRun' = SagaPods /\ sagaRun'[p] = run /\ \A q \in SagaPods \ {p} : sagaRun'[q] = sagaRun[q]
  BY DEF Goes
<1>2. \A q \in SagaPods : sagaRun[q].id \in 0 .. sagaRuns /\ sagaRuns \in Nat
  BY DEF SagaInv, SagaTyped, RunSound
<1>3. ASSUME NEW q \in SagaPods, NEW s \in SagaPods, q # s, sagaRun'[q].id = sagaRun'[s].id
      PROVE  sagaRun'[q].id = NoRecord
  <2>1. CASE q # p /\ s # p
    BY <1>1, <1>3, <2>1 DEF SagaInv, RecordOfOneRun
  <2>2. ASSUME NEW o \in SagaPods, o # p, sagaRun[o].id = run.id
        PROVE  run.id = NoRecord
    BY <1>2, <2>2 DEF SagaInv, RecordOfOneRun
  <2>3. CASE q = p
    BY <1>1, <1>3, <2>2, <2>3
  <2>4. CASE s = p
    BY <1>1, <1>3, <2>2, <2>4
  <2> QED BY <2>1, <2>3, <2>4
<1> QED BY <1>1, <1>3 DEF RecordOfOneRun

LEMMA SagaCreates ==
  ASSUME MaxSagaRuns \in Nat, SagaSteps \in Nat, SagaInv, NEW p \in SagaPods, CreateSaga(p)
  PROVE  SagaInv'
<1>1. PICK id : id = sagaRuns + 1
  OBVIOUS
<1>2. PICK run : run \in {[pc |-> "run", id |-> id, step |-> 0], [pc |-> "run", id |-> NoRecord, step |-> 0]}
                 /\ sagaRun' = [sagaRun EXCEPT ![p] = run]
                 /\ \/ /\ sagaRow = NoSaga /\ run.id = id
                       /\ sagaRow' = [id |-> id, st |-> "running", step |-> 0, old |-> FALSE]
                    \/ sagaRow' = sagaRow
  <2>1. CASE /\ sagaRow = NoSaga
             /\ sagaRow' = [id |-> id, st |-> "running", step |-> 0, old |-> FALSE]
             /\ sagaRun' = [sagaRun EXCEPT ![p] = [pc |-> "run", id |-> id, step |-> 0]]
    <3>1. PICK r : r = [pc |-> "run", id |-> id, step |-> 0]
      OBVIOUS
    <3>2. sagaRun' = [sagaRun EXCEPT ![p] = r] /\ r.id = id
      BY <2>1, <3>1
    <3> QED BY <2>1, <3>1, <3>2
  <2>2. CASE /\ sagaRow' = sagaRow
             /\ sagaRun' = [sagaRun EXCEPT ![p] = [pc |-> "run", id |-> NoRecord, step |-> 0]]
    <3>1. PICK r : r = [pc |-> "run", id |-> NoRecord, step |-> 0]
      OBVIOUS
    <3>2. sagaRun' = [sagaRun EXCEPT ![p] = r]
      BY <2>2, <3>1
    <3> QED BY <2>2, <3>1, <3>2
  <2> QED BY <1>1, <2>1, <2>2 DEF CreateSaga, Fault
<1>3. /\ sagaRuns' = id /\ id \in Nat /\ id <= MaxSagaRuns /\ id \in Records /\ sagaRuns \in Nat
      /\ UNCHANGED <<sagaStart, did, outcome>> /\ did[id] = 0 /\ outcome[id] = "none"
  BY <1>1 DEF CreateSaga, SagaInv, SagaTyped, Records
<1>4. sagaCrossed \subseteq sagaCrossed'
  BY <1>1 DEF CreateSaga, Fault
<1>5. run.id = id \/ run.id = NoRecord
  BY <1>2
<1>6. /\ DOMAIN sagaRun' = SagaPods /\ sagaRun'[p] = run /\ RecordOfOneRun'
      /\ \A q \in SagaPods \ {p} : sagaRun'[q] = sagaRun[q]
  <2>1. run.id \in {NoRecord, sagaRun[p].id} \/ run.id > sagaRuns
    BY <1>1, <1>3, <1>5
  <2>2. sagaRun' = [sagaRun EXCEPT ![p] = run]
    BY <1>2
  <2> QED BY <2>1, <2>2, Going, RunGoesOn DEF Goes
<1>7. SagaTyped'
  <2>1. /\ sagaRow' = [id |-> sagaRow'.id, st |-> sagaRow'.st, step |-> sagaRow'.step, old |-> sagaRow'.old]
        /\ sagaRow'.id \in 0 .. id /\ sagaRow'.step \in Nat /\ (sagaRow'.id = NoRecord <=> sagaRow' = NoSaga)
    <3>1. CASE sagaRow' = sagaRow
      BY <1>1, <1>3, <3>1 DEF SagaInv, SagaTyped
    <3>2. CASE sagaRow' = [id |-> id, st |-> "running", step |-> 0, old |-> FALSE]
      BY <1>1, <1>3, <3>2 DEF NoRecord, NoSaga
    <3> QED BY <1>2, <3>1, <3>2
  <2>2. \A q \in SagaPods : sagaStart'[q].listed \in 0 .. id
    BY <1>1, <1>3 DEF SagaInv, SagaTyped
  <2>3. did' \in [Records -> Nat] /\ DOMAIN outcome' = Records /\ DOMAIN sagaStart' = SagaPods
    BY <1>3 DEF SagaInv, SagaTyped
  <2>4. \A r \in Records : r > id => did'[r] = 0 /\ outcome'[r] = "none"
    BY <1>1, <1>3 DEF SagaInv, SagaTyped, Records
  <2> QED BY <1>3, <1>6, <2>1, <2>2, <2>3, <2>4 DEF SagaTyped
<1>8. RowSound(sagaRow, did, outcome, sagaCrossed)'
  <2>1. CASE sagaRow' = sagaRow
    BY <1>3, <1>4, <2>1 DEF SagaInv, RowSound
  <2>2. CASE sagaRow' = [id |-> id, st |-> "running", step |-> 0, old |-> FALSE]
    BY <1>3, <2>2 DEF RowSound
  <2> QED BY <1>2, <2>1, <2>2
<1>9. ASSUME NEW q \in SagaPods
      PROVE  RunSound(sagaRun[q], did, outcome, sagaRuns)'
  <2>1. CASE q = p
    <3>1. RunSound(run, did, outcome, id)
      BY <1>2, <1>3 DEF RunSound, NoRecord
    <3> QED BY <1>3, <1>6, <2>1, <3>1
  <2>2. CASE q # p
    <3>1. RunSound(sagaRun[q], did, outcome, sagaRuns)
      BY DEF SagaInv
    <3>2. RunSound(sagaRun[q], did, outcome, id)
      BY <1>1, <1>3, <3>1 DEF RunSound
    <3> QED BY <1>3, <1>6, <2>2, <3>2
  <2> QED BY <2>1, <2>2
<1> QED BY <1>6, <1>7, <1>8, <1>9 DEF SagaInv

Formed(row) == row = [id |-> row.id, st |-> row.st, step |-> row.step, old |-> row.old]

\* A step of a run that has begun, the row apart.
LEMMA RunsKeep ==
  ASSUME MaxSagaRuns \in Nat, SagaInv, NEW p \in SagaPods, NEW run, Goes(p, run),
         run = [pc |-> run.pc, id |-> run.id, step |-> run.step], run.step \in Nat, run.step <= SagaSteps,
         run.pc = "idle" => run.id = NoRecord, run.id \in {NoRecord, sagaRun[p].id}, sagaRuns' = sagaRuns,
         \A r \in Records : r # sagaRun[p].id => did'[r] = did[r] /\ outcome'[r] = outcome[r],
         run.id # NoRecord => did'[run.id] = run.step /\ outcome'[run.id] = "none"
  PROVE  /\ \A q \in SagaPods : RunSound(sagaRun[q], did, outcome, sagaRuns)'
         /\ DOMAIN sagaRun' = SagaPods /\ RecordOfOneRun'
<1>1. /\ DOMAIN sagaRun' = SagaPods /\ sagaRun'[p] = run /\ RecordOfOneRun'
      /\ \A q \in SagaPods \ {p} : sagaRun'[q] = sagaRun[q]
  BY RunGoesOn DEF Goes
<1>2. sagaRuns \in Nat /\ sagaRuns <= MaxSagaRuns
  BY DEF SagaInv, SagaTyped
<1>3. RunSound(sagaRun[p], did, outcome, sagaRuns)
  BY DEF SagaInv
<1>4. ASSUME NEW q \in SagaPods
      PROVE  RunSound(sagaRun[q], did, outcome, sagaRuns)'
  <2>1. CASE q = p
    <3>1. run.id \in 0 .. sagaRuns
      BY <1>2, <1>3 DEF RunSound, NoRecord
    <3>2. RunSound(run, did', outcome', sagaRuns)
      BY <3>1 DEF RunSound
    <3> QED BY <1>1, <2>1, <3>2
  <2>2. CASE q # p
    <3>1. RunSound(sagaRun[q], did, outcome, sagaRuns)
      BY DEF SagaInv
    <3>2. sagaRun[q].id # NoRecord => sagaRun[q].id \in Records /\ sagaRun[q].id # sagaRun[p].id
      BY <1>2, <2>2, <3>1 DEF SagaInv, RecordOfOneRun, RunSound, Records, NoRecord
    <3>3. RunSound(sagaRun[q], did', outcome', sagaRuns)
      BY <3>1, <3>2 DEF RunSound
    <3> QED BY <1>1, <2>2, <3>3
  <2> QED BY <2>1, <2>2
<1> QED BY <1>1, <1>4

\* The types survive when a row changes but not its id, and only a record in use is noted.
LEMMA TypesKeep ==
  ASSUME MaxSagaRuns \in Nat, SagaInv, sagaRuns' = sagaRuns, DOMAIN sagaRun' = SagaPods,
         DOMAIN sagaStart' = SagaPods, \A p \in SagaPods : sagaStart'[p].listed \in 0 .. sagaRuns,
         did' \in [Records -> Nat], DOMAIN outcome' = Records,
         NEW id \in 0 .. sagaRuns,
         \A r \in Records : r # id => did'[r] = did[r] /\ outcome'[r] = outcome[r],
         \/ sagaRow' \in {sagaRow, NoSaga}
         \/ Formed(sagaRow') /\ sagaRow'.id = sagaRow.id /\ sagaRow.id # NoRecord /\ sagaRow'.step \in Nat
  PROVE  SagaTyped'
<1>1. SagaTyped
  BY DEF SagaInv
<1>2. /\ Formed(sagaRow') /\ sagaRow'.id \in 0 .. sagaRuns /\ sagaRow'.step \in Nat
      /\ sagaRow'.id = NoRecord <=> sagaRow' = NoSaga
  <2>1. CASE sagaRow' = sagaRow
    BY <1>1, <2>1 DEF SagaTyped, Formed
  <2>2. CASE sagaRow' = NoSaga
    BY <1>1, <2>2 DEF SagaTyped, Formed, NoSaga, NoRecord
  <2>3. CASE Formed(sagaRow') /\ sagaRow'.id = sagaRow.id /\ sagaRow.id # NoRecord /\ sagaRow'.step \in Nat
    BY <1>1, <2>3 DEF SagaTyped, NoSaga
  <2> QED BY <2>1, <2>2, <2>3
<1>3. \A r \in Records : r > sagaRuns => did'[r] = 0 /\ outcome'[r] = "none"
  <2>1. ASSUME NEW r \in Records, r > sagaRuns
        PROVE  did'[r] = 0 /\ outcome'[r] = "none"
    <3>1. sagaRuns \in Nat /\ r # id
      BY <1>1, <2>1 DEF SagaTyped, Records
    <3> QED BY <1>1, <2>1, <3>1 DEF SagaTyped
  <2> QED BY <2>1
<1> QED BY <1>1, <1>2, <1>3 DEF SagaTyped, Formed

LEMMA SagaDoes ==
  ASSUME MaxSagaRuns \in Nat, SagaSteps \in Nat, SagaInv, NEW p \in SagaPods, DoStep(p)
  PROVE  SagaInv'
<1>1. PICK r : r = sagaRun[p]
  OBVIOUS
<1>2. PICK run : run = [pc |-> "checkpoint", id |-> r.id, step |-> r.step + 1]
  OBVIOUS
<1>3. /\ r.pc = "run" /\ r.step < SagaSteps
      /\ sagaRun' = [sagaRun EXCEPT ![p] = [[r EXCEPT !.pc = "checkpoint"] EXCEPT !.step = r.step + 1]]
      /\ did' = (IF r.id = NoRecord THEN did ELSE [did EXCEPT ![r.id] = r.step + 1])
      /\ UNCHANGED <<sagaRow, sagaStart, outcome, sagaCrossed, sagaRuns>>
  <2>1. sagaRun' = [sagaRun EXCEPT ![p].pc = "checkpoint", ![p].step = r.step + 1]
    BY <1>1 DEF DoStep
  <2>2. DOMAIN sagaRun = SagaPods
    BY DEF SagaInv, SagaTyped
  <2>3. sagaRun' = [sagaRun EXCEPT ![p] = [[r EXCEPT !.pc = "checkpoint"] EXCEPT !.step = r.step + 1]]
    BY <1>1, <2>1, <2>2
  <2> QED BY <1>1, <2>3 DEF DoStep
<1>4. RunSound(r, did, outcome, sagaRuns) /\ sagaRuns \in Nat /\ sagaRuns <= MaxSagaRuns
  BY <1>1 DEF SagaInv, SagaTyped
<1>5. sagaRun' = [sagaRun EXCEPT ![p] = run]
  <2>1. [[r EXCEPT !.pc = "checkpoint"] EXCEPT !.step = r.step + 1] = run
    <3>1. r = [pc |-> r.pc, id |-> r.id, step |-> r.step]
      BY <1>4 DEF RunSound
    <3>2. [r EXCEPT !.pc = "checkpoint"] = [pc |-> "checkpoint", id |-> r.id, step |-> r.step]
      BY <3>1
    <3>3. PICK n, k : n = [r EXCEPT !.pc = "checkpoint"] /\ k = r.step + 1
      OBVIOUS
    <3>4. n = [pc |-> "checkpoint", id |-> r.id, step |-> r.step]
      BY <3>2, <3>3
    <3>5. [n EXCEPT !.step = k] = [pc |-> "checkpoint", id |-> r.id, step |-> k]
      BY <3>4
    <3> QED BY <1>2, <3>3, <3>5, Zenon
  <2> QED BY <1>3, <2>1
<1>6. /\ run = [pc |-> run.pc, id |-> run.id, step |-> run.step] /\ run.step \in Nat /\ run.step <= SagaSteps
      /\ run.pc # "idle" /\ run.id = r.id /\ run.step = r.step + 1
  BY <1>2, <1>3, <1>4 DEF RunSound
<1>7. r.id # NoRecord => r.id \in Records /\ did[r.id] = r.step /\ outcome[r.id] = "none"
  BY <1>4 DEF RunSound, Records, NoRecord
<1>8. /\ did' \in [Records -> Nat]
      /\ r.id # NoRecord => did'[r.id] = r.step + 1
      /\ \A x \in Records : x # r.id => did'[x] = did[x]
  <2>1. did \in [Records -> Nat]
    BY DEF SagaInv, SagaTyped
  <2>2. r.step + 1 \in Nat
    BY <1>6
  <2>3. CASE r.id = NoRecord
    BY <1>3, <2>1, <2>3
  <2>4. CASE r.id # NoRecord
    <3>1. did' = [did EXCEPT ![r.id] = r.step + 1]
      BY <1>3, <2>4
    <3> QED BY <1>7, <2>1, <2>2, <2>4, <3>1
  <2> QED BY <2>3, <2>4
<1>9. /\ \A q \in SagaPods : RunSound(sagaRun[q], did, outcome, sagaRuns)'
      /\ DOMAIN sagaRun' = SagaPods /\ RecordOfOneRun'
  <2>1. /\ run.id \in {NoRecord, sagaRun[p].id} /\ sagaRuns' = sagaRuns
        /\ run.pc = "idle" => run.id = NoRecord
        /\ \A x \in Records : x # sagaRun[p].id => did'[x] = did[x] /\ outcome'[x] = outcome[x]
        /\ run.id # NoRecord => did'[run.id] = run.step /\ outcome'[run.id] = "none"
    BY <1>1, <1>3, <1>6, <1>7, <1>8
  <2>2. Goes(p, run)
    BY <1>5, Going
  <2> QED BY <1>6, <2>1, <2>2, RunsKeep
<1>10. SagaTyped'
  <2>1. /\ sagaRuns' = sagaRuns /\ sagaRow' \in {sagaRow, NoSaga} /\ DOMAIN sagaStart' = SagaPods
        /\ \A q \in SagaPods : sagaStart'[q].listed \in 0 .. sagaRuns
        /\ DOMAIN outcome' = Records /\ r.id \in 0 .. sagaRuns
        /\ \A x \in Records : x # r.id => did'[x] = did[x] /\ outcome'[x] = outcome[x]
    BY <1>3, <1>4, <1>8 DEF SagaInv, SagaTyped, RunSound
  <2> QED BY <1>8, <1>9, <2>1, TypesKeep
<1>11. RowSound(sagaRow, did, outcome, sagaCrossed)'
  <2>1. RowSound(sagaRow, did, outcome, sagaCrossed) /\ sagaRow.step \in Nat
        /\ (sagaRow.id # NoRecord => sagaRow.id \in Records)
    BY <1>4 DEF SagaInv, SagaTyped, Records, NoRecord
  <2>2. sagaRow.id # NoRecord =>
          /\ sagaRow.step <= did'[sagaRow.id]
          /\ sagaRow.st = "completed" => did'[sagaRow.id] = SagaSteps
    <3>1. CASE sagaRow.id = r.id /\ sagaRow.id # NoRecord
      <4>1. sagaRow.step <= r.step /\ r.step \in Nat
        BY <1>4, <1>7, <2>1, <3>1 DEF RowSound, RunSound
      <4>2. sagaRow.step <= r.step + 1
        BY <2>1, <4>1
      <4>3. sagaRow.st # "completed"
        BY <1>7, <2>1, <3>1 DEF RowSound
      <4>4. did'[sagaRow.id] = r.step + 1
        BY <1>8, <3>1
      <4> QED BY <4>2, <4>3, <4>4
    <3>2. CASE sagaRow.id # r.id
      BY <1>8, <2>1, <3>2 DEF RowSound
    <3> QED BY <3>1, <3>2
  <2>3. sagaRow' = sagaRow /\ outcome' = outcome /\ sagaCrossed' = sagaCrossed
    BY <1>3
  <2> QED BY <2>1, <2>2, <2>3 DEF RowSound
<1> QED BY <1>9, <1>10, <1>11 DEF SagaInv

\* A run writes its record, or what it wrote is lost and the record noted.
LEMMA RunWrites ==
  ASSUME MaxSagaRuns \in Nat, SagaInv, NEW p \in SagaPods, NEW id, id = sagaRun[p].id,
         NEW st, NEW step, NEW how, NEW row, Write(id, row),
         row = [id |-> sagaRow.id, st |-> st, step |-> step, old |-> FALSE],
         did' = did, \A r \in Records : r # id => outcome'[r] = outcome[r],
         id # NoRecord => outcome'[id] = how,
         id # NoRecord /\ sagaRow.id = id =>
           /\ step \in Nat /\ step <= did[id]
           /\ st = "completed" => how = "completed" /\ did[id] = SagaSteps
           /\ id \notin sagaCrossed =>
                /\ st = "failed" => how = "failed"
                /\ st \in InProgress => how = "none"
  PROVE  /\ RowSound(sagaRow, did, outcome, sagaCrossed)'
         /\ \/ sagaRow' = sagaRow
            \/ Formed(sagaRow') /\ sagaRow'.id = sagaRow.id /\ sagaRow.id # NoRecord /\ sagaRow'.step \in Nat
<1>1. /\ sagaCrossed \subseteq sagaCrossed'
      /\ \/ id # NoRecord /\ sagaRow.id = id /\ sagaRow' = row
         \/ sagaRow' = sagaRow /\ (id # NoRecord /\ sagaRow.id = id => id \in sagaCrossed')
  BY Written
<1>2. CASE id # NoRecord /\ sagaRow.id = id /\ sagaRow' = row
  <2>1. row.id = id /\ row.st = st /\ row.step = step /\ Formed(row)
    BY <1>2 DEF Formed
  <2>2. RowSound(row, did, outcome', sagaCrossed')
    BY <1>1, <1>2, <2>1 DEF RowSound
  <2> QED BY <1>2, <2>1, <2>2
<1>3. CASE sagaRow' = sagaRow /\ (id # NoRecord /\ sagaRow.id = id => id \in sagaCrossed')
  <2>1. RowSound(sagaRow, did, outcome, sagaCrossed) /\ (sagaRow.id # NoRecord => sagaRow.id \in Records)
    BY DEF SagaInv, SagaTyped, Records, NoRecord
  <2>2. id # NoRecord /\ sagaRow.id = id => sagaRow.st # "completed"
    BY RowOfRun
  <2>3. RowSound(sagaRow, did, outcome', sagaCrossed')
    <3>1. CASE sagaRow.id = id
      BY <1>1, <1>3, <2>1, <2>2, <3>1 DEF RowSound
    <3>2. CASE sagaRow.id # id
      BY <1>1, <2>1, <3>2 DEF RowSound
    <3> QED BY <3>1, <3>2
  <2> QED BY <1>3, <2>3
<1> QED BY <1>1, <1>2, <1>3

\* The run of p, its record, and what that makes of a touched row.
LEMMA RunOf ==
  ASSUME MaxSagaRuns \in Nat, SagaInv, NEW p \in SagaPods, NEW r, r = sagaRun[p]
  PROVE  /\ r = [pc |-> r.pc, id |-> r.id, step |-> r.step] /\ r.step \in Nat /\ r.step <= SagaSteps
         /\ r.id \in 0 .. sagaRuns
         /\ r.id # NoRecord => r.id \in Records /\ did[r.id] = r.step /\ outcome[r.id] = "none"
         /\ r.id # NoRecord /\ sagaRow.id = r.id =>
              sagaRow.st # "completed" /\ (sagaRow.id \notin sagaCrossed => sagaRow.st # "failed")
         /\ \A st : [[sagaRow EXCEPT !.st = st] EXCEPT !.old = FALSE]
                            = [id |-> sagaRow.id, st |-> st, step |-> sagaRow.step, old |-> FALSE]
         /\ r.id # NoRecord /\ sagaRow.id = r.id => sagaRow.step \in Nat /\ sagaRow.step <= did[r.id]
         /\ DOMAIN sagaRun = SagaPods /\ DOMAIN sagaStart = SagaPods
         /\ \A q \in SagaPods : sagaStart[q].listed \in 0 .. sagaRuns
         /\ did \in [Records -> Nat] /\ DOMAIN outcome = Records
<1>1. RunSound(r, did, outcome, sagaRuns)
  BY DEF SagaInv
<1>2. SagaTyped
  BY DEF SagaInv
<1>3. \A st : [[sagaRow EXCEPT !.st = st] EXCEPT !.old = FALSE]
                = [id |-> sagaRow.id, st |-> st, step |-> sagaRow.step, old |-> FALSE]
  <2>1. SUFFICES ASSUME NEW st
                 PROVE  [[sagaRow EXCEPT !.st = st] EXCEPT !.old = FALSE]
                          = [id |-> sagaRow.id, st |-> st, step |-> sagaRow.step, old |-> FALSE]
    OBVIOUS
  <2>2. PICK w : w = sagaRow
    OBVIOUS
  <2>3. w = [id |-> w.id, st |-> w.st, step |-> w.step, old |-> w.old]
    BY <1>2, <2>2, Zenon DEF SagaTyped
  <2>4. PICK n : n = [w EXCEPT !.st = st]
    OBVIOUS
  <2>5. n = [id |-> w.id, st |-> st, step |-> w.step, old |-> w.old]
    BY <2>3, <2>4
  <2>6. \A b : [n EXCEPT !.old = b] = [id |-> w.id, st |-> st, step |-> w.step, old |-> b]
    BY <2>5
  <2> QED BY <2>2, <2>4, <2>6, Zenon
<1>4. r.id # NoRecord => r.id \in Records /\ did[r.id] = r.step /\ outcome[r.id] = "none"
  BY RowOfRun
<1>5. r.id # NoRecord /\ sagaRow.id = r.id =>
        sagaRow.st # "completed" /\ (sagaRow.id \notin sagaCrossed => sagaRow.st # "failed")
  BY RowOfRun
<1>6. r.id # NoRecord /\ sagaRow.id = r.id => sagaRow.step \in Nat /\ sagaRow.step <= did[r.id]
  BY <1>2 DEF SagaInv, SagaTyped, RowSound
<1> QED BY <1>1, <1>2, <1>3, <1>4, <1>5, <1>6 DEF RunSound, SagaTyped

\* So a run that writes its record, and goes on or ends, is sound again.
LEMMA RunGoes ==
  ASSUME MaxSagaRuns \in Nat, SagaInv, NEW p \in SagaPods, NEW r, r = sagaRun[p],
         NEW run, Goes(p, run),
         run = [pc |-> run.pc, id |-> run.id, step |-> run.step], run.step \in Nat, run.step <= SagaSteps,
         run.pc = "idle" => run.id = NoRecord, run.id = NoRecord \/ (run.id = r.id /\ run.step = r.step),
         NEW st, NEW step, NEW how, NEW row, Write(r.id, row),
         row = [id |-> sagaRow.id, st |-> st, step |-> step, old |-> FALSE],
         sagaStart' = sagaStart, did' = did, sagaRuns' = sagaRuns,
         DOMAIN outcome' = Records, \A x \in Records : x # r.id => outcome'[x] = outcome[x],
         r.id # NoRecord => outcome'[r.id] = how,
         run.id # NoRecord => how = "none",
         r.id # NoRecord /\ sagaRow.id = r.id =>
           /\ step \in Nat /\ step <= did[r.id]
           /\ st = "completed" => how = "completed" /\ did[r.id] = SagaSteps
           /\ r.id \notin sagaCrossed =>
                /\ st = "failed" => how = "failed"
                /\ st \in InProgress => how = "none"
  PROVE  SagaInv'
<1>1. /\ r.id \in 0 .. sagaRuns
      /\ r.id # NoRecord => r.id \in Records /\ did[r.id] = r.step /\ outcome[r.id] = "none"
      /\ DOMAIN sagaStart = SagaPods /\ \A q \in SagaPods : sagaStart[q].listed \in 0 .. sagaRuns
      /\ did \in [Records -> Nat] /\ DOMAIN outcome = Records
  BY RunOf
<1>2. /\ RowSound(sagaRow, did, outcome, sagaCrossed)'
      /\ \/ sagaRow' = sagaRow
         \/ Formed(sagaRow') /\ sagaRow'.id = sagaRow.id /\ sagaRow.id # NoRecord /\ sagaRow'.step \in Nat
  <2>1. PICK id : id = r.id
    OBVIOUS
  <2>2. /\ id = sagaRun[p].id /\ Write(id, row)
        /\ \A x \in Records : x # id => outcome'[x] = outcome[x]
        /\ id # NoRecord => outcome'[id] = how
    BY <2>1
  <2>3. id # NoRecord /\ sagaRow.id = id =>
           /\ step \in Nat /\ step <= did[id]
           /\ st = "completed" => how = "completed" /\ did[id] = SagaSteps
           /\ id \notin sagaCrossed =>
                /\ st = "failed" => how = "failed"
                /\ st \in InProgress => how = "none"
    BY <2>1
  <2> QED BY <2>2, <2>3, RunWrites
<1>3. /\ \A q \in SagaPods : RunSound(sagaRun[q], did, outcome, sagaRuns)'
      /\ DOMAIN sagaRun' = SagaPods /\ RecordOfOneRun'
  <2>1. /\ run.id \in {NoRecord, sagaRun[p].id}
        /\ \A x \in Records : x # sagaRun[p].id => did'[x] = did[x] /\ outcome'[x] = outcome[x]
        /\ run.id # NoRecord => did'[run.id] = run.step /\ outcome'[run.id] = "none"
    BY <1>1
  <2> QED BY <2>1, RunsKeep
<1>4. SagaTyped'
  <2>1. /\ DOMAIN sagaStart' = SagaPods /\ did' \in [Records -> Nat]
        /\ \A q \in SagaPods : sagaStart'[q].listed \in 0 .. sagaRuns
        /\ \A x \in Records : x # r.id => did'[x] = did[x] /\ outcome'[x] = outcome[x]
    BY <1>1
  <2> QED BY <1>1, <1>2, <1>3, <2>1, TypesKeep
<1> QED BY <1>2, <1>3, <1>4 DEF SagaInv

LEMMA SagaCheckpoints ==
  ASSUME MaxSagaRuns \in Nat, SagaSteps \in Nat, SagaInv, NEW p \in SagaPods, checkpointSaga(p)
  PROVE  SagaInv'
<1>1. PICK r : r = sagaRun[p]
  OBVIOUS
<1>2. /\ r = [pc |-> r.pc, id |-> r.id, step |-> r.step] /\ r.step \in Nat /\ r.step <= SagaSteps
      /\ r.id # NoRecord => r.id \in Records /\ did[r.id] = r.step /\ outcome[r.id] = "none"
      /\ r.id # NoRecord /\ sagaRow.id = r.id =>
           sagaRow.st # "completed" /\ (sagaRow.id \notin sagaCrossed => sagaRow.st # "failed")
      /\ \A st : [[sagaRow EXCEPT !.st = st] EXCEPT !.old = FALSE]
                   = [id |-> sagaRow.id, st |-> st, step |-> sagaRow.step, old |-> FALSE]
      /\ r.id # NoRecord /\ sagaRow.id = r.id => sagaRow.step \in Nat /\ sagaRow.step <= did[r.id]
      /\ DOMAIN sagaRun = SagaPods /\ did \in [Records -> Nat] /\ DOMAIN outcome = Records
  BY <1>1, RunOf
<1>3. /\ Write(r.id, [sagaRow EXCEPT !.step = r.step, !.old = FALSE]) /\ sagaRun' = [sagaRun EXCEPT ![p].pc = "run"]
      /\ sagaStart' = sagaStart /\ did' = did /\ sagaRuns' = sagaRuns
      /\ outcome' = outcome
  BY <1>1 DEF checkpointSaga
<1>4. PICK run : run = [pc |-> "run", id |-> r.id, step |-> r.step]
  OBVIOUS
<1>5. Goes(p, run)
  <2>1. r = [pc |-> r.pc, id |-> r.id, step |-> r.step]
    BY <1>2
  <2>2. [r EXCEPT !.pc = "run"] = run
    BY <1>4, <2>1
  <2>3. sagaRun' = [sagaRun EXCEPT ![p] = run]
    BY <1>1, <1>3, <2>2
  <2> QED BY <2>3, Going
<1>6. PICK row : row = [id |-> sagaRow.id, st |-> sagaRow.st, step |-> r.step, old |-> FALSE]
  OBVIOUS
<1>7. Write(r.id, row)
  <2>1. PICK w : w = sagaRow
    OBVIOUS
  <2>2. w = [id |-> w.id, st |-> w.st, step |-> w.step, old |-> w.old]
    BY <2>1, Zenon DEF SagaInv, SagaTyped
  <2>3. PICK n : n = [w EXCEPT !.step = r.step]
    OBVIOUS
  <2>4. n = [id |-> w.id, st |-> w.st, step |-> r.step, old |-> w.old]
    BY <2>2, <2>3
  <2>5. \A b : [n EXCEPT !.old = b] = [id |-> w.id, st |-> w.st, step |-> r.step, old |-> b]
    BY <2>4
  <2>6. [sagaRow EXCEPT !.step = r.step, !.old = FALSE] = row
    BY <1>6, <2>1, <2>3, <2>5, Zenon
  <2> QED BY <1>3, <2>6
<1>8. /\ run = [pc |-> run.pc, id |-> run.id, step |-> run.step] /\ run.step \in Nat /\ run.step <= SagaSteps
      /\ run.pc = "idle" => run.id = NoRecord
      /\ run.id = NoRecord \/ (run.id = r.id /\ run.step = r.step)
      /\ run.id # NoRecord => "none" = "none"
  BY <1>2, <1>4 DEF NoRecord
<1>9. /\ DOMAIN outcome' = Records /\ \A x \in Records : x # r.id => outcome'[x] = outcome[x]
      /\ r.id # NoRecord => outcome'[r.id] = "none"
  BY <1>2, <1>3
<1>10. r.id # NoRecord /\ sagaRow.id = r.id =>
         /\ r.step \in Nat /\ r.step <= did[r.id]
         /\ sagaRow.st = "completed" => "none" = "completed" /\ did[r.id] = SagaSteps
         /\ r.id \notin sagaCrossed =>
              /\ sagaRow.st = "failed" => "none" = "failed"
              /\ sagaRow.st \in InProgress => "none" = "none"
  <2>1. CASE r.id # NoRecord /\ sagaRow.id = r.id
    <3>4. did[r.id] = r.step
      BY <1>2, <2>1, Zenon
    <3>5. r.step \in Nat
      BY <1>2, Zenon
    <3>1. r.step \in Nat /\ r.step <= did[r.id]
      BY <3>4, <3>5
    <3>2. sagaRow.st # "completed"
      BY <1>2, <2>1
    <3>3. r.id \notin sagaCrossed => sagaRow.st # "failed"
      BY <1>2, <2>1
    <3> QED BY <3>1, <3>2, <3>3
  <2> QED BY <2>1
<1>11. sagaStart' = sagaStart /\ did' = did /\ sagaRuns' = sagaRuns
  BY <1>3
<1> QED BY <1>1, <1>5, <1>6, <1>7, <1>8, <1>9, <1>10, <1>11, RunGoes

LEMMA SagaCompensates ==
  ASSUME MaxSagaRuns \in Nat, SagaSteps \in Nat, SagaInv, NEW p \in SagaPods, compensateSaga(p)
  PROVE  SagaInv'
<1>1. PICK r : r = sagaRun[p]
  OBVIOUS
<1>2. /\ r = [pc |-> r.pc, id |-> r.id, step |-> r.step] /\ r.step \in Nat /\ r.step <= SagaSteps
      /\ r.id # NoRecord => r.id \in Records /\ did[r.id] = r.step /\ outcome[r.id] = "none"
      /\ r.id # NoRecord /\ sagaRow.id = r.id =>
           sagaRow.st # "completed" /\ (sagaRow.id \notin sagaCrossed => sagaRow.st # "failed")
      /\ \A st : [[sagaRow EXCEPT !.st = st] EXCEPT !.old = FALSE]
                   = [id |-> sagaRow.id, st |-> st, step |-> sagaRow.step, old |-> FALSE]
      /\ r.id # NoRecord /\ sagaRow.id = r.id => sagaRow.step \in Nat /\ sagaRow.step <= did[r.id]
      /\ DOMAIN sagaRun = SagaPods /\ did \in [Records -> Nat] /\ DOMAIN outcome = Records
  BY <1>1, RunOf
<1>3. /\ Write(r.id, Touched("compensating")) /\ sagaRun' = [sagaRun EXCEPT ![p].pc = "undo"]
      /\ sagaStart' = sagaStart /\ did' = did /\ sagaRuns' = sagaRuns
      /\ outcome' = outcome
  BY <1>1 DEF compensateSaga
<1>4. PICK run : run = [pc |-> "undo", id |-> r.id, step |-> r.step]
  OBVIOUS
<1>5. Goes(p, run)
  <2>1. r = [pc |-> r.pc, id |-> r.id, step |-> r.step]
    BY <1>2
  <2>2. [r EXCEPT !.pc = "undo"] = run
    BY <1>4, <2>1
  <2>3. sagaRun' = [sagaRun EXCEPT ![p] = run]
    BY <1>1, <1>3, <2>2
  <2> QED BY <2>3, Going
<1>6. PICK row : row = [id |-> sagaRow.id, st |-> "compensating", step |-> sagaRow.step, old |-> FALSE]
  OBVIOUS
<1>7. Write(r.id, row)
  BY <1>2, <1>3, <1>6, Zenon DEF Touched
<1>8. /\ run = [pc |-> run.pc, id |-> run.id, step |-> run.step] /\ run.step \in Nat /\ run.step <= SagaSteps
      /\ run.pc = "idle" => run.id = NoRecord
      /\ run.id = NoRecord \/ (run.id = r.id /\ run.step = r.step)
      /\ run.id # NoRecord => "none" = "none"
  BY <1>2, <1>4 DEF NoRecord
<1>9. /\ DOMAIN outcome' = Records /\ \A x \in Records : x # r.id => outcome'[x] = outcome[x]
      /\ r.id # NoRecord => outcome'[r.id] = "none"
  BY <1>2, <1>3
<1>10. r.id # NoRecord /\ sagaRow.id = r.id =>
         /\ sagaRow.step \in Nat /\ sagaRow.step <= did[r.id]
         /\ "compensating" = "completed" => "none" = "completed" /\ did[r.id] = SagaSteps
         /\ r.id \notin sagaCrossed =>
              /\ "compensating" = "failed" => "none" = "failed"
              /\ "compensating" \in InProgress => "none" = "none"
  BY <1>2, <1>3 DEF InProgress
<1>11. sagaStart' = sagaStart /\ did' = did /\ sagaRuns' = sagaRuns
  BY <1>3
<1> QED BY <1>1, <1>5, <1>6, <1>7, <1>8, <1>9, <1>10, <1>11, RunGoes

LEMMA SagaCompletes ==
  ASSUME MaxSagaRuns \in Nat, SagaSteps \in Nat, SagaInv, NEW p \in SagaPods, completeSaga(p)
  PROVE  SagaInv'
<1>1. PICK r : r = sagaRun[p]
  OBVIOUS
<1>2. /\ r = [pc |-> r.pc, id |-> r.id, step |-> r.step] /\ r.step \in Nat /\ r.step <= SagaSteps
      /\ r.id # NoRecord => r.id \in Records /\ did[r.id] = r.step /\ outcome[r.id] = "none"
      /\ r.id # NoRecord /\ sagaRow.id = r.id =>
           sagaRow.st # "completed" /\ (sagaRow.id \notin sagaCrossed => sagaRow.st # "failed")
      /\ \A st : [[sagaRow EXCEPT !.st = st] EXCEPT !.old = FALSE]
                   = [id |-> sagaRow.id, st |-> st, step |-> sagaRow.step, old |-> FALSE]
      /\ r.id # NoRecord /\ sagaRow.id = r.id => sagaRow.step \in Nat /\ sagaRow.step <= did[r.id]
      /\ DOMAIN sagaRun = SagaPods /\ did \in [Records -> Nat] /\ DOMAIN outcome = Records
  BY <1>1, RunOf
<1>3. /\ Write(r.id, Touched("completed")) /\ sagaRun' = [sagaRun EXCEPT ![p] = NotRunning]
      /\ sagaStart' = sagaStart /\ did' = did /\ sagaRuns' = sagaRuns
      /\ outcome' = (IF r.id = NoRecord THEN outcome ELSE [outcome EXCEPT ![r.id] = "completed"]) /\ r.step = SagaSteps
  BY <1>1 DEF completeSaga, End
<1>4. PICK run : run = [pc |-> "idle", id |-> NoRecord, step |-> 0]
  OBVIOUS
<1>5. Goes(p, run)
  <2>1. sagaRun' = [sagaRun EXCEPT ![p] = run]
    BY <1>3, <1>4, Zenon DEF NotRunning
  <2> QED BY <2>1, Going
<1>6. PICK row : row = [id |-> sagaRow.id, st |-> "completed", step |-> sagaRow.step, old |-> FALSE]
  OBVIOUS
<1>7. Write(r.id, row)
  BY <1>2, <1>3, <1>6, Zenon DEF Touched
<1>8. /\ run = [pc |-> run.pc, id |-> run.id, step |-> run.step] /\ run.step \in Nat /\ run.step <= SagaSteps
      /\ run.pc = "idle" => run.id = NoRecord
      /\ run.id = NoRecord \/ (run.id = r.id /\ run.step = r.step)
      /\ run.id # NoRecord => "completed" = "none"
  <2>1. run.pc = "idle" /\ run.id = NoRecord /\ run.step = 0
    BY <1>4
  <2>2. run.step \in Nat /\ run.step <= SagaSteps
    BY <2>1
  <2>3. run = [pc |-> run.pc, id |-> run.id, step |-> run.step]
    BY <1>4
  <2> QED BY <2>1, <2>2, <2>3, Zenon
<1>9. /\ DOMAIN outcome' = Records /\ \A x \in Records : x # r.id => outcome'[x] = outcome[x]
      /\ r.id # NoRecord => outcome'[r.id] = "completed"
  BY <1>2, <1>3
<1>10. r.id # NoRecord /\ sagaRow.id = r.id =>
         /\ sagaRow.step \in Nat /\ sagaRow.step <= did[r.id]
         /\ "completed" = "completed" => "completed" = "completed" /\ did[r.id] = SagaSteps
         /\ r.id \notin sagaCrossed =>
              /\ "completed" = "failed" => "completed" = "failed"
              /\ "completed" \in InProgress => "completed" = "none"
  BY <1>2, <1>3 DEF InProgress
<1>11. sagaStart' = sagaStart /\ did' = did /\ sagaRuns' = sagaRuns
  BY <1>3
<1> QED BY <1>1, <1>5, <1>6, <1>7, <1>8, <1>9, <1>10, <1>11, RunGoes

LEMMA SagaFails ==
  ASSUME MaxSagaRuns \in Nat, SagaSteps \in Nat, SagaInv, NEW p \in SagaPods, failSaga(p)
  PROVE  SagaInv'
<1>1. PICK r : r = sagaRun[p]
  OBVIOUS
<1>2. /\ r = [pc |-> r.pc, id |-> r.id, step |-> r.step] /\ r.step \in Nat /\ r.step <= SagaSteps
      /\ r.id # NoRecord => r.id \in Records /\ did[r.id] = r.step /\ outcome[r.id] = "none"
      /\ r.id # NoRecord /\ sagaRow.id = r.id =>
           sagaRow.st # "completed" /\ (sagaRow.id \notin sagaCrossed => sagaRow.st # "failed")
      /\ \A st : [[sagaRow EXCEPT !.st = st] EXCEPT !.old = FALSE]
                   = [id |-> sagaRow.id, st |-> st, step |-> sagaRow.step, old |-> FALSE]
      /\ r.id # NoRecord /\ sagaRow.id = r.id => sagaRow.step \in Nat /\ sagaRow.step <= did[r.id]
      /\ DOMAIN sagaRun = SagaPods /\ did \in [Records -> Nat] /\ DOMAIN outcome = Records
  BY <1>1, RunOf
<1>3. /\ Write(r.id, Touched("failed")) /\ sagaRun' = [sagaRun EXCEPT ![p] = NotRunning]
      /\ sagaStart' = sagaStart /\ did' = did /\ sagaRuns' = sagaRuns
      /\ outcome' = (IF r.id = NoRecord THEN outcome ELSE [outcome EXCEPT ![r.id] = "failed"])
  BY <1>1 DEF failSaga, End
<1>4. PICK run : run = [pc |-> "idle", id |-> NoRecord, step |-> 0]
  OBVIOUS
<1>5. Goes(p, run)
  <2>1. sagaRun' = [sagaRun EXCEPT ![p] = run]
    BY <1>3, <1>4, Zenon DEF NotRunning
  <2> QED BY <2>1, Going
<1>6. PICK row : row = [id |-> sagaRow.id, st |-> "failed", step |-> sagaRow.step, old |-> FALSE]
  OBVIOUS
<1>7. Write(r.id, row)
  BY <1>2, <1>3, <1>6, Zenon DEF Touched
<1>8. /\ run = [pc |-> run.pc, id |-> run.id, step |-> run.step] /\ run.step \in Nat /\ run.step <= SagaSteps
      /\ run.pc = "idle" => run.id = NoRecord
      /\ run.id = NoRecord \/ (run.id = r.id /\ run.step = r.step)
      /\ run.id # NoRecord => "failed" = "none"
  <2>1. run.pc = "idle" /\ run.id = NoRecord /\ run.step = 0
    BY <1>4
  <2>2. run.step \in Nat /\ run.step <= SagaSteps
    BY <2>1
  <2>3. run = [pc |-> run.pc, id |-> run.id, step |-> run.step]
    BY <1>4
  <2> QED BY <2>1, <2>2, <2>3, Zenon
<1>9. /\ DOMAIN outcome' = Records /\ \A x \in Records : x # r.id => outcome'[x] = outcome[x]
      /\ r.id # NoRecord => outcome'[r.id] = "failed"
  BY <1>2, <1>3
<1>10. r.id # NoRecord /\ sagaRow.id = r.id =>
         /\ sagaRow.step \in Nat /\ sagaRow.step <= did[r.id]
         /\ "failed" = "completed" => "failed" = "completed" /\ did[r.id] = SagaSteps
         /\ r.id \notin sagaCrossed =>
              /\ "failed" = "failed" => "failed" = "failed"
              /\ "failed" \in InProgress => "failed" = "none"
  BY <1>2, <1>3 DEF InProgress
<1>11. sagaStart' = sagaStart /\ did' = did /\ sagaRuns' = sagaRuns
  BY <1>3
<1> QED BY <1>1, <1>5, <1>6, <1>7, <1>8, <1>9, <1>10, <1>11, RunGoes

\* A step that is not a run's: the row gone, or rewritten, and failed only when the run
\* crashed or the record is noted.
LEMMA RowGoesOn ==
  ASSUME MaxSagaRuns \in Nat, SagaInv, UNCHANGED <<sagaRun, did, outcome, sagaRuns>>,
         sagaCrossed \subseteq sagaCrossed',
         DOMAIN sagaStart' = SagaPods, \A p \in SagaPods : sagaStart'[p].listed \in 0 .. sagaRuns,
         NEW st, NEW old,
         st = sagaRow.st \/ (st = "failed" /\ (sagaRow.id \in sagaCrossed' \/ outcome[sagaRow.id] = "crashed")),
         \/ sagaRow' \in {sagaRow, NoSaga}
         \/ sagaRow.id # NoRecord
            /\ sagaRow' = [id |-> sagaRow.id, st |-> st, step |-> sagaRow.step, old |-> old]
  PROVE  SagaInv'
<1>1. /\ SagaTyped /\ RowSound(sagaRow, did, outcome, sagaCrossed) /\ RecordOfOneRun
      /\ \A p \in SagaPods : RunSound(sagaRun[p], did, outcome, sagaRuns)
  BY DEF SagaInv
<1>2. SagaTyped'
  <2>1. did' \in [Records -> Nat] /\ DOMAIN outcome' = Records /\ DOMAIN sagaRun' = SagaPods
    BY <1>1 DEF SagaTyped
  <2>2. \/ sagaRow' \in {sagaRow, NoSaga}
        \/ Formed(sagaRow') /\ sagaRow'.id = sagaRow.id /\ sagaRow.id # NoRecord /\ sagaRow'.step \in Nat
    BY <1>1 DEF SagaTyped, Formed
  <2>3. NoRecord \in 0 .. sagaRuns
    BY <1>1 DEF SagaTyped, NoRecord
  <2>4. \A r \in Records : r # NoRecord => did'[r] = did[r] /\ outcome'[r] = outcome[r]
    OBVIOUS
  <2> QED BY <2>1, <2>2, <2>3, <2>4, TypesKeep
<1>3. RowSound(sagaRow, did, outcome, sagaCrossed)'
  <2>1. CASE sagaRow' = sagaRow
    BY <1>1, <2>1 DEF RowSound
  <2>2. CASE sagaRow' = NoSaga
    BY <2>2 DEF RowSound, NoSaga
  <2>3. CASE /\ sagaRow.id # NoRecord
             /\ sagaRow' = [id |-> sagaRow.id, st |-> st, step |-> sagaRow.step, old |-> old]
    <3>1. CASE st = sagaRow.st
      BY <1>1, <2>3, <3>1 DEF RowSound
    <3>2. CASE st = "failed" /\ (sagaRow.id \in sagaCrossed' \/ outcome[sagaRow.id] = "crashed")
      BY <1>1, <2>3, <3>2 DEF RowSound, InProgress
    <3> QED BY <3>1, <3>2
  <2> QED BY <2>1, <2>2, <2>3
<1>4. /\ \A p \in SagaPods : RunSound(sagaRun[p], did, outcome, sagaRuns)'
      /\ RecordOfOneRun'
  BY <1>1 DEF RecordOfOneRun
<1> QED BY <1>2, <1>3, <1>4 DEF SagaInv

LEMMA SagaRowForms ==
  ASSUME SagaInv
  PROVE  /\ \A st : [[sagaRow EXCEPT !.st = st] EXCEPT !.old = FALSE]
                     = [id |-> sagaRow.id, st |-> st, step |-> sagaRow.step, old |-> FALSE]
         /\ [sagaRow EXCEPT !.old = TRUE]
              = [id |-> sagaRow.id, st |-> sagaRow.st, step |-> sagaRow.step, old |-> TRUE]
<1>1. PICK w : w = sagaRow
  OBVIOUS
<1>2. w = [id |-> w.id, st |-> w.st, step |-> w.step, old |-> w.old]
  BY <1>1, Zenon DEF SagaInv, SagaTyped
<1>3. ASSUME NEW st
      PROVE  [[w EXCEPT !.st = st] EXCEPT !.old = FALSE]
               = [id |-> w.id, st |-> st, step |-> w.step, old |-> FALSE]
  <2>1. PICK n : n = [w EXCEPT !.st = st]
    OBVIOUS
  <2>2. n = [id |-> w.id, st |-> st, step |-> w.step, old |-> w.old]
    BY <1>2, <2>1
  <2>3. \A b : [n EXCEPT !.old = b] = [id |-> w.id, st |-> st, step |-> w.step, old |-> b]
    BY <2>2
  <2> QED BY <2>1, <2>3, Zenon
<1>4. \A b : [w EXCEPT !.old = b] = [id |-> w.id, st |-> w.st, step |-> w.step, old |-> b]
  BY <1>2
<1> QED BY <1>1, <1>3, <1>4, Zenon

LEMMA SagaCrashes ==
  ASSUME MaxSagaRuns \in Nat, SagaSteps \in Nat, SagaInv, NEW p \in SagaPods, CrashSagaPod(p)
  PROVE  SagaInv'
<1>1. PICK r, run : r = sagaRun[p] /\ run = [pc |-> "idle", id |-> NoRecord, step |-> 0]
  OBVIOUS
<1>2. /\ sagaStart' = [sagaStart EXCEPT ![p] = [pc |-> "down", listed |-> NoRecord]]
      /\ sagaRun' = [sagaRun EXCEPT ![p] = run]
      /\ outcome' = (IF r.id = NoRecord THEN outcome ELSE [outcome EXCEPT ![r.id] = "crashed"])
      /\ UNCHANGED <<did, sagaRuns, sagaRow, sagaCrossed>>
  BY <1>1, Zenon DEF CrashSagaPod, End, NotRunning
<1>3. /\ SagaTyped /\ RowSound(sagaRow, did, outcome, sagaCrossed)
      /\ RunSound(r, did, outcome, sagaRuns)
  BY <1>1 DEF SagaInv
<1>4. DOMAIN outcome' = Records /\ \A x \in Records : x # r.id => outcome'[x] = outcome[x]
  BY <1>2, <1>3 DEF SagaTyped
<1>5. r.id \in 0 .. sagaRuns
  BY <1>3 DEF RunSound
<1>6. DOMAIN sagaStart' = SagaPods /\ \A q \in SagaPods : sagaStart'[q].listed \in 0 .. sagaRuns
  <2>1. PICK s : s = [pc |-> "down", listed |-> NoRecord]
    OBVIOUS
  <2>2. s.listed \in 0 .. sagaRuns
    BY <1>3, <2>1 DEF SagaTyped, NoRecord
  <2>3. sagaStart' = [sagaStart EXCEPT ![p] = s]
    BY <1>2, <2>1
  <2> QED BY <1>3, <2>2, <2>3 DEF SagaTyped
<1>7. Goes(p, run)
  BY <1>2, Going
<1>8. /\ \A q \in SagaPods : RunSound(sagaRun[q], did, outcome, sagaRuns)'
      /\ DOMAIN sagaRun' = SagaPods /\ RecordOfOneRun'
  <2>1. run.pc = "idle" /\ run.id = NoRecord /\ run.step = 0
    BY <1>1
  <2>2. run.step \in Nat /\ run.step <= SagaSteps
    BY <2>1
  <2>3. run = [pc |-> run.pc, id |-> run.id, step |-> run.step]
    BY <1>1
  <2>4. \A x \in Records : x # sagaRun[p].id => did'[x] = did[x] /\ outcome'[x] = outcome[x]
    BY <1>1, <1>2, <1>4
  <2>5. run.id \in {NoRecord, sagaRun[p].id} /\ sagaRuns' = sagaRuns
    BY <1>2, <2>1
  <2>6. run.id # NoRecord => did'[run.id] = run.step /\ outcome'[run.id] = "none"
    BY <2>1
  <2>7. run.pc = "idle" => run.id = NoRecord
    BY <2>1
  <2> QED BY <1>7, <2>2, <2>3, <2>4, <2>5, <2>6, <2>7, RunsKeep
<1>9. SagaTyped'
  <2>1. sagaRow' \in {sagaRow, NoSaga} /\ did' \in [Records -> Nat] /\ sagaRuns' = sagaRuns
    BY <1>2, <1>3 DEF SagaTyped
  <2>2. \A x \in Records : x # r.id => did'[x] = did[x] /\ outcome'[x] = outcome[x]
    BY <1>2, <1>4
  <2> QED BY <1>4, <1>5, <1>6, <1>8, <2>1, <2>2, TypesKeep
<1>10. RowSound(sagaRow, did, outcome, sagaCrossed)'
  <2>1. sagaRow.id # NoRecord => sagaRow.id \in Records
    BY <1>3 DEF SagaTyped, Records, NoRecord
  <2>2. CASE sagaRow.id = r.id /\ r.id # NoRecord
    <3>1. sagaRow.st # "completed" /\ (sagaRow.id \notin sagaCrossed => sagaRow.st # "failed")
      BY <1>1, <2>2, RowOfRun
    <3>2. outcome'[sagaRow.id] = "crashed"
      BY <1>2, <1>3, <2>1, <2>2 DEF SagaTyped
    <3> QED BY <1>2, <1>3, <2>2, <3>1, <3>2 DEF RowSound
  <2>3. CASE sagaRow.id # r.id
    BY <1>2, <1>3, <1>4, <2>1, <2>3 DEF RowSound
  <2>4. CASE sagaRow.id = NoRecord
    BY <1>2, <2>4 DEF RowSound
  <2> QED BY <2>2, <2>3, <2>4
<1> QED BY <1>8, <1>9, <1>10 DEF SagaInv

LEMMA SagaLists ==
  ASSUME MaxSagaRuns \in Nat, SagaInv, NEW p \in SagaPods, GetRunning(p)
  PROVE  SagaInv'
<1>1. PICK id : id = (IF sagaRow.st \in InProgress THEN sagaRow.id ELSE NoRecord)
  OBVIOUS
<1>2. PICK s : s = [pc |-> "starting", listed |-> id]
  OBVIOUS
<1>3. sagaStart' = [sagaStart EXCEPT ![p] = s]
      /\ UNCHANGED <<sagaRow, sagaRun, did, outcome, sagaCrossed, sagaRuns>>
  BY <1>1, <1>2 DEF GetRunning
<1>4. SagaTyped
  BY DEF SagaInv
<1>5. s.listed \in 0 .. sagaRuns
  BY <1>1, <1>2, <1>4 DEF SagaTyped, NoRecord
<1>6. DOMAIN sagaStart' = SagaPods /\ \A q \in SagaPods : sagaStart'[q].listed \in 0 .. sagaRuns
  BY <1>3, <1>4, <1>5 DEF SagaTyped
<1> QED BY <1>3, <1>6, RowGoesOn

LEMMA SagaFailsStale ==
  ASSUME MaxSagaRuns \in Nat, SagaInv, NEW p \in SagaPods, FailStale(p)
  PROVE  SagaInv'
<1>1. PICK id : id = sagaStart[p].listed
  OBVIOUS
<1>2. SagaTyped
  BY DEF SagaInv
<1>3. sagaStart' = [sagaStart EXCEPT ![p] = Up] /\ UNCHANGED <<sagaRun, did, outcome, sagaRuns>>
  BY DEF FailStale
<1>4. DOMAIN sagaStart' = SagaPods /\ \A q \in SagaPods : sagaStart'[q].listed \in 0 .. sagaRuns
  <2>1. PICK s : s = Up
    OBVIOUS
  <2>2. s.listed \in 0 .. sagaRuns
    BY <1>2, <2>1 DEF SagaTyped, Up, NoRecord
  <2>3. sagaStart' = [sagaStart EXCEPT ![p] = s]
    BY <1>3, <2>1
  <2> QED BY <1>2, <2>2, <2>3 DEF SagaTyped
<1>5. \/ /\ id # NoRecord /\ sagaRow.id = id /\ sagaRow' = Touched("failed")
         /\ sagaCrossed' = (IF outcome[id] = "crashed" THEN sagaCrossed ELSE sagaCrossed \cup {id})
      \/ sagaRow' = sagaRow
  BY <1>1 DEF FailStale, Fault, RowOf
<1>6. sagaCrossed \subseteq sagaCrossed'
  BY <1>1 DEF FailStale, Fault
<1>7. CASE sagaRow' = sagaRow
  BY <1>3, <1>4, <1>6, <1>7, RowGoesOn
<1>8. CASE /\ id # NoRecord /\ sagaRow.id = id /\ sagaRow' = Touched("failed")
           /\ sagaCrossed' = (IF outcome[id] = "crashed" THEN sagaCrossed ELSE sagaCrossed \cup {id})
  <2>1. sagaRow' = [id |-> sagaRow.id, st |-> "failed", step |-> sagaRow.step, old |-> FALSE]
    BY <1>8, SagaRowForms, Zenon DEF Touched
  <2>2. sagaRow.id \in sagaCrossed' \/ outcome[sagaRow.id] = "crashed"
    BY <1>8
  <2>3. sagaRow.id # NoRecord
    BY <1>8
  <2> QED BY <1>3, <1>4, <1>6, <2>1, <2>2, <2>3, RowGoesOn
<1> QED BY <1>5, <1>7, <1>8

LEMMA SagaAges ==
  ASSUME MaxSagaRuns \in Nat, SagaInv, GrowOld \/ CleanupSagas
  PROVE  SagaInv'
<1>1. UNCHANGED <<sagaRun, sagaStart, did, outcome, sagaCrossed, sagaRuns>>
  BY DEF GrowOld, CleanupSagas
<1>2. SagaTyped
  BY DEF SagaInv
<1>3. DOMAIN sagaStart' = SagaPods /\ \A q \in SagaPods : sagaStart'[q].listed \in 0 .. sagaRuns
  BY <1>1, <1>2 DEF SagaTyped
<1>4. CASE sagaRow' = NoSaga
  BY <1>1, <1>3, <1>4, RowGoesOn
<1>5. CASE sagaRow # NoSaga /\ sagaRow' = [sagaRow EXCEPT !.old = TRUE]
  <2>1. sagaRow' = [id |-> sagaRow.id, st |-> sagaRow.st, step |-> sagaRow.step, old |-> TRUE]
    BY <1>5, SagaRowForms, Zenon
  <2>2. sagaRow.id # NoRecord
    BY <1>2, <1>5 DEF SagaTyped
  <2>3. PICK st : st = sagaRow.st
    OBVIOUS
  <2>4. sagaRow' = [id |-> sagaRow.id, st |-> st, step |-> sagaRow.step, old |-> TRUE]
    BY <2>1, <2>3
  <2> QED BY <1>1, <1>3, <2>2, <2>3, <2>4, RowGoesOn
<1> QED BY <1>4, <1>5 DEF GrowOld, CleanupSagas

\* The sagas' record says no more than the run did, whatever fails, crashes or starts up,
\* and is never written by two runs (saga_helpers.go, SagaRepository).
THEOREM SagasAreSafe ==
  ASSUME MaxSagaRuns \in Nat, SagaSteps \in Nat
  PROVE  SagaSpec => []SagasSafe
<1>1. SagaInit => SagaInv
  BY SagaStarts
<1>2. SagaInv /\ [SagaNext]_sagaVars => SagaInv'
  <2> SUFFICES ASSUME SagaInv, [SagaNext]_sagaVars PROVE SagaInv'
    OBVIOUS
  <2>1. ASSUME NEW p \in SagaPods, CreateSaga(p) PROVE SagaInv'
    BY <2>1, SagaCreates
  <2>2. ASSUME NEW p \in SagaPods, DoStep(p) PROVE SagaInv'
    BY <2>2, SagaDoes
  <2>3. ASSUME NEW p \in SagaPods, checkpointSaga(p) PROVE SagaInv'
    BY <2>3, SagaCheckpoints
  <2>4. ASSUME NEW p \in SagaPods, completeSaga(p) PROVE SagaInv'
    BY <2>4, SagaCompletes
  <2>5. ASSUME NEW p \in SagaPods, failSaga(p) PROVE SagaInv'
    BY <2>5, SagaFails
  <2>6. ASSUME NEW p \in SagaPods, compensateSaga(p) PROVE SagaInv'
    BY <2>6, SagaCompensates
  <2>7. ASSUME NEW p \in SagaPods, CrashSagaPod(p) PROVE SagaInv'
    BY <2>7, SagaCrashes
  <2>8. ASSUME NEW p \in SagaPods, GetRunning(p) PROVE SagaInv'
    BY <2>8, SagaLists
  <2>9. ASSUME NEW p \in SagaPods, FailStale(p) PROVE SagaInv'
    BY <2>9, SagaFailsStale
  <2>10. CASE GrowOld \/ CleanupSagas
    BY <2>10, SagaAges
  <2>11. CASE UNCHANGED sagaVars
    <3>1. /\ UNCHANGED <<sagaRun, did, outcome, sagaRuns, sagaStart, sagaRow, sagaCrossed>>
          /\ SagaTyped
      BY <2>11 DEF sagaVars, SagaInv
    <3>2. DOMAIN sagaStart' = SagaPods /\ \A q \in SagaPods : sagaStart'[q].listed \in 0 .. sagaRuns
      BY <3>1 DEF SagaTyped
    <3> QED BY <3>1, <3>2, RowGoesOn
  <2> QED BY <2>1, <2>2, <2>3, <2>4, <2>5, <2>6, <2>7, <2>8, <2>9, <2>10, <2>11 DEF SagaNext
<1>3. SagaInv => SagasSafe
  BY SagaHolds
<1> QED BY <1>1, <1>2, <1>3, PTL DEF SagaSpec

-----------------------------------------------------------------------------
(* The requests of the HTTP gateway (Gateway).                               *)
\* What a request may see so far: the platform, a shop or nothing.
ScopeHeld(r) ==
  /\ r.scope = "*" => IsPlatformAdmin(r.seen, r.who)
  /\ r.scope \in GateShops =>
       \/ IsPlatformAdmin(r.seen, r.who) \/ IsMember(r.seen, r.who, r.scope)
       \/ r.scope = r.storefront

Coming(r) ==
  r = [pc |-> r.pc, who |-> r.who, group |-> r.group, storefront |-> r.storefront,
       header |-> r.header, scope |-> r.scope, seen |-> r.seen]

Admitted(r) ==
  r = [pc |-> r.pc, op |-> r.op, who |-> r.who, scope |-> r.scope,
       storefront |-> r.storefront, seen |-> r.seen]

\* A request under way has seen the roles as they are.
RequestSound(r, roles) ==
  /\ roles \subseteq r.seen
  /\ ScopeHeld(r)
  /\ r.storefront \in GateShops \cup {""}
  /\ \/ Coming(r) /\ r.pc \in {"tenant", "auth", "shop", "route"} /\ (r.pc = "tenant" => r.scope = "")
     \/ Admitted(r) /\ r.pc = "handle" /\ (r.op.need # "" => Can(r.seen, r.who, r.scope, r.op.need))

GateInv ==
  /\ DOMAIN httpRequest = GateWorkers
  /\ \A g \in GateWorkers : httpRequest[g] = NoRequest \/ RequestSound(httpRequest[g], gateRoles)
  /\ RequestsInBounds

\* Whoever may do something still may when bindings are added.
LEMMA MoreRolesMoreAccess ==
  ASSUME NEW bs, NEW cs, bs \subseteq cs, NEW u
  PROVE  /\ IsPlatformAdmin(bs, u) => IsPlatformAdmin(cs, u)
         /\ \A shop : IsMember(bs, u, shop) => IsMember(cs, u, shop)
         /\ \A tenant, p : Can(bs, u, tenant, p) => Can(cs, u, tenant, p)
<1>1. IsPlatformAdmin(bs, u) => IsPlatformAdmin(cs, u)
  BY DEF IsPlatformAdmin
<1>2. \A shop : IsMember(bs, u, shop) => IsMember(cs, u, shop)
  BY DEF IsMember
<1>3. ASSUME NEW tenant, NEW p, Can(bs, u, tenant, p)
      PROVE  Can(cs, u, tenant, p)
  BY <1>1, <1>3, Zenon DEF Can
<1> QED BY <1>1, <1>2, <1>3

LEMMA GateStarts == ASSUME GateInit PROVE GateInv
BY DEF GateInit, GateInv, RequestsInBounds

\* A worker goes on with its request, or is rid of it; nothing else changes.
LEMMA RequestGoesOn ==
  ASSUME GateInv, NEW g \in GateWorkers, NEW r, r = NoRequest \/ RequestSound(r, gateRoles),
         httpRequest' = [httpRequest EXCEPT ![g] = r], gateRoles' = gateRoles,
         lastAct' = lastAct \/ RequestsInBounds'
  PROVE  GateInv'
<1>1. DOMAIN httpRequest' = GateWorkers
      /\ \A h \in GateWorkers : httpRequest'[h] = NoRequest \/ RequestSound(httpRequest'[h], gateRoles)
  BY DEF GateInv
<1>2. RequestsInBounds'
  BY DEF GateInv, RequestsInBounds
<1> QED BY <1>1, <1>2 DEF GateInv, RequestSound

LEMMA GateReceives ==
  ASSUME GateShops \cap {"", "*"} = {}, GateInv, NEW g \in GateWorkers, NEW who, NEW group,
         NEW storefront \in GateShops \cup {""}, NEW header, Receive(g, who, group, storefront, header)
  PROVE  GateInv'
<1>1. PICK r : r = [pc |-> "tenant", who |-> who, group |-> group, storefront |-> storefront,
                    header |-> header, scope |-> "", seen |-> gateRoles]
  OBVIOUS
<1>2. RequestSound(r, gateRoles)
  BY <1>1 DEF RequestSound, ScopeHeld, Coming
<1>3. httpRequest' = [httpRequest EXCEPT ![g] = r] /\ gateRoles' = gateRoles /\ lastAct' = lastAct
  BY <1>1 DEF Receive, Move
<1> QED BY <1>2, <1>3, RequestGoesOn

\* The request with another place and scope.
LEMMA RequestMoves ==
  ASSUME NEW r, Coming(r), NEW place, NEW scope
  PROVE  /\ [r EXCEPT !.pc = place, !.scope = scope]
              = [pc |-> place, who |-> r.who, group |-> r.group, storefront |-> r.storefront,
                 header |-> r.header, scope |-> scope, seen |-> r.seen]
         /\ [r EXCEPT !.pc = place]
              = [pc |-> place, who |-> r.who, group |-> r.group, storefront |-> r.storefront,
                 header |-> r.header, scope |-> r.scope, seen |-> r.seen]
<1>1. PICK w, a, gr, s, h, sc, se :
        /\ w = [pc |-> a, who |-> r.who, group |-> gr, storefront |-> s, header |-> h, scope |-> sc, seen |-> se]
        /\ r = w /\ a = r.pc /\ gr = r.group /\ s = r.storefront /\ h = r.header /\ sc = r.scope /\ se = r.seen
  BY DEF Coming
<1>2. PICK n : n = [w EXCEPT !.pc = place]
  OBVIOUS
<1>3. n = [pc |-> place, who |-> r.who, group |-> gr, storefront |-> s, header |-> h, scope |-> sc, seen |-> se]
  BY <1>1, <1>2
<1>4. [n EXCEPT !.scope = scope]
        = [pc |-> place, who |-> r.who, group |-> gr, storefront |-> s, header |-> h, scope |-> scope, seen |-> se]
  BY <1>3
<1> QED BY <1>1, <1>2, <1>3, <1>4, Zenon

LEMMA GateResolvesTenant ==
  ASSUME GateShops \cap {"", "*"} = {}, GateInv, NEW g \in GateWorkers, TenantResolver(g)
  PROVE  GateInv'
<1>1. PICK r : r = httpRequest[g]
  OBVIOUS
<1>2. r.pc = "tenant" /\ Keep
  BY <1>1 DEF TenantResolver
<1>3. RequestSound(r, gateRoles) /\ Coming(r) /\ r.scope = ""
  <2>1. r # NoRequest
    <3>1. NoRequest.pc = "none"
      BY DEF NoRequest
    <3>2. r.pc # "none"
      BY <1>2
    <3> QED BY <3>1, <3>2
  <2>2. RequestSound(r, gateRoles)
    BY <1>1, <2>1 DEF GateInv
  <2> QED BY <1>2, <2>2 DEF RequestSound
<1>4. ASSUME NEW next \in {"route", "auth"}, NEW scope \in {"", r.storefront}, NEW n,
             n = [r EXCEPT !.pc = next, !.scope = scope]
      PROVE  RequestSound(n, gateRoles)
  <2>1. n = [pc |-> next, who |-> r.who, group |-> r.group, storefront |-> r.storefront,
             header |-> r.header, scope |-> scope, seen |-> r.seen]
    BY <1>3, <1>4, RequestMoves
  <2>2. ScopeHeld(n)
    BY <1>3, <2>1 DEF ScopeHeld, RequestSound
  <2> QED BY <1>3, <2>1, <2>2 DEF RequestSound, Coming
<1>5. PICK n : /\ httpRequest' = [httpRequest EXCEPT ![g] = n]
               /\ \/ n = NoRequest
                  \/ \E next \in {"route", "auth"}, scope \in {"", r.storefront} :
                       n = [r EXCEPT !.pc = next, !.scope = scope]
  <2>1. ASSUME NEW next
        PROVE  [r EXCEPT !.pc = next] = [r EXCEPT !.pc = next, !.scope = ""]
    BY <1>3, RequestMoves
  <2>2. PICK next, scope :
          /\ next \in {"route", "auth"} /\ scope \in {"", r.storefront}
          /\ \/ Move(g, [r EXCEPT !.pc = next, !.scope = scope])
             \/ Reply(g)
             \/ Move(g, [r EXCEPT !.pc = next])
    BY <1>1 DEF TenantResolver
  <2>3. CASE httpRequest' = [httpRequest EXCEPT ![g] = [r EXCEPT !.pc = next, !.scope = scope]]
    BY <2>2, <2>3
  <2>4. CASE httpRequest' = [httpRequest EXCEPT ![g] = [r EXCEPT !.pc = next]]
    BY <2>1, <2>2, <2>4
  <2>5. CASE httpRequest' = [httpRequest EXCEPT ![g] = NoRequest]
    BY <2>5
  <2> QED BY <1>1, <2>2, <2>3, <2>4, <2>5 DEF Move, Reply
<1>6. n = NoRequest \/ RequestSound(n, gateRoles)
  BY <1>4, <1>5
<1> QED BY <1>2, <1>5, <1>6, RequestGoesOn DEF Keep

LEMMA GateAuthenticates ==
  ASSUME GateInv, NEW g \in GateWorkers, Auth(g)
  PROVE  GateInv'
<1>1. PICK r : r = httpRequest[g]
  OBVIOUS
<1>2. r.pc = "auth" /\ Keep
  BY <1>1 DEF Auth
<1>3. RequestSound(r, gateRoles) /\ Coming(r)
  <2>1. r # NoRequest
    <3>1. NoRequest.pc = "none"
      BY DEF NoRequest
    <3>2. r.pc # "none"
      BY <1>2
    <3> QED BY <3>1, <3>2
  <2>2. RequestSound(r, gateRoles)
    BY <1>1, <2>1 DEF GateInv
  <2> QED BY <1>2, <2>2 DEF RequestSound
<1>4. PICK n : n = [r EXCEPT !.pc = "shop"]
  OBVIOUS
<1>5. n = [pc |-> "shop", who |-> r.who, group |-> r.group, storefront |-> r.storefront,
           header |-> r.header, scope |-> r.scope, seen |-> r.seen]
  BY <1>3, <1>4, RequestMoves
<1>6. RequestSound(n, gateRoles)
  BY <1>3, <1>5 DEF RequestSound, Coming, ScopeHeld
<1>7. httpRequest' = [httpRequest EXCEPT ![g] = NoRequest] \/ httpRequest' = [httpRequest EXCEPT ![g] = n]
  BY <1>1, <1>4 DEF Auth, Move, Reply
<1> QED BY <1>2, <1>6, <1>7, RequestGoesOn DEF Keep

LEMMA GateResolvesShop ==
  ASSUME GateShops \cap {"", "*"} = {}, GateInv, NEW g \in GateWorkers, ShopResolver(g)
  PROVE  GateInv'
<1>1. PICK r : r = httpRequest[g]
  OBVIOUS
<1>2. r.pc = "shop" /\ Keep
  BY <1>1 DEF ShopResolver
<1>3. RequestSound(r, gateRoles) /\ Coming(r)
  <2>1. r # NoRequest
    <3>1. NoRequest.pc = "none"
      BY DEF NoRequest
    <3>2. r.pc # "none"
      BY <1>2
    <3> QED BY <3>1, <3>2
  <2>2. RequestSound(r, gateRoles)
    BY <1>1, <2>1 DEF GateInv
  <2> QED BY <1>2, <2>2 DEF RequestSound
<1>4. /\ IsPlatformAdmin(gateRoles, r.who) => IsPlatformAdmin(r.seen, r.who)
      /\ \A shop : IsMember(gateRoles, r.who, shop) => IsMember(r.seen, r.who, shop)
  BY <1>3, MoreRolesMoreAccess DEF RequestSound
<1>5. ASSUME NEW scope, NEW n, n = [r EXCEPT !.pc = "route", !.scope = scope],
             \/ scope = r.scope
             \/ scope = "*" /\ IsPlatformAdmin(r.seen, r.who)
             \/ scope \in GateShops /\ (IsPlatformAdmin(r.seen, r.who) \/ IsMember(r.seen, r.who, scope))
      PROVE  RequestSound(n, gateRoles)
  <2>1. n = [pc |-> "route", who |-> r.who, group |-> r.group, storefront |-> r.storefront,
             header |-> r.header, scope |-> scope, seen |-> r.seen]
    BY <1>3, <1>5, RequestMoves
  <2>2. ScopeHeld(n)
    BY <1>3, <1>5, <2>1 DEF ScopeHeld, RequestSound
  <2> QED BY <1>3, <2>1, <2>2 DEF RequestSound, Coming
<1>6. PICK n : /\ httpRequest' = [httpRequest EXCEPT ![g] = n]
               /\ \/ n = NoRequest
                  \/ \E scope :
                       /\ n = [r EXCEPT !.pc = "route", !.scope = scope]
                       /\ \/ scope = r.scope
                          \/ scope = "*" /\ IsPlatformAdmin(gateRoles, r.who)
                          \/ /\ scope \in GateShops
                             /\ IsPlatformAdmin(gateRoles, r.who) \/ IsMember(gateRoles, r.who, scope)
  <2>1. CASE /\ r.header = ""
             /\ Move(g, [r EXCEPT !.pc = "route",
                                  !.scope = IF IsPlatformAdmin(gateRoles, r.who) THEN "*" ELSE @])
    <3>1. CASE IsPlatformAdmin(gateRoles, r.who)
      <4>1. Move(g, [r EXCEPT !.pc = "route", !.scope = "*"])
        BY <2>1, <3>1
      <4> QED BY <3>1, <4>1 DEF Move
    <3>2. CASE ~IsPlatformAdmin(gateRoles, r.who)
      <4>1. PICK w : w = [r EXCEPT !.pc = "route"]
        OBVIOUS
      <4>2. w.scope = r.scope
        BY <1>3, <4>1, RequestMoves
      <4>3. [r EXCEPT !.pc = "route", !.scope = IF IsPlatformAdmin(gateRoles, r.who) THEN "*" ELSE @]
              = [w EXCEPT !.scope = w.scope]
        BY <3>2, <4>1
      <4>4. Move(g, [r EXCEPT !.pc = "route", !.scope = r.scope])
        BY <2>1, <4>1, <4>2, <4>3
      <4> QED BY <4>4 DEF Move
    <3> QED BY <3>1, <3>2
  <2>2. CASE Reply(g)
    BY <2>2 DEF Reply, Move
  <2>3. CASE /\ r.header \in GateShops
             /\ IsPlatformAdmin(gateRoles, r.who) \/ IsMember(gateRoles, r.who, r.header)
             /\ Move(g, [r EXCEPT !.pc = "route", !.scope = r.header])
    BY <2>3 DEF Move
  <2> QED BY <1>1, <2>1, <2>2, <2>3 DEF ShopResolver
<1>7. n = NoRequest \/ RequestSound(n, gateRoles)
  BY <1>4, <1>5, <1>6
<1> QED BY <1>2, <1>6, <1>7, RequestGoesOn DEF Keep

LEMMA GateAdmits ==
  ASSUME GateInv, NEW g \in GateWorkers, NEW op, RequirePermission(g, op)
  PROVE  GateInv'
<1>1. PICK r : r = httpRequest[g]
  OBVIOUS
<1>2. r.pc = "route" /\ Keep
  BY <1>1 DEF RequirePermission
<1>3. RequestSound(r, gateRoles)
  BY <1>1, <1>2 DEF GateInv, NoRequest
<1>4. PICK n : n = [pc |-> "handle", op |-> op, who |-> r.who, scope |-> r.scope,
                    storefront |-> r.storefront, seen |-> r.seen]
  OBVIOUS
<1>5. CASE httpRequest' = [httpRequest EXCEPT ![g] = NoRequest]
  BY <1>2, <1>5, RequestGoesOn DEF Keep
<1>6. CASE /\ httpRequest' = [httpRequest EXCEPT ![g] = n]
           /\ op.need = "" \/ Can(gateRoles, r.who, r.scope, op.need)
  <2>1. op.need # "" => Can(r.seen, r.who, r.scope, op.need)
    BY <1>3, <1>6, MoreRolesMoreAccess DEF RequestSound
  <2>2. RequestSound(n, gateRoles)
    BY <1>3, <1>4, <2>1 DEF RequestSound, Admitted, ScopeHeld
  <2> QED BY <1>2, <1>6, <2>2, RequestGoesOn DEF Keep
<1>7. \/ httpRequest' = [httpRequest EXCEPT ![g] = NoRequest]
      \/ /\ httpRequest' = [httpRequest EXCEPT ![g] = n]
         /\ op.need = "" \/ Can(gateRoles, r.who, r.scope, op.need)
  BY <1>1, <1>4 DEF RequirePermission, Move, Reply
<1> QED BY <1>5, <1>6, <1>7

LEMMA GateHandles ==
  ASSUME GateInv, NEW g \in GateWorkers, NEW target, Handle(g, target)
  PROVE  GateInv'
<1>1. PICK r : r = httpRequest[g]
  OBVIOUS
<1>2. /\ r.pc = "handle" /\ target \in Targets(r) /\ gateRoles' = gateRoles
      /\ lastAct' = [who |-> r.who, op |-> r.op, scope |-> r.scope, target |-> target,
                     storefront |-> r.storefront, seen |-> r.seen]
      /\ httpRequest' = [httpRequest EXCEPT ![g] = NoRequest]
  BY <1>1 DEF Handle, Reply, Move
<1>3. RequestSound(r, gateRoles)
  BY <1>1, <1>2 DEF GateInv, NoRequest
<1>4. /\ r.op.reach \in {"self", "owned"} => target = r.who
      /\ r.op.reach = "shop" => r.scope # ""
      /\ r.op.reach = "plugin write" => target # "builtin"
  BY <1>2 DEF Targets
<1>5. RequestsInBounds'
  <2>1. PICK a : a = lastAct'
    OBVIOUS
  <2>2. /\ a.who = r.who /\ a.op = r.op /\ a.scope = r.scope /\ a.target = target
        /\ a.storefront = r.storefront /\ a.seen = r.seen
    BY <1>2, <2>1
  <2>3. /\ r.op.need # "" => Can(r.seen, r.who, r.scope, r.op.need)
        /\ ScopeHeld(r)
    BY <1>2, <1>3 DEF RequestSound
  <2> QED BY <1>4, <2>1, <2>2, <2>3, Zenon DEF RequestsInBounds, ScopeHeld
<1> QED BY <1>2, <1>5, RequestGoesOn

LEMMA GateRolesChange ==
  ASSUME GateInv, NEW b, ChangeBinding(b)
  PROVE  GateInv'
<1>1. PICK roles : roles = gateRoles'
  OBVIOUS
<1>2. /\ httpRequest' = [g \in GateWorkers |->
           IF httpRequest[g] = NoRequest THEN NoRequest
                                         ELSE [httpRequest[g] EXCEPT !.seen = @ \cup roles]]
      /\ lastAct' = lastAct
  BY <1>1 DEF ChangeBinding
<1>3. ASSUME NEW r, RequestSound(r, gateRoles), NEW n, n = [r EXCEPT !.seen = @ \cup roles]
      PROVE  RequestSound(n, roles)
  <2>1. PICK seen : seen = r.seen \cup roles
    OBVIOUS
  <2>2. roles \subseteq seen
        /\ (IsPlatformAdmin(r.seen, r.who) => IsPlatformAdmin(seen, r.who))
        /\ (\A shop : IsMember(r.seen, r.who, shop) => IsMember(seen, r.who, shop))
        /\ (\A tenant, p : Can(r.seen, r.who, tenant, p) => Can(seen, r.who, tenant, p))
    <3>1. r.seen \subseteq seen /\ roles \subseteq seen
      BY <2>1
    <3> QED BY <3>1, MoreRolesMoreAccess
  <2>3. /\ ScopeHeld(r) /\ r.storefront \in GateShops \cup {""}
        /\ \/ Coming(r) /\ r.pc \in {"tenant", "auth", "shop", "route"} /\ (r.pc = "tenant" => r.scope = "")
           \/ Admitted(r) /\ r.pc = "handle" /\ (r.op.need # "" => Can(r.seen, r.who, r.scope, r.op.need))
    BY <1>3 DEF RequestSound
  <2>4. CASE Coming(r) /\ r.pc \in {"tenant", "auth", "shop", "route"} /\ (r.pc = "tenant" => r.scope = "")
    <3>1. n = [pc |-> r.pc, who |-> r.who, group |-> r.group, storefront |-> r.storefront,
               header |-> r.header, scope |-> r.scope, seen |-> seen]
      <4>1. n = [r EXCEPT !.seen = seen]
        BY <1>3, <2>1
      <4> QED BY <2>4, <4>1 DEF Coming
    <3>2. /\ n.pc = r.pc /\ n.who = r.who /\ n.seen = seen /\ n.scope = r.scope /\ n.storefront = r.storefront
          /\ Coming(n)
      BY <3>1 DEF Coming
    <3>3. ScopeHeld(n)
      BY <2>2, <2>3, <3>2 DEF ScopeHeld
    <3> QED BY <2>2, <2>3, <2>4, <3>2, <3>3 DEF RequestSound
  <2>5. CASE Admitted(r) /\ r.pc = "handle" /\ (r.op.need # "" => Can(r.seen, r.who, r.scope, r.op.need))
    <3>1. n = [pc |-> r.pc, op |-> r.op, who |-> r.who, scope |-> r.scope,
               storefront |-> r.storefront, seen |-> seen]
      <4>1. n = [r EXCEPT !.seen = seen]
        BY <1>3, <2>1
      <4> QED BY <2>5, <4>1 DEF Admitted
    <3>2. /\ n.pc = r.pc /\ n.who = r.who /\ n.seen = seen /\ n.scope = r.scope /\ n.storefront = r.storefront
          /\ n.op = r.op /\ Admitted(n)
      BY <3>1 DEF Admitted
    <3>3. ScopeHeld(n)
      BY <2>2, <2>3, <3>2 DEF ScopeHeld
    <3> QED BY <2>2, <2>3, <2>5, <3>2, <3>3 DEF RequestSound
  <2> QED BY <2>3, <2>4, <2>5
<1>4. ASSUME NEW g \in GateWorkers
      PROVE  httpRequest'[g] = NoRequest \/ RequestSound(httpRequest'[g], roles)
  BY <1>2, <1>3 DEF GateInv
<1>5. RequestsInBounds'
  BY <1>2 DEF GateInv, RequestsInBounds
<1>6. DOMAIN httpRequest' = GateWorkers
  BY <1>2
<1> QED BY <1>1, <1>4, <1>5, <1>6 DEF GateInv

\* rbac.go: what a handler does is within what its caller held at some moment of the
\* request, whatever roles are granted and revoked while it is under way.
THEOREM RequestsKeepBounds ==
  ASSUME GateShops \cap {"", "*"} = {}
  PROVE  GateSpec => []RequestsInBounds
<1>1. GateInit => GateInv
  BY GateStarts
<1>2. GateInv /\ [GateNext]_gateVars => GateInv'
  <2> SUFFICES ASSUME GateInv, [GateNext]_gateVars PROVE GateInv'
    OBVIOUS
  <2>1. ASSUME NEW g \in GateWorkers, NEW who, NEW group, NEW storefront \in GateShops \cup {""},
               NEW header, Receive(g, who, group, storefront, header)
        PROVE  GateInv'
    BY <2>1, GateReceives
  <2>2. ASSUME NEW g \in GateWorkers, TenantResolver(g) PROVE GateInv'
    BY <2>2, GateResolvesTenant
  <2>3. ASSUME NEW g \in GateWorkers, Auth(g) PROVE GateInv'
    BY <2>3, GateAuthenticates
  <2>4. ASSUME NEW g \in GateWorkers, ShopResolver(g) PROVE GateInv'
    BY <2>4, GateResolvesShop
  <2>5. ASSUME NEW g \in GateWorkers, NEW op, RequirePermission(g, op) PROVE GateInv'
    BY <2>5, GateAdmits
  <2>6. ASSUME NEW g \in GateWorkers, NEW target, Handle(g, target) PROVE GateInv'
    BY <2>6, GateHandles
  <2>7. ASSUME NEW g \in GateWorkers, WriteError(g) PROVE GateInv'
    BY <2>7, RequestGoesOn DEF WriteError, Reply, Move, Keep
  <2>8. ASSUME NEW b, ChangeBinding(b) PROVE GateInv'
    BY <2>8, GateRolesChange
  <2>9. CASE UNCHANGED gateVars
    BY <2>9 DEF gateVars, GateInv, RequestsInBounds
  <2> QED BY <2>1, <2>2, <2>3, <2>4, <2>5, <2>6, <2>7, <2>8, <2>9 DEF GateNext
<1>3. GateInv => RequestsInBounds
  BY DEF GateInv
<1> QED BY <1>1, <1>2, <1>3, PTL DEF GateSpec
=============================================================================
