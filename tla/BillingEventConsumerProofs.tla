---------------------- MODULE BillingEventConsumerProofs ----------------------
(***************************************************************************)
(* Proofs about BillingEventConsumer and OutboxUpkeep, the two ends of an  *)
(* event's way through the outbox, for every value of their constants: any *)
(* number of events, entities, subjects, pods and quarters, and any budget *)
(* of faults.                                                              *)
(***************************************************************************)
EXTENDS BillingEventConsumer, OutboxUpkeep, FiniteSetTheorems, WellFoundedInduction, TLAPS

-----------------------------------------------------------------------------
(* Type correctness.  It needs one more fact: a goroutine inside             *)
(* handleMessage has an event.                                               *)

BusyHasEvent == \A t \in Threads : pc[t] # "idle" => cur[t] \in Events
TypeInv == TypeOK /\ BusyHasEvent

\* A fault is charged to the budget and keeps the types of what it touches.
LEMMA FaultType ==
    ASSUME NEW k \in Kinds, NEW S, S \subseteq Events, Fault(k, S),
           upset \in SUBSET Events, budget \in [Kinds -> Nat]
    PROVE  upset' \in SUBSET Events /\ budget' \in [Kinds -> Nat]
  BY DEF Fault

\* Every step of the consumer and of its environment keeps the types.
LEMMA TypeStep == TypeInv /\ [Next]_vars => TypeInv'
<1> SUFFICES ASSUME TypeInv, [Next]_vars PROVE TypeInv'
  OBVIOUS
<1> USE DEF TypeInv, TypeOK, BusyHasEvent, PCs
<1> USE DEF msgVars, dbVars, threadVars, history
<1>1. ASSUME NEW t \in Threads, NEW e \in Events, Deliver(t, e) PROVE TypeInv'
  BY <1>1 DEF Deliver
<1>2. ASSUME NEW t \in Threads, TryAcquire(t) PROVE TypeInv'
  BY <1>2 DEF TryAcquire, Goto
<1>3. ASSUME NEW t \in Threads, SkipDuplicate(t) PROVE TypeInv'
  BY <1>3 DEF SkipDuplicate, Ack, Finish
<1>4. ASSUME NEW t \in Threads, FailOpen(t) PROVE TypeInv'
  <2>1. upset' \in SUBSET Events /\ budget' \in [Kinds -> Nat]
    BY <1>4, FaultType DEF FailOpen, Kinds
  <2> QED
    BY <1>4, <2>1 DEF FailOpen, Goto
<1>5. ASSUME NEW t \in Threads, LockEntity(t) PROVE TypeInv'
  BY <1>5 DEF LockEntity, Goto
<1>6. ASSUME NEW t \in Threads, ProcessOk(t) PROVE TypeInv'
  BY <1>6 DEF ProcessOk, Goto
<1>7. ASSUME NEW t \in Threads, ProcessError(t) PROVE TypeInv'
  BY <1>7 DEF ProcessError, Goto
<1>8. ASSUME NEW t \in Threads, Release(t) PROVE TypeInv'
  BY <1>8 DEF Release, Goto
<1>9. ASSUME NEW t \in Threads, ReleaseError(t) PROVE TypeInv'
  <2>1. upset' \in SUBSET Events /\ budget' \in [Kinds -> Nat]
    BY <1>9, FaultType DEF ReleaseError, NoFault, Kinds
  <2> QED
    BY <1>9, <2>1 DEF ReleaseError, Goto
<1>10. ASSUME NEW t \in Threads, IncrementRetry(t) PROVE TypeInv'
  BY <1>10 DEF IncrementRetry, Goto
<1>11. ASSUME NEW t \in Threads, IncrementRetryError(t) PROVE TypeInv'
  <2>1. upset' \in SUBSET Events /\ budget' \in [Kinds -> Nat]
    BY <1>11, FaultType DEF IncrementRetryError, NoFault, Kinds
  <2> QED
    BY <1>11, <2>1 DEF IncrementRetryError, Nack, Finish
<1>12. ASSUME NEW t \in Threads, BackoffNack(t) PROVE TypeInv'
  BY <1>12 DEF BackoffNack, Nack, Finish
<1>13. ASSUME NEW t \in Threads, SendToDLQ(t) PROVE TypeInv'
  BY <1>13 DEF SendToDLQ, Goto
<1>14. ASSUME NEW t \in Threads, SendToDLQError(t) PROVE TypeInv'
  <2>1. upset' \in SUBSET Events /\ budget' \in [Kinds -> Nat]
    BY <1>14, FaultType DEF SendToDLQError, Kinds
  <2> QED
    BY <1>14, <2>1 DEF SendToDLQError, Goto
<1>15. ASSUME NEW t \in Threads, AckMessage(t) PROVE TypeInv'
  BY <1>15 DEF AckMessage, Ack, Finish
<1>16. ASSUME NEW t \in Threads, Timeout(t) PROVE TypeInv'
  <2>1. upset' \in SUBSET Events /\ budget' \in [Kinds -> Nat]
    BY <1>16, FaultType DEF Timeout, Kinds
  <2> QED
    BY <1>16, <2>1 DEF Timeout
<1>17. ASSUME NEW p \in Pods, Crash(p) PROVE TypeInv'
  <2>1. upset' \in SUBSET Events /\ budget' \in [Kinds -> Nat]
    BY <1>17, FaultType DEF Crash, Kinds
  <2> QED
    BY <1>17, <2>1 DEF Crash
<1>18. ASSUME NEW e \in Events, AckWait(e) PROVE TypeInv'
  <2>1. upset' \in SUBSET Events /\ budget' \in [Kinds -> Nat]
    BY <1>18, FaultType DEF AckWait, NoFault, Kinds
  <2> QED
    BY <1>18, <2>1 DEF AckWait
<1>19. ASSUME NEW e \in Events, WindowExpire(e) PROVE TypeInv'
  BY <1>19 DEF WindowExpire
<1>20. ASSUME NEW e \in Events, RelayDuplicate(e) PROVE TypeInv'
  <2>1. upset' \in SUBSET Events /\ budget' \in [Kinds -> Nat]
    BY <1>20, FaultType DEF RelayDuplicate, Kinds
  <2> QED
    BY <1>20, <2>1 DEF RelayDuplicate
<1>21. ASSUME NEW e \in Events, Replay(e) PROVE TypeInv'
  <2>1. upset' \in SUBSET Events /\ budget' \in [Kinds -> Nat]
    BY <1>21, FaultType DEF Replay, Kinds
  <2> QED
    BY <1>21, <2>1 DEF Replay
<1>22. ASSUME NEW e \in Events, ReplayDryRun(e) PROVE TypeInv'
  <2>1. upset' \in SUBSET Events /\ budget' \in [Kinds -> Nat]
    BY <1>22, FaultType DEF ReplayDryRun, Kinds
  <2> QED
    BY <1>22, <2>1 DEF ReplayDryRun
<1>23. CASE UNCHANGED vars
  BY <1>23 DEF vars
<1> QED
  BY <1>1, <1>2, <1>3, <1>4, <1>5, <1>6, <1>7, <1>8, <1>9, <1>10, <1>11, <1>12,
     <1>13, <1>14, <1>15, <1>16, <1>17, <1>18, <1>19, <1>20, <1>21, <1>22, <1>23
     DEF Next, ThreadStep

\* The consumer starts with the right types.
LEMMA TypeInit == Init => TypeInv
<1> SUFFICES ASSUME Init PROVE TypeInv
  OBVIOUS
<1>1. budget \in [Kinds -> Nat]
  BY ConsumerAssumption DEF Init, Kinds
<1> QED
  BY <1>1, ConsumerAssumption DEF Init, TypeInv, TypeOK, BusyHasEvent, PCs

\* Every variable keeps its type, through all of handleMessage, its error
\* branches, crashes, redeliveries and replays.
THEOREM ConsumerTypeCorrect == Spec => []TypeOK
<1>1. TypeInv => TypeOK
  BY DEF TypeInv
<1> QED
  BY TypeInit, TypeStep, <1>1, PTL DEF Spec

-----------------------------------------------------------------------------
(* The idempotency key.  Between TryAcquire and Release, or the end of the   *)
(* handler, a goroutine claims its event; the key in the database stands for *)
(* the claim, and after a success for good.  Events for which the check      *)
(* failed open are outside the protocol.                                     *)

Claims(t, e) == cur[t] = e /\ pc[t] \in {"lock", "process", "release"}

OneClaim(e) == \A t, u \in Threads : Claims(t, e) /\ Claims(u, e) => t = u
ClaimHasKey(e) == \A t \in Threads : Claims(t, e) => e \in keys /\ applied[e] = 0
SuccessHasKey(e) == applied[e] = 0 \/ (applied[e] = 1 /\ e \in keys)

KeyInv == \A e \in Events \ failOpen : OneClaim(e) /\ ClaimHasKey(e) /\ SuccessHasKey(e)

\* A step that takes no key, gives none back and runs no handler keeps the
\* protocol when it makes no goroutine claim an event.
LEMMA KeyFrame ==
    ASSUME KeyInv, keys' = keys, applied' = applied, failOpen \subseteq failOpen',
           \A t \in Threads, e \in Events \ failOpen' : Claims(t, e)' => Claims(t, e)
    PROVE  KeyInv'
  BY DEF KeyInv, OneClaim, ClaimHasKey, SuccessHasKey

\* Every step keeps the protocol.
LEMMA KeyStep == TypeInv /\ KeyInv /\ [Next]_vars => KeyInv'
<1> SUFFICES ASSUME TypeInv, KeyInv, [Next]_vars PROVE KeyInv'
  OBVIOUS
<1> USE DEF TypeInv, TypeOK, BusyHasEvent
<1> USE DEF msgVars, dbVars, threadVars, history
<1>1. ASSUME NEW t \in Threads, NEW e \in Events, Deliver(t, e) PROVE KeyInv'
  BY <1>1, KeyFrame DEF Deliver, Claims
<1>2. ASSUME NEW t \in Threads, TryAcquire(t) PROVE KeyInv'
  <2>1. SUFFICES ASSUME NEW e \in Events \ failOpen
                 PROVE  (OneClaim(e) /\ ClaimHasKey(e) /\ SuccessHasKey(e))'
    BY <1>2 DEF TryAcquire, KeyInv
  <2>2. OneClaim(e) /\ ClaimHasKey(e) /\ SuccessHasKey(e)
    BY DEF KeyInv
  <2>3. CASE e = cur[t]
    <3>1. \A u \in Threads : ~Claims(u, e)
      BY <1>2, <2>2, <2>3 DEF TryAcquire, ClaimHasKey
    <3> QED
      BY <1>2, <2>2, <2>3, <3>1
         DEF TryAcquire, Goto, Claims, OneClaim, ClaimHasKey, SuccessHasKey
  <2>4. CASE e # cur[t]
    BY <1>2, <2>2, <2>4
       DEF TryAcquire, Goto, Claims, OneClaim, ClaimHasKey, SuccessHasKey
  <2> QED
    BY <2>3, <2>4
<1>3. ASSUME NEW t \in Threads, SkipDuplicate(t) PROVE KeyInv'
  BY <1>3, KeyFrame DEF SkipDuplicate, Finish, Claims
<1>4. ASSUME NEW t \in Threads, FailOpen(t) PROVE KeyInv'
  BY <1>4, KeyFrame DEF FailOpen, Goto, Claims
<1>5. ASSUME NEW t \in Threads, LockEntity(t) PROVE KeyInv'
  BY <1>5, KeyFrame DEF LockEntity, Goto, Claims
<1>6. ASSUME NEW t \in Threads, ProcessOk(t) PROVE KeyInv'
  <2>1. SUFFICES ASSUME NEW e \in Events \ failOpen
                 PROVE  (OneClaim(e) /\ ClaimHasKey(e) /\ SuccessHasKey(e))'
    BY <1>6 DEF ProcessOk, KeyInv
  <2>2. OneClaim(e) /\ ClaimHasKey(e) /\ SuccessHasKey(e)
    BY DEF KeyInv
  <2>3. CASE e = cur[t]
    <3>1. \A u \in Threads : ~Claims(u, e)'
      BY <1>6, <2>2, <2>3 DEF ProcessOk, Goto, Claims, OneClaim
    <3>2. e \in keys /\ applied[e] = 0
      BY <1>6, <2>2, <2>3 DEF ProcessOk, Claims, ClaimHasKey
    <3>3. keys' = keys /\ applied'[e] = 1
      BY <1>6, <2>3, <3>2 DEF ProcessOk
    <3> QED
      BY <3>1, <3>2, <3>3 DEF OneClaim, ClaimHasKey, SuccessHasKey
  <2>4. CASE e # cur[t]
    BY <1>6, <2>2, <2>4
       DEF ProcessOk, Goto, Claims, OneClaim, ClaimHasKey, SuccessHasKey
  <2> QED
    BY <2>3, <2>4
<1>7. ASSUME NEW t \in Threads, ProcessError(t) PROVE KeyInv'
  BY <1>7, KeyFrame DEF ProcessError, Goto, Claims
<1>8. ASSUME NEW t \in Threads, Release(t) PROVE KeyInv'
  <2>1. SUFFICES ASSUME NEW e \in Events \ failOpen
                 PROVE  (OneClaim(e) /\ ClaimHasKey(e) /\ SuccessHasKey(e))'
    BY <1>8 DEF Release, KeyInv
  <2>2. OneClaim(e) /\ ClaimHasKey(e) /\ SuccessHasKey(e)
    BY DEF KeyInv
  <2>3. CASE e = cur[t]
    <3>1. \A u \in Threads : ~Claims(u, e)'
      BY <1>8, <2>2, <2>3 DEF Release, Goto, Claims, OneClaim
    <3>2. applied'[e] = 0
      BY <1>8, <2>2, <2>3 DEF Release, Claims, ClaimHasKey
    <3> QED
      BY <3>1, <3>2 DEF OneClaim, ClaimHasKey, SuccessHasKey
  <2>4. CASE e # cur[t]
    BY <1>8, <2>2, <2>4
       DEF Release, Goto, Claims, OneClaim, ClaimHasKey, SuccessHasKey
  <2> QED
    BY <2>3, <2>4
<1>9. ASSUME NEW t \in Threads, ReleaseError(t) PROVE KeyInv'
  BY <1>9, KeyFrame DEF ReleaseError, Goto, Claims
<1>10. ASSUME NEW t \in Threads, IncrementRetry(t) PROVE KeyInv'
  BY <1>10, KeyFrame DEF IncrementRetry, Goto, Claims
<1>11. ASSUME NEW t \in Threads, IncrementRetryError(t) PROVE KeyInv'
  BY <1>11, KeyFrame DEF IncrementRetryError, Finish, Claims
<1>12. ASSUME NEW t \in Threads, BackoffNack(t) PROVE KeyInv'
  BY <1>12, KeyFrame DEF BackoffNack, Finish, Claims
<1>13. ASSUME NEW t \in Threads, SendToDLQ(t) PROVE KeyInv'
  BY <1>13, KeyFrame DEF SendToDLQ, Goto, Claims
<1>14. ASSUME NEW t \in Threads, SendToDLQError(t) PROVE KeyInv'
  BY <1>14, KeyFrame DEF SendToDLQError, Goto, Claims
<1>15. ASSUME NEW t \in Threads, AckMessage(t) PROVE KeyInv'
  BY <1>15, KeyFrame DEF AckMessage, Finish, Claims
<1>16. ASSUME NEW t \in Threads, Timeout(t) PROVE KeyInv'
  BY <1>16, KeyFrame DEF Timeout, Claims
<1>17. ASSUME NEW p \in Pods, Crash(p) PROVE KeyInv'
  BY <1>17, KeyFrame DEF Crash, Claims
<1>18. ASSUME NEW e \in Events,
              \/ AckWait(e) \/ WindowExpire(e) \/ RelayDuplicate(e)
              \/ Replay(e) \/ ReplayDryRun(e)
       PROVE  KeyInv'
  <2>1. UNCHANGED <<keys, applied, failOpen, pc, cur>>
    BY <1>18 DEF AckWait, WindowExpire, RelayDuplicate, Replay, ReplayDryRun
  <2> QED
    BY <2>1, KeyFrame DEF Claims
<1>19. CASE UNCHANGED vars
  BY <1>19, KeyFrame DEF vars, Claims
<1> QED
  BY <1>1, <1>2, <1>3, <1>4, <1>5, <1>6, <1>7, <1>8, <1>9, <1>10, <1>11, <1>12,
     <1>13, <1>14, <1>15, <1>16, <1>17, <1>18, <1>19
     DEF Next, ThreadStep

\* No goroutine has claimed or run anything at the start.
LEMMA KeyInit == Init => KeyInv
  BY DEF Init, KeyInv, OneClaim, ClaimHasKey, SuccessHasKey, Claims

\* The key protocol holds in every reachable state.
THEOREM KeyInvariant == Spec => [](TypeInv /\ KeyInv)
<1>1. TypeInv /\ KeyInv /\ [Next]_vars => (TypeInv /\ KeyInv)'
  BY TypeStep, KeyStep
<1> QED
  BY TypeInit, KeyInit, <1>1, PTL DEF Spec

\* TryAcquire makes redelivery, relay duplicates, replays and the other pods
\* harmless: a handler succeeds at most once per event unless the check failed
\* open.
THEOREM AtMostOnce == Spec => []AppliedAtMostOnce
<1>1. TypeInv /\ KeyInv => AppliedAtMostOnce
  BY DEF TypeInv, TypeOK, KeyInv, SuccessHasKey, AppliedAtMostOnce
<1> QED
  BY KeyInvariant, <1>1, PTL

\* Two goroutines, of one pod or of two, are never both between TryAcquire and the
\* end of the handler of one event unless the check failed open.
THEOREM ExclusiveHandlers == Spec => []OneHandlerPerEvent
<1>1. TypeInv /\ KeyInv => OneHandlerPerEvent
  BY DEF TypeInv, BusyHasEvent, KeyInv, OneClaim, Claims, OneHandlerPerEvent
<1> QED
  BY KeyInvariant, <1>1, PTL

-----------------------------------------------------------------------------
(* Events that met no fault.  One delivery of such an event is out while a   *)
(* goroutine works on it, and only that one; its key means that the handler  *)
(* succeeded or is still to end, since Release gave every other key back;    *)
(* and it is acked only after the success or the dead letter.                *)

IdleHasNoEvent == \A t \in Threads : pc[t] = "idle" => cur[t] = NoEvent /\ ~expired[t]

Safe(e) == applied[e] > 0 \/ e \in dlq

OneDelivery(e) ==
    \A t \in Threads : cur[t] = e =>
        /\ msg[e] = "out"
        /\ ~expired[t]
        /\ \A u \in Threads : cur[u] = e => u = t
KeyIsUsed(e) == e \in keys => applied[e] > 0 \/ \E t \in Threads : Claims(t, e)
AckIsSafe(e) ==
    /\ msg[e] = "acked" => Safe(e)
    /\ \A t \in Threads : cur[t] = e /\ pc[t] = "ack" => Safe(e)

Kept(e) == OneDelivery(e) /\ KeyIsUsed(e) /\ AckIsSafe(e)
KeptInv == IdleHasNoEvent /\ \A e \in Events \ upset : Kept(e)

\* A step that does not touch an event, its message, its key or the goroutine that
\* works on it keeps what is known of it.
LEMMA KeptFrame ==
    ASSUME NEW e, Kept(e),
           msg'[e] = msg[e], e \in dlq' <=> e \in dlq,
           e \in keys' <=> e \in keys, applied'[e] = applied[e],
           \A t \in Threads : /\ cur'[t] = e <=> cur[t] = e
                              /\ cur[t] = e => pc'[t] = pc[t] /\ expired'[t] = expired[t]
    PROVE  Kept(e)'
  BY DEF Kept, OneDelivery, KeyIsUsed, AckIsSafe, Safe, Claims

\* A fault, once met, is never forgotten.
LEMMA UpsetGrows == [Next]_vars => upset \subseteq upset'
  BY DEF Next, vars, history, ThreadStep, Timeout, Fault, NoFault, Deliver, TryAcquire,
         SkipDuplicate, FailOpen, LockEntity, ProcessOk, ProcessError, Release, ReleaseError,
         IncrementRetry, IncrementRetryError, BackoffNack, SendToDLQ, SendToDLQError,
         AckMessage, Crash, AckWait, WindowExpire, RelayDuplicate, Replay, ReplayDryRun

\* A goroutine inside handleMessage leaves the other goroutines alone, touches the
\* state of its own event only, and ends without an event.
LEMMA OwnEventOnly ==
    ASSUME TypeInv, NEW t \in Threads, ThreadStep(t) \/ Timeout(t), pc[t] # "idle"
    PROVE  /\ \A u \in Threads \ {t} : UNCHANGED <<cur[u], pc[u], expired[u]>>
           /\ cur'[t] = cur[t] \/ cur'[t] = NoEvent
           /\ pc'[t] = "idle" => cur'[t] = NoEvent /\ ~expired'[t]
           /\ \A e \in Events \ {cur[t]} : /\ msg'[e] = msg[e]
                                           /\ applied'[e] = applied[e]
                                           /\ e \in dlq' <=> e \in dlq
                                           /\ e \in keys' <=> e \in keys
<1> USE DEF TypeInv, TypeOK, BusyHasEvent, Goto, Finish, Ack, Nack
<1> USE DEF msgVars, dbVars, threadVars, history
<1>1. CASE \/ TryAcquire(t) \/ SkipDuplicate(t) \/ FailOpen(t) \/ LockEntity(t)
           \/ ProcessOk(t) \/ ProcessError(t) \/ Release(t) \/ ReleaseError(t)
  BY <1>1 DEF TryAcquire, SkipDuplicate, FailOpen, LockEntity, ProcessOk, ProcessError,
              Release, ReleaseError
<1>2. CASE \/ IncrementRetry(t) \/ IncrementRetryError(t) \/ BackoffNack(t)
           \/ SendToDLQ(t) \/ SendToDLQError(t) \/ AckMessage(t) \/ Timeout(t)
  BY <1>2 DEF IncrementRetry, IncrementRetryError, BackoffNack, SendToDLQ, SendToDLQError,
              AckMessage, Timeout
<1> QED
  BY <1>1, <1>2 DEF ThreadStep, Deliver

\* What one goroutine does to the event it works on.
LEMMA KeptByOwner ==
    ASSUME NEW t \in Threads, NEW e \in Events \ upset', TypeInv, KeptInv,
           ThreadStep(t) \/ Timeout(t), pc[t] # "idle", cur[t] = e
    PROVE  Kept(e)'
<1> USE DEF TypeInv, TypeOK, BusyHasEvent
<1> USE DEF msgVars, dbVars, threadVars, history
<1>1. e \in Events /\ e \notin upset
  BY UpsetGrows DEF Next
<1>2. /\ Kept(e) /\ msg[e] = "out" /\ ~expired[t]
      /\ \A u \in Threads : cur[u] = e => u = t
  BY <1>1 DEF KeptInv, Kept, OneDelivery
<1> USE DEF Kept, OneDelivery, KeyIsUsed, AckIsSafe, Safe, Claims
<1>3. CASE TryAcquire(t)
  BY <1>1, <1>2, <1>3 DEF TryAcquire, Goto
<1>4. CASE SkipDuplicate(t)
  <2>1. applied[e] > 0
    BY <1>1, <1>2, <1>4 DEF SkipDuplicate
  <2> QED
    BY <1>1, <1>2, <1>4, <2>1, ConsumerAssumption DEF SkipDuplicate, Ack, Finish
<1>5. CASE LockEntity(t) \/ ProcessError(t)
  BY <1>1, <1>2, <1>5 DEF LockEntity, ProcessError, Goto
<1>6. CASE ProcessOk(t)
  <2>1. applied'[e] > 0
    BY <1>1, <1>6 DEF ProcessOk
  <2> QED
    BY <1>1, <1>2, <1>6, <2>1 DEF ProcessOk, Goto
<1>7. CASE Release(t)
  BY <1>1, <1>2, <1>7 DEF Release, Goto
<1>8. CASE IncrementRetry(t)
  BY <1>1, <1>2, <1>8 DEF IncrementRetry, Goto
<1>9. CASE BackoffNack(t)
  BY <1>1, <1>2, <1>9, ConsumerAssumption DEF BackoffNack, Nack, Finish
<1>10. CASE SendToDLQ(t)
  BY <1>1, <1>2, <1>10 DEF SendToDLQ, Goto
<1>11. CASE AckMessage(t)
  BY <1>1, <1>2, <1>11, ConsumerAssumption DEF AckMessage, Ack, Finish
<1>12. CASE \/ FailOpen(t) \/ ReleaseError(t) \/ IncrementRetryError(t)
            \/ SendToDLQError(t) \/ Timeout(t)
  <2>1. e \in upset'
    BY <1>2, <1>12 DEF FailOpen, ReleaseError, IncrementRetryError, SendToDLQError,
                       Timeout, Fault
  <2> QED
    BY <2>1
<1> QED
  BY <1>3, <1>4, <1>5, <1>6, <1>7, <1>8, <1>9, <1>10, <1>11, <1>12
     DEF ThreadStep, Deliver

\* Every step keeps it.
LEMMA KeptStep == TypeInv /\ KeptInv /\ [Next]_vars => KeptInv'
<1> SUFFICES ASSUME TypeInv, KeptInv, [Next]_vars PROVE KeptInv'
  OBVIOUS
<1> USE DEF TypeInv, TypeOK, BusyHasEvent
<1> USE DEF msgVars, dbVars, threadVars, history
<1>1. upset \subseteq upset'
  BY UpsetGrows
<1>2. \A e \in Events \ upset' : e \notin upset /\ Kept(e)
  BY <1>1 DEF KeptInv
<1>3. ASSUME NEW t \in Threads, NEW d \in Events, Deliver(t, d)
      PROVE  KeptInv'
  <2>1. IdleHasNoEvent'
    BY <1>3 DEF Deliver, KeptInv, IdleHasNoEvent
  <2>2. ASSUME NEW e \in Events \ upset', e # d PROVE Kept(e)'
    BY <1>2, <1>3, <2>2, KeptFrame, ConsumerAssumption DEF Deliver, KeptInv, IdleHasNoEvent
  <2>3. ASSUME d \notin upset' PROVE Kept(d)'
    <3>1. /\ Kept(d) /\ msg[d] = "queued"
          /\ \A u \in Threads : cur[u] # d
      BY <1>2, <1>3, <2>3 DEF Deliver, Kept, OneDelivery
    <3>2. /\ msg'[d] = "out"
          /\ \A u \in Threads : cur'[u] = d => u = t
          /\ ~expired'[t] /\ pc'[t] # "ack"
      BY <1>3, <3>1 DEF Deliver, KeptInv, IdleHasNoEvent
    <3>3. d \in keys => applied[d] > 0
      BY <3>1 DEF Kept, KeyIsUsed, Claims
    <3> QED
      BY <1>3, <3>1, <3>2, <3>3
         DEF Deliver, Kept, OneDelivery, KeyIsUsed, AckIsSafe, Safe
  <2> QED
    BY <2>1, <2>2, <2>3 DEF KeptInv
<1>4. ASSUME NEW t \in Threads, ThreadStep(t) \/ Timeout(t), pc[t] # "idle"
      PROVE  KeptInv'
  <2>1. IdleHasNoEvent'
    BY <1>4, OwnEventOnly DEF KeptInv, IdleHasNoEvent
  <2>2. ASSUME NEW e \in Events \ upset', e # cur[t] PROVE Kept(e)'
    BY <1>2, <1>4, <2>2, OwnEventOnly, KeptFrame, ConsumerAssumption
  <2>3. \A e \in Events \ upset' : e = cur[t] => Kept(e)'
    BY <1>4, KeptByOwner
  <2> QED
    BY <2>1, <2>2, <2>3 DEF KeptInv
<1>5. ASSUME NEW p \in Pods, Crash(p)
      PROVE  KeptInv'
  <2>1. IdleHasNoEvent'
    BY <1>5 DEF Crash, KeptInv, IdleHasNoEvent
  <2>2. ASSUME NEW e \in Events \ upset' PROVE Kept(e)'
    <3>1. \A u \in Threads : cur[u] = e => u[1] # p
      BY <1>5, <2>2, ConsumerAssumption DEF Crash, Fault
    <3> QED
      BY <1>2, <1>5, <2>2, <3>1, KeptFrame, ConsumerAssumption DEF Crash
  <2> QED
    BY <2>1, <2>2 DEF KeptInv
<1>6. ASSUME NEW d \in Events,
             \/ AckWait(d) \/ WindowExpire(d) \/ RelayDuplicate(d)
             \/ Replay(d) \/ ReplayDryRun(d)
      PROVE  KeptInv'
  <2>1. UNCHANGED <<keys, applied, pc, cur, expired>>
    BY <1>6 DEF AckWait, WindowExpire, RelayDuplicate, Replay, ReplayDryRun
  <2>2. IdleHasNoEvent'
    BY <2>1 DEF KeptInv, IdleHasNoEvent
  <2>3. ASSUME NEW e \in Events \ upset', e # d PROVE Kept(e)'
    <3>1. msg'[e] = msg[e] /\ (e \in dlq' <=> e \in dlq)
      BY <1>6, <2>3 DEF AckWait, WindowExpire, RelayDuplicate, Replay, ReplayDryRun
    <3> QED
      BY <1>2, <2>1, <2>3, <3>1, KeptFrame
  <2>4. ASSUME d \notin upset' PROVE Kept(d)'
    <3>1. Kept(d)
      BY <1>2, <2>4
    <3>2. CASE WindowExpire(d)
      BY <2>1, <3>1, <3>2, KeptFrame DEF WindowExpire
    <3>3. CASE ReplayDryRun(d)
      BY <2>4, <3>3 DEF ReplayDryRun, Fault
    <3>4. CASE AckWait(d) \/ RelayDuplicate(d) \/ Replay(d)
      <4>1. msg'[d] = "queued"
        BY <2>4, <3>4 DEF AckWait, RelayDuplicate, Replay, Fault
      <4>2. \A u \in Threads : cur[u] # d
        BY <2>4, <3>1, <3>4 DEF AckWait, RelayDuplicate, Replay, Fault, On,
                                Kept, OneDelivery
      <4> QED
        BY <2>1, <3>1, <4>1, <4>2
           DEF Kept, OneDelivery, KeyIsUsed, AckIsSafe, Claims
    <3> QED
      BY <1>6, <3>2, <3>3, <3>4
  <2> QED
    BY <2>2, <2>3, <2>4 DEF KeptInv
<1>7. CASE UNCHANGED vars
  BY <1>2, <1>7, KeptFrame DEF vars, KeptInv, IdleHasNoEvent
<1>8. ASSUME NEW t \in Threads, ThreadStep(t) \/ Timeout(t), pc[t] = "idle"
      PROVE  \E d \in Events : Deliver(t, d)
  BY <1>8 DEF ThreadStep, Timeout, TryAcquire, SkipDuplicate,
         FailOpen, LockEntity, ProcessOk, ProcessError, Release, ReleaseError,
         IncrementRetry, IncrementRetryError, BackoffNack, SendToDLQ, SendToDLQError,
         AckMessage
<1> QED
  BY <1>3, <1>4, <1>5, <1>6, <1>7, <1>8 DEF Next

\* An event that met no infrastructure fault itself is applied or dead-lettered when
\* it is settled: no return value of a handler, no copy of a message and no fault of
\* another event loses it.
THEOREM UndisturbedEventsSurvive == Spec => []UndisturbedNotLost
<1>1. Init => KeptInv
  BY ConsumerAssumption
     DEF Init, KeptInv, IdleHasNoEvent, Kept, OneDelivery, KeyIsUsed, AckIsSafe
<1>2. TypeInv /\ KeptInv /\ [Next]_vars => (TypeInv /\ KeptInv)'
  BY TypeStep, KeptStep
<1>3. KeptInv => UndisturbedNotLost
  BY DEF KeptInv, Kept, AckIsSafe, Safe, Settled, UndisturbedNotLost
<1> QED
  BY TypeInit, <1>1, <1>2, <1>3, PTL DEF Spec

-----------------------------------------------------------------------------
\* OutboxUpkeep.  What a partition manager has found out stays true while the others work.
LEMMA MinimalNatural ==
    ASSUME NEW U, U \subseteq Nat, U # {}
    PROVE  \E x \in U : \A y \in U : ~(y < x)
<1> DEFINE R == {ss \in Nat \X Nat : ss[1] < ss[2]}
<1>1. IsWellFoundedOn(R, Nat)
  BY NatLessThanWellFounded DEF OpToRel
<1>2. IsWellFoundedOn(R, Nat)
  BY <1>1
<1> HIDE DEF R
<1>3. \E x \in U : \A y \in U : ~ (<<y, x>> \in R)
  BY <1>2, WFMin
<1> QED
  BY <1>3 DEF R

Passes == {"check", "create", "list", "published", "safety", "detach", "drop", "unlock"}
Managers == [pc : Passes \cup {"asleep", "lock"}, job : {"none", "ensure", "cleanup"},
             conn : {"none", "held", "broken"}, at : Nat, upto : Nat, todo : SUBSET Nat]
Oldest(todo) == CHOOSE q \in todo : \A r \in todo : q <= r

\* What a manager has found out stays true while the others work, events come and quarters
\* end: the quarters from now on that it went through have a partition, and what it is about
\* to detach has ended with nothing unpublished.
ManagerKept(c, now, there, pending) ==
  /\ c \in Managers
  /\ c.pc \in Passes <=> c.conn # "none"
  /\ c.pc \in {"check", "create"} => \A q \in Nat : now <= q /\ q < c.at => q \in there
  /\ c.pc = "list" => c.at <= now
  /\ \A q \in c.todo : q < now
  /\ c.pc \in {"safety", "detach", "drop"} => c.todo # {}
  /\ c.pc \in {"safety", "detach"} => Oldest(c.todo) \notin pending

\* No partition is there for a quarter whose events went to the default one.
PartitionsKept ==
  /\ quarter \in Nat /\ coveredTo \in Nat
  /\ attached \subseteq Nat /\ detached \subseteq Nat /\ pendingIn \subseteq Nat
  /\ attached \cap inDefault = {}
  /\ \A q \in Nat : quarter <= q /\ q < coveredTo => q \in attached
  /\ \A q \in detached : q < quarter /\ q \notin pendingIn
  /\ ~dropLost

\* The connection that holds the advisory lock is that of the pod whose pass is on.
LockKept ==
  /\ sessionLock \in UpkeepPods \cup {NoUpkeepPod}
  /\ \A p \in UpkeepPods : upkeep[p].conn = "held" <=> sessionLock = p

UpkeepInv ==
  /\ PartitionsKept /\ LockKept
  /\ DOMAIN upkeep = UpkeepPods
  /\ \A p \in UpkeepPods : ManagerKept(upkeep[p], quarter, attached, pendingIn)

LEMMA UpkeepStarts == ASSUME UpkeepInit PROVE UpkeepInv
<1>1. PartitionsKept
  BY UpkeepAssumption DEF UpkeepInit, PartitionsKept
<1>2. PICK a : a = ManagerAsleep
  OBVIOUS
<1>3. a \in Managers /\ a.pc = "asleep" /\ a.conn = "none" /\ a.todo = {}
  <2>1. a = [pc |-> "asleep", job |-> "none", conn |-> "none", at |-> 0, upto |-> 0, todo |-> {}]
    BY <1>2 DEF ManagerAsleep
  <2>2. a \in Managers
    <3>1. {} \in SUBSET Nat
      OBVIOUS
    <3>2. /\ a.pc = "asleep" /\ a.job = "none" /\ a.conn = "none"
          /\ a.at \in Nat /\ a.upto \in Nat
      BY <2>1
    <3>3. a.todo \in SUBSET Nat
      BY <2>1, <3>1
    <3>4. a = [pc |-> a.pc, job |-> a.job, conn |-> a.conn, at |-> a.at, upto |-> a.upto, todo |-> a.todo]
      BY <2>1
    <3> QED BY <3>2, <3>3, <3>4 DEF Managers, Passes
  <2> QED BY <2>1, <2>2
<1>4. ManagerKept(a, quarter, attached, pendingIn)
  BY <1>3 DEF ManagerKept, Passes
<1>5. DOMAIN upkeep = UpkeepPods /\ \A p \in UpkeepPods : upkeep[p] = a
  BY <1>2 DEF UpkeepInit
<1>6. LockKept
  BY <1>3, <1>5, UpkeepAssumption DEF UpkeepInit, LockKept
<1> QED BY <1>1, <1>4, <1>5, <1>6 DEF UpkeepInv

\* The oldest candidate is one of them.
LEMMA OldestIsOne ==
  ASSUME NEW T \in SUBSET Nat, T # {}
  PROVE  Oldest(T) \in T
<1>1. PICK q : q \in T /\ \A r \in T : ~(r < q)
  BY MinimalNatural
<1>2. \A r \in T : q <= r
  BY <1>1
<1> QED BY <1>1, <1>2 DEF Oldest

\* The others need no more than that the partitions from now on stay, and that no event of a
\* quarter that has ended comes.
LEMMA ManagerStays ==
  ASSUME NEW now \in Nat, NEW then \in Nat, now <= then, NEW there, NEW there2, NEW pending, NEW pending2,
         \A q \in Nat : then <= q /\ q \in there => q \in there2,
         \A q \in Nat : q < now /\ q \in pending2 => q \in pending,
         NEW c, ManagerKept(c, now, there, pending)
  PROVE  ManagerKept(c, then, there2, pending2)
<1>1. c \in Managers /\ c.at \in Nat /\ c.todo \in SUBSET Nat
  BY DEF ManagerKept, Managers
<1>2. c.pc \in {"safety", "detach"} => Oldest(c.todo) \notin pending2
  BY <1>1, OldestIsOne DEF ManagerKept
<1> QED BY <1>1, <1>2 DEF ManagerKept

\* A step of one manager.
LEMMA UpkeepGoesOn ==
  ASSUME UpkeepInv, PartitionsKept', LockKept', quarter' = quarter, pendingIn' \subseteq pendingIn,
         \A q \in Nat : quarter <= q /\ q \in attached => q \in attached',
         NEW p \in UpkeepPods, NEW n, ManagerKept(n, quarter, attached', pendingIn'),
         upkeep' = [upkeep EXCEPT ![p] = n]
  PROVE  UpkeepInv'
<1>1. quarter \in Nat
  BY DEF UpkeepInv, PartitionsKept
<1>2. DOMAIN upkeep' = UpkeepPods /\ upkeep'[p] = n /\ \A r \in UpkeepPods : r # p => upkeep'[r] = upkeep[r]
  BY DEF UpkeepInv
<1>3. ASSUME NEW r \in UpkeepPods PROVE ManagerKept(upkeep'[r], quarter', attached', pendingIn')
  <2>1. CASE r = p
    BY <2>1, <1>2
  <2>2. CASE r # p
    <3>1. PICK c : c = upkeep[r]
      OBVIOUS
    <3>2. ManagerKept(c, quarter, attached, pendingIn)
      BY <3>1 DEF UpkeepInv
    <3>3. ManagerKept(c, quarter, attached', pendingIn')
      BY <1>1, <3>2, ManagerStays
    <3> QED BY <1>2, <2>2, <3>1, <3>3
  <2> QED BY <2>1, <2>2
<1> QED BY <1>2, <1>3 DEF UpkeepInv

\* A step of one manager that keeps its connection and leaves the tables alone.
LEMMA ManagerGoesOn ==
  ASSUME UpkeepInv, UNCHANGED <<quarter, attached, detached, inDefault, pendingIn, coveredTo, dropLost, sessionLock>>,
         NEW p \in UpkeepPods, NEW n, ManagerKept(n, quarter, attached, pendingIn), n.conn = upkeep[p].conn,
         upkeep' = [upkeep EXCEPT ![p] = n]
  PROVE  UpkeepInv'
<1>1. PartitionsKept'
  BY DEF UpkeepInv, PartitionsKept
<1>2. LockKept'
  BY DEF UpkeepInv, LockKept
<1> QED BY <1>1, <1>2, UpkeepGoesOn

\* A step of one manager that takes, keeps or gives up the lock.
LEMMA LockGoesOn ==
  ASSUME UpkeepInv, UNCHANGED <<quarter, attached, detached, inDefault, pendingIn, coveredTo, dropLost>>,
         NEW p \in UpkeepPods, NEW n, ManagerKept(n, quarter, attached, pendingIn),
         \/ n.conn = "held" /\ sessionLock \in {p, NoUpkeepPod} /\ sessionLock' = p
         \/ n.conn # "held" /\ sessionLock' = IF sessionLock = p THEN NoUpkeepPod ELSE sessionLock,
         upkeep' = [upkeep EXCEPT ![p] = n]
  PROVE  UpkeepInv'
<1>1. PartitionsKept'
  BY DEF UpkeepInv, PartitionsKept
<1>2. DOMAIN upkeep' = UpkeepPods /\ upkeep'[p] = n /\ \A r \in UpkeepPods : r # p => upkeep'[r] = upkeep[r]
  BY DEF UpkeepInv
<1>3. LockKept'
  BY <1>2, UpkeepAssumption DEF UpkeepInv, LockKept
<1> QED BY <1>1, <1>3, UpkeepGoesOn

LEMMA SleeperKept ==
  ASSUME NEW now, NEW there, NEW pending, NEW n, n \in Managers, n.pc \in {"asleep", "lock"},
         n.conn = "none", n.todo = {}
  PROVE  ManagerKept(n, now, there, pending)
BY DEF ManagerKept, Passes

\* What a manager is before a pass.
LEMMA SleeperIs ==
  /\ ManagerAsleep \in Managers /\ ManagerAsleep.pc = "asleep" /\ ManagerAsleep.job = "none"
  /\ ManagerAsleep.conn = "none" /\ ManagerAsleep.at = 0 /\ ManagerAsleep.upto = 0 /\ ManagerAsleep.todo = {}
<1> DEFINE a == ManagerAsleep
<1>1. a = [pc |-> "asleep", job |-> "none", conn |-> "none", at |-> 0, upto |-> 0, todo |-> {}]
  BY DEF ManagerAsleep
<1>2. {} \in SUBSET Nat
  OBVIOUS
<1> HIDE DEF a
<1>3. /\ a.pc = "asleep" /\ a.job = "none" /\ a.conn = "none" /\ a.at = 0 /\ a.upto = 0 /\ a.todo = {}
  BY <1>1
<1>4. a = [pc |-> a.pc, job |-> a.job, conn |-> a.conn, at |-> a.at, upto |-> a.upto, todo |-> a.todo]
  BY <1>1
<1>5. a \in Managers
  BY <1>2, <1>3, <1>4 DEF Managers
<1> QED BY <1>3, <1>5 DEF a

LEMMA NextJobIs ==
  ASSUME NEW c
  PROVE  /\ NextJob(c) \in Managers /\ NextJob(c).pc \in {"asleep", "lock"}
         /\ NextJob(c).conn = "none" /\ NextJob(c).todo = {}
<1>1. PICK a : a = ManagerAsleep
  OBVIOUS
<1>2. PICK x, j : /\ x = IF c.job = "ensure" THEN "lock" ELSE "asleep"
                  /\ j = IF c.job = "ensure" THEN "cleanup" ELSE "none"
  OBVIOUS
<1>3. NextJob(c) = [a EXCEPT !.pc = x, !.job = j]
  BY <1>1, <1>2 DEF NextJob
<1>4. a \in Managers /\ a.conn = "none" /\ a.todo = {}
  BY <1>1, SleeperIs
<1>5. x \in {"asleep", "lock"} /\ j \in {"none", "cleanup"}
  BY <1>2
<1>6. PICK n : n = [a EXCEPT !.pc = x, !.job = j]
  OBVIOUS
<1>7. n \in Managers /\ n.pc = x /\ n.conn = a.conn /\ n.todo = a.todo
  BY <1>4, <1>5, <1>6 DEF Managers
<1> QED BY <1>3, <1>4, <1>5, <1>6, <1>7

LEMMA ManagerWakes ==
  ASSUME UpkeepInv, NEW p \in UpkeepPods, WakeManager(p)
  PROVE  UpkeepInv'
<1>1. PICK a : a = ManagerAsleep
  OBVIOUS
<1>2. PICK n : n = [a EXCEPT !.pc = "lock", !.job = "ensure"]
  OBVIOUS
<1>3. a \in Managers /\ a.conn = "none" /\ a.todo = {}
  BY <1>1, SleeperIs
<1>4. n \in Managers /\ n.pc = "lock" /\ n.conn = "none" /\ n.todo = {}
  BY <1>2, <1>3 DEF Managers
<1>5. ManagerKept(n, quarter, attached, pendingIn)
  BY <1>4, SleeperKept
<1>6. ManagerKept(upkeep[p], quarter, attached, pendingIn) /\ upkeep[p].pc = "asleep"
  BY DEF UpkeepInv, WakeManager
<1>7. upkeep[p].conn = "none"
  BY <1>6 DEF ManagerKept, Passes
<1>8. upkeep' = [upkeep EXCEPT ![p] = n]
  BY <1>1, <1>2 DEF WakeManager
<1>9. UNCHANGED <<quarter, attached, detached, inDefault, pendingIn, coveredTo, dropLost, sessionLock>>
  BY DEF WakeManager, Tables, EventRows, Histories
<1> QED BY <1>4, <1>5, <1>7, <1>8, <1>9, ManagerGoesOn

LEMMA LockTaken ==
  ASSUME UpkeepInv, NEW p \in UpkeepPods, TryAdvisoryLock(p)
  PROVE  UpkeepInv'
<1>1. PICK c : c = upkeep[p]
  OBVIOUS
<1>2. c \in Managers /\ ManagerKept(c, quarter, attached, pendingIn) /\ quarter \in Nat
  BY <1>1 DEF UpkeepInv, PartitionsKept, ManagerKept
<1>3. c.pc = "lock" /\ UNCHANGED <<quarter, attached, detached, inDefault, pendingIn, coveredTo, dropLost>>
  BY <1>1 DEF TryAdvisoryLock, StepsOnly, Tables, EventRows, Histories
<1>4. c.conn = "none" /\ \A q \in c.todo : q < quarter
  BY <1>2, <1>3 DEF ManagerKept, Passes
<1>5. sessionLock # p
  BY <1>1, <1>4 DEF UpkeepInv, LockKept
<1>6. CASE /\ sessionLock = NoUpkeepPod /\ sessionLock' = p
           /\ upkeep' = [upkeep EXCEPT ![p].pc = IF upkeep[p].job = "ensure" THEN "check" ELSE "list",
                                         ![p].conn = "held", ![p].at = quarter,
                                         ![p].upto = quarter + Lookahead]
  <2>1. PICK x, u : x = (IF c.job = "ensure" THEN "check" ELSE "list") /\ u = quarter + Lookahead
    OBVIOUS
  <2>2. PICK n1, n2, n3, n : /\ n1 = [c EXCEPT !.pc = x] /\ n2 = [n1 EXCEPT !.conn = "held"]
                             /\ n3 = [n2 EXCEPT !.at = quarter] /\ n = [n3 EXCEPT !.upto = u]
    OBVIOUS
  <2>3. x \in {"check", "list"} /\ u \in Nat
    BY <1>2, <2>1, UpkeepAssumption
  <2>4. n1 \in Managers /\ n1.pc = x /\ n1.todo = c.todo
    BY <1>2, <2>2, <2>3 DEF Managers, Passes
  <2>5. n2 \in Managers /\ n2.pc = x /\ n2.conn = "held" /\ n2.todo = c.todo
    BY <2>2, <2>4 DEF Managers
  <2>6. n3 \in Managers /\ n3.pc = x /\ n3.conn = "held" /\ n3.at = quarter /\ n3.todo = c.todo
    BY <1>2, <2>2, <2>5 DEF Managers
  <2>7. n \in Managers /\ n.pc = x /\ n.conn = "held" /\ n.at = quarter /\ n.todo = c.todo
    BY <2>2, <2>3, <2>6 DEF Managers
  <2>8. ManagerKept(n, quarter, attached, pendingIn)
    BY <1>2, <1>4, <2>3, <2>7 DEF ManagerKept, Passes
  <2>9. upkeep' = [upkeep EXCEPT ![p] = n]
    <3>1. n = [c EXCEPT !.pc = x, !.conn = "held", !.at = quarter, !.upto = u]
      BY <1>2, <2>2 DEF Managers
    <3> QED BY <1>1, <1>6, <2>1, <3>1
  <2> QED BY <1>3, <1>6, <2>7, <2>8, <2>9, LockGoesOn
<1>7. CASE upkeep' = [upkeep EXCEPT ![p] = NextJob(@)] /\ sessionLock' = sessionLock
  <2>1. PICK n : n = NextJob(c)
    OBVIOUS
  <2>2. n \in Managers /\ n.pc \in {"asleep", "lock"} /\ n.conn = "none" /\ n.todo = {}
    BY <2>1, NextJobIs
  <2>3. ManagerKept(n, quarter, attached, pendingIn)
    BY <2>2, SleeperKept
  <2>4. upkeep' = [upkeep EXCEPT ![p] = n]
    BY <1>1, <1>7, <2>1
  <2> QED BY <1>1, <1>3, <1>4, <1>7, <2>2, <2>3, <2>4, ManagerGoesOn
<1> QED BY <1>6, <1>7 DEF TryAdvisoryLock

LEMMA LockReleased ==
  ASSUME UpkeepInv, NEW p \in UpkeepPods, ReleaseAdvisoryLock(p) \/ PodEnds(p)
  PROVE  UpkeepInv'
<1>1. UNCHANGED <<quarter, attached, detached, inDefault, pendingIn, coveredTo, dropLost>>
  BY DEF ReleaseAdvisoryLock, PodEnds, StepsOnly, Tables, EventRows, Histories
<1>2. upkeep[p].conn = "held" <=> sessionLock = p
  BY DEF UpkeepInv, LockKept
<1>3. sessionLock' = IF sessionLock = p THEN NoUpkeepPod ELSE sessionLock
  BY <1>2 DEF ReleaseAdvisoryLock, PodEnds
<1>4. PICK n : n \in {NextJob(upkeep[p]), ManagerAsleep} /\ upkeep' = [upkeep EXCEPT ![p] = n]
  BY DEF ReleaseAdvisoryLock, PodEnds
<1>5. n \in Managers /\ n.pc \in {"asleep", "lock"} /\ n.conn = "none" /\ n.todo = {}
  BY <1>4, NextJobIs, SleeperIs
<1>6. ManagerKept(n, quarter, attached, pendingIn)
  BY <1>5, SleeperKept
<1> QED BY <1>1, <1>3, <1>4, <1>5, <1>6, LockGoesOn

LEMMA LockLost ==
  ASSUME UpkeepInv, NEW p \in UpkeepPods, LoseLockConnection(p)
  PROVE  UpkeepInv'
<1>1. UNCHANGED <<quarter, attached, detached, inDefault, pendingIn, coveredTo, dropLost>>
  BY DEF LoseLockConnection, StepsOnly, Tables, EventRows, Histories
<1>2. upkeep[p].conn = "held" /\ sessionLock = p /\ sessionLock' = NoUpkeepPod
  BY DEF UpkeepInv, LockKept, LoseLockConnection
<1>3. PICK c, n : c = upkeep[p] /\ n = [c EXCEPT !.conn = "broken"]
  OBVIOUS
<1>4. ManagerKept(c, quarter, attached, pendingIn)
  BY <1>3 DEF UpkeepInv
<1>5. n \in Managers /\ n.pc = c.pc /\ n.conn = "broken" /\ n.at = c.at /\ n.todo = c.todo
  BY <1>3, <1>4 DEF ManagerKept, Managers
<1>6. ManagerKept(n, quarter, attached, pendingIn)
  BY <1>2, <1>3, <1>4, <1>5 DEF ManagerKept
<1>7. upkeep' = [upkeep EXCEPT ![p] = n]
  BY <1>3 DEF LoseLockConnection
<1> QED BY <1>1, <1>2, <1>5, <1>6, <1>7, LockGoesOn

\* Within a pass, a manager goes on to another step with what it has.
LEMMA PassGoesOn ==
  ASSUME UpkeepInv, UNCHANGED <<quarter, attached, detached, inDefault, pendingIn, coveredTo, dropLost, sessionLock>>,
         NEW p \in UpkeepPods, upkeep[p].pc \in Passes, NEW x \in Passes, UpkeepGoto(p, x),
         x \in {"check", "create"} => upkeep[p].pc = "check",
         x # "list",
         x \in {"safety", "detach", "drop"} => upkeep[p].todo # {},
         x \in {"safety", "detach"} => Oldest(upkeep[p].todo) \notin pendingIn
  PROVE  UpkeepInv'
<1>1. PICK c, n : c = upkeep[p] /\ n = [c EXCEPT !.pc = x]
  OBVIOUS
<1>2. ManagerKept(c, quarter, attached, pendingIn)
  BY <1>1 DEF UpkeepInv
<1>3. n \in Managers /\ n.pc = x /\ n.conn = c.conn /\ n.at = c.at /\ n.todo = c.todo
  BY <1>1, <1>2 DEF ManagerKept, Managers, Passes
<1>4. ManagerKept(n, quarter, attached, pendingIn)
  BY <1>1, <1>2, <1>3 DEF ManagerKept
<1>5. upkeep' = [upkeep EXCEPT ![p] = n]
  BY <1>1 DEF UpkeepGoto
<1> QED BY <1>1, <1>3, <1>4, <1>5, ManagerGoesOn

\* What a manager is after it leaves a candidate.
LEMMA SkipIs ==
  ASSUME UpkeepInv, NEW p \in UpkeepPods, upkeep[p].pc \in Passes, NEW q, Skip(p, q)
  PROVE  \E n : /\ upkeep' = [upkeep EXCEPT ![p] = n] /\ n.conn = upkeep[p].conn
                /\ ManagerKept(n, quarter, attached, pendingIn)
<1>1. PICK c, t, n : c = upkeep[p] /\ t = c.todo \ {q} /\ n = [c EXCEPT !.pc = "published", !.todo = t]
  OBVIOUS
<1>2. ManagerKept(c, quarter, attached, pendingIn)
  BY <1>1 DEF UpkeepInv
<1>3. c \in Managers /\ c.todo \in SUBSET Nat /\ \A r \in t : r \in c.todo
  BY <1>1, <1>2 DEF ManagerKept, Managers
<1>4. t \in SUBSET Nat
  BY <1>3
<1>5. n \in Managers /\ n.pc = "published" /\ n.conn = c.conn /\ n.at = c.at /\ n.todo = t
  BY <1>1, <1>3, <1>4 DEF Managers, Passes
<1>6. ManagerKept(n, quarter, attached, pendingIn)
  BY <1>1, <1>2, <1>3, <1>5 DEF ManagerKept, Passes
<1>7. upkeep' = [upkeep EXCEPT ![p] = n]
  BY <1>1 DEF Skip
<1> QED BY <1>1, <1>5, <1>6, <1>7

LEMMA PassSkips ==
  ASSUME UpkeepInv, UNCHANGED <<quarter, attached, detached, inDefault, pendingIn, coveredTo, dropLost, sessionLock>>,
         NEW p \in UpkeepPods, upkeep[p].pc \in Passes, NEW q, Skip(p, q)
  PROVE  UpkeepInv'
BY SkipIs, ManagerGoesOn

LEMMA PartitionChecked ==
  ASSUME UpkeepInv, NEW p \in UpkeepPods, CheckPartition(p)
  PROVE  UpkeepInv'
<1>1. /\ UNCHANGED <<quarter, attached, detached, inDefault, pendingIn, coveredTo, dropLost, sessionLock>>
      /\ upkeep[p].pc = "check"
  BY DEF CheckPartition, StepsOnly, Tables, EventRows, Histories
<1>2. PICK c : c = upkeep[p]
  OBVIOUS
<1>3. ManagerKept(c, quarter, attached, pendingIn) /\ c \in Managers /\ c.at \in Nat /\ quarter \in Nat
  BY <1>2 DEF UpkeepInv, ManagerKept, Managers, PartitionsKept
<1>4. CASE c.at \in attached \cup detached
  <2>1. PICK t, n : t = c.at + 1 /\ n = [c EXCEPT !.at = t]
    OBVIOUS
  <2>2. n \in Managers /\ n.pc = "check" /\ n.conn = c.conn /\ n.at = t /\ n.todo = c.todo
    BY <1>1, <1>2, <1>3, <2>1 DEF Managers
  <2>3. \A q \in detached : q < quarter
    BY DEF UpkeepInv, PartitionsKept
  <2>4. \A q \in Nat : quarter <= q /\ q < t => q \in attached
    BY <1>1, <1>2, <1>3, <1>4, <2>1, <2>3 DEF ManagerKept
  <2>5. ManagerKept(n, quarter, attached, pendingIn)
    BY <1>1, <1>2, <1>3, <2>2, <2>4 DEF ManagerKept
  <2>6. upkeep' = [upkeep EXCEPT ![p] = n]
    BY <1>2, <1>4, <2>1 DEF CheckPartition
  <2> QED BY <1>1, <1>2, <2>2, <2>5, <2>6, ManagerGoesOn
<1>5. CASE c.at \notin attached \cup detached
  <2>1. UpkeepGoto(p, "create")
    BY <1>2, <1>5 DEF CheckPartition, UpkeepGoto
  <2> QED BY <1>1, <2>1, PassGoesOn DEF Passes
<1> QED BY <1>4, <1>5

LEMMA PartitionCreated ==
  ASSUME UpkeepInv, NEW p \in UpkeepPods, CreatePartition(p)
  PROVE  UpkeepInv'
<1>1. /\ UNCHANGED <<quarter, detached, inDefault, pendingIn, coveredTo, dropLost, sessionLock>>
      /\ upkeep[p].pc = "create"
  BY DEF CreatePartition, StepsOnly, EventRows, Histories
<1>2. PICK c : c = upkeep[p]
  OBVIOUS
<1>3. ManagerKept(c, quarter, attached, pendingIn) /\ c \in Managers /\ c.at \in Nat /\ quarter \in Nat
  BY <1>2 DEF UpkeepInv, ManagerKept, Managers, PartitionsKept
<1>4. CASE c.at \in attached \cup detached \cup inDefault
  <2>1. UpkeepGoto(p, "unlock") /\ attached' = attached
    BY <1>2, <1>4 DEF CreatePartition
  <2> QED BY <1>1, <2>1, PassGoesOn DEF Passes
<1>5. CASE c.at \notin attached \cup detached \cup inDefault
  <2>1. PICK t, n : t = c.at + 1 /\ n = [c EXCEPT !.pc = "check", !.at = t]
    OBVIOUS
  <2>2. n \in Managers /\ n.pc = "check" /\ n.conn = c.conn /\ n.at = t /\ n.todo = c.todo
    <3>1. t \in Nat
      BY <1>3, <2>1
    <3>2. PICK m : m = [c EXCEPT !.pc = "check"]
      OBVIOUS
    <3>3. m \in Managers /\ m.pc = "check" /\ m.conn = c.conn /\ m.at = c.at /\ m.todo = c.todo
      BY <1>3, <3>2 DEF Managers, Passes
    <3>4. n = [m EXCEPT !.at = t]
      BY <1>3, <2>1, <3>2 DEF Managers
    <3> QED BY <3>1, <3>3, <3>4 DEF Managers
  <2>3. attached' = attached \cup {c.at} /\ upkeep' = [upkeep EXCEPT ![p] = n]
    BY <1>2, <1>5, <2>1 DEF CreatePartition
  <2>4. \A q \in Nat : quarter <= q /\ q < t => q \in attached'
    BY <1>1, <1>2, <1>3, <2>1, <2>3 DEF ManagerKept
  <2>5. ManagerKept(n, quarter, attached', pendingIn')
    BY <1>1, <1>2, <1>3, <2>2, <2>4 DEF ManagerKept, Passes
  <2>6. PartitionsKept'
    BY <1>1, <1>3, <1>5, <2>3 DEF UpkeepInv, PartitionsKept
  <2>7. LockKept'
    <3>1. upkeep'[p].conn = upkeep[p].conn /\ \A r \in UpkeepPods : r # p => upkeep'[r] = upkeep[r]
      BY <1>2, <2>2, <2>3 DEF UpkeepInv
    <3> QED BY <1>1, <3>1 DEF UpkeepInv, LockKept
  <2> QED BY <1>1, <2>3, <2>5, <2>6, <2>7, UpkeepGoesOn
<1> QED BY <1>4, <1>5

LEMMA EnsureDone ==
  ASSUME UpkeepInv, NEW p \in UpkeepPods, EnsureEnds(p)
  PROVE  UpkeepInv'
<1>1. /\ UNCHANGED <<quarter, attached, detached, inDefault, pendingIn, dropLost, sessionLock>>
      /\ upkeep[p].pc = "check" /\ upkeep[p].at = upkeep[p].upto /\ UpkeepGoto(p, "unlock")
      /\ coveredTo' = IF upkeep[p].upto > coveredTo THEN upkeep[p].upto ELSE coveredTo
  BY DEF EnsureEnds, StepsOnly, Tables, EventRows
<1>2. PICK c, n : c = upkeep[p] /\ n = [c EXCEPT !.pc = "unlock"]
  OBVIOUS
<1>3. ManagerKept(c, quarter, attached, pendingIn) /\ c \in Managers /\ c.at \in Nat
  BY <1>2 DEF UpkeepInv, ManagerKept, Managers
<1>4. n \in Managers /\ n.pc = "unlock" /\ n.conn = c.conn /\ n.at = c.at /\ n.todo = c.todo
  BY <1>2, <1>3 DEF Managers, Passes
<1>5. ManagerKept(n, quarter, attached, pendingIn)
  BY <1>1, <1>2, <1>3, <1>4 DEF ManagerKept, Passes
<1>6. \A q \in Nat : quarter <= q /\ q < c.at => q \in attached
  BY <1>1, <1>2, <1>3 DEF ManagerKept
<1>7. PartitionsKept'
  BY <1>1, <1>2, <1>3, <1>6 DEF UpkeepInv, PartitionsKept
<1>8. LockKept'
  <2>1. upkeep'[p].conn = upkeep[p].conn /\ \A r \in UpkeepPods : r # p => upkeep'[r] = upkeep[r]
    BY <1>1, <1>2, <1>4 DEF UpkeepInv, UpkeepGoto
  <2> QED BY <1>1, <2>1 DEF UpkeepInv, LockKept
<1>9. upkeep' = [upkeep EXCEPT ![p] = n]
  BY <1>1, <1>2 DEF UpkeepGoto
<1> QED BY <1>1, <1>5, <1>7, <1>8, <1>9, UpkeepGoesOn

LEMMA ExpiredListed ==
  ASSUME UpkeepInv, NEW p \in UpkeepPods, ListExpired(p)
  PROVE  UpkeepInv'
<1>1. /\ UNCHANGED <<quarter, attached, detached, inDefault, pendingIn, coveredTo, dropLost, sessionLock>>
      /\ upkeep[p].pc = "list"
  BY DEF ListExpired, StepsOnly, Tables, EventRows, Histories
<1>2. PICK c, t, n : /\ c = upkeep[p] /\ t = {q \in attached : q + 1 + Retention <= c.at}
                     /\ n = [c EXCEPT !.pc = "published", !.todo = t]
  OBVIOUS
<1>3. ManagerKept(c, quarter, attached, pendingIn) /\ c \in Managers /\ c.at \in Nat
      /\ quarter \in Nat /\ attached \subseteq Nat
  BY <1>2 DEF UpkeepInv, ManagerKept, Managers, PartitionsKept
<1>4. t \in SUBSET Nat /\ \A q \in t : q < quarter
  BY <1>1, <1>2, <1>3, UpkeepAssumption DEF ManagerKept
<1>5. n \in Managers /\ n.pc = "published" /\ n.conn = c.conn /\ n.at = c.at /\ n.todo = t
  BY <1>2, <1>3, <1>4 DEF Managers, Passes
<1>6. ManagerKept(n, quarter, attached, pendingIn)
  BY <1>1, <1>2, <1>3, <1>4, <1>5 DEF ManagerKept, Passes
<1>7. upkeep' = [upkeep EXCEPT ![p] = n]
  BY <1>2 DEF ListExpired
<1> QED BY <1>1, <1>2, <1>5, <1>6, <1>7, ManagerGoesOn

LEMMA CandidateIs ==
  ASSUME NEW p
  PROVE  Candidate(p) = Oldest(upkeep[p].todo)
BY DEF Candidate, Oldest

LEMMA CandidateJudged ==
  ASSUME UpkeepInv, NEW p \in UpkeepPods, HasUnpublished(p) \/ IsSafeToDrop(p)
  PROVE  UpkeepInv'
<1>1. /\ UNCHANGED <<quarter, attached, detached, inDefault, pendingIn, coveredTo, dropLost, sessionLock>>
      /\ upkeep[p].pc \in {"published", "safety"}
  BY DEF HasUnpublished, IsSafeToDrop, StepsOnly, Tables, EventRows, Histories
<1>2. upkeep[p].pc \in Passes
  BY <1>1 DEF Passes
<1>3. CASE \E q : Skip(p, q)
  BY <1>1, <1>2, <1>3, PassSkips
<1>4. CASE UpkeepGoto(p, "unlock")
  BY <1>1, <1>2, <1>4, PassGoesOn DEF Passes
<1>5. CASE /\ HasUnpublished(p) /\ UpkeepGoto(p, "safety")
           /\ upkeep[p].todo # {} /\ Candidate(p) \notin pendingIn
  BY <1>1, <1>2, <1>5, PassGoesOn, CandidateIs DEF Passes
<1>6. CASE IsSafeToDrop(p) /\ UpkeepGoto(p, "detach")
  <2>1. ManagerKept(upkeep[p], quarter, attached, pendingIn) /\ upkeep[p].pc = "safety"
    BY <1>6 DEF UpkeepInv, IsSafeToDrop
  <2>2. upkeep[p].todo # {} /\ Oldest(upkeep[p].todo) \notin pendingIn
    BY <2>1 DEF ManagerKept
  <2> QED BY <1>1, <1>2, <1>6, <2>2, PassGoesOn DEF Passes
<1>7. CASE HasUnpublished(p)
  BY <1>3, <1>4, <1>5, <1>7, Zenon DEF HasUnpublished
<1>8. CASE IsSafeToDrop(p)
  BY <1>3, <1>6, <1>8, Zenon DEF IsSafeToDrop
<1> QED BY <1>7, <1>8

LEMMA CandidateDetached ==
  ASSUME UpkeepInv, NEW p \in UpkeepPods, DetachPartition(p)
  PROVE  UpkeepInv'
<1>1. /\ UNCHANGED <<quarter, inDefault, pendingIn, coveredTo, dropLost, sessionLock>>
      /\ upkeep[p].pc = "detach"
  BY DEF DetachPartition, StepsOnly, EventRows, Histories
<1>2. PICK q : q = Candidate(p)
  OBVIOUS
<1>3. CASE q \notin attached
  <2>1. Skip(p, q) /\ UNCHANGED <<attached, detached>>
    BY <1>2, <1>3 DEF DetachPartition
  <2> QED BY <1>1, <2>1, PassSkips DEF Passes
<1>4. CASE q \in attached
  <2>1. attached' = attached \ {q} /\ detached' = detached \cup {q} /\ UpkeepGoto(p, "drop")
    BY <1>2, <1>4 DEF DetachPartition
  <2>2. PICK c, n : c = upkeep[p] /\ n = [c EXCEPT !.pc = "drop"]
    OBVIOUS
  <2>3. ManagerKept(c, quarter, attached, pendingIn) /\ c \in Managers /\ c.todo \in SUBSET Nat /\ c.pc = "detach"
        /\ quarter \in Nat
    BY <1>1, <2>2 DEF UpkeepInv, PartitionsKept, ManagerKept, Managers
  <2>4. c.todo # {} /\ q = Oldest(c.todo) /\ q \notin pendingIn
    BY <1>2, <2>2, <2>3, CandidateIs DEF ManagerKept
  <2>5. q \in c.todo
    BY <2>3, <2>4, OldestIsOne
  <2>6. q \in Nat /\ q < quarter
    BY <2>3, <2>5 DEF ManagerKept
  <2>7. n \in Managers /\ n.pc = "drop" /\ n.conn = c.conn /\ n.at = c.at /\ n.todo = c.todo
    BY <2>2, <2>3 DEF Managers, Passes
  <2>8. ManagerKept(n, quarter, attached', pendingIn')
    BY <1>1, <2>3, <2>4, <2>7 DEF ManagerKept, Passes
  <2>9. PartitionsKept'
    <3>1. PartitionsKept
      BY DEF UpkeepInv
    <3>2. \A r \in Nat : quarter <= r /\ r < coveredTo => r \in attached'
      BY <2>1, <2>3, <2>6, <3>1 DEF PartitionsKept
    <3>3. \A r \in detached' : r \in Nat /\ r < quarter /\ r \notin pendingIn
      BY <2>1, <2>4, <2>6, <3>1 DEF PartitionsKept
    <3>4. attached' \subseteq attached
      BY <2>1
    <3> QED BY <1>1, <2>1, <3>1, <3>2, <3>3, <3>4 DEF PartitionsKept
  <2>10. upkeep' = [upkeep EXCEPT ![p] = n]
    BY <2>1, <2>2 DEF UpkeepGoto
  <2>11. LockKept'
    <3>1. upkeep'[p].conn = upkeep[p].conn /\ \A r \in UpkeepPods : r # p => upkeep'[r] = upkeep[r]
      BY <2>2, <2>7, <2>10 DEF UpkeepInv
    <3> QED BY <1>1, <3>1 DEF UpkeepInv, LockKept
  <2>12. \A r \in Nat : quarter <= r /\ r \in attached => r \in attached'
    BY <2>1, <2>3, <2>6
  <2> QED BY <1>1, <2>8, <2>9, <2>10, <2>11, <2>12, UpkeepGoesOn
<1> QED BY <1>3, <1>4

LEMMA CandidateDropped ==
  ASSUME UpkeepInv, NEW p \in UpkeepPods, DropTable(p)
  PROVE  UpkeepInv'
<1>1. /\ UNCHANGED <<quarter, attached, inDefault, coveredTo, sessionLock>>
      /\ upkeep[p].pc = "drop"
  BY DEF DropTable
<1>2. PICK q : q = Candidate(p)
  OBVIOUS
<1>3. /\ detached' = detached \ {q} /\ Skip(p, q)
      /\ pendingIn' = IF q \in detached THEN pendingIn \ {q} ELSE pendingIn
      /\ dropLost' = (dropLost \/ q \in detached \cap pendingIn)
  BY <1>2 DEF DropTable
<1>4. PartitionsKept'
  BY <1>1, <1>3 DEF UpkeepInv, PartitionsKept
<1>5. PICK n : /\ upkeep' = [upkeep EXCEPT ![p] = n] /\ n.conn = upkeep[p].conn
               /\ ManagerKept(n, quarter, attached, pendingIn)
  BY <1>1, <1>3, SkipIs DEF Passes
<1>6. pendingIn' \subseteq pendingIn /\ quarter \in Nat
  BY <1>3 DEF UpkeepInv, PartitionsKept
<1>7. ManagerKept(n, quarter, attached', pendingIn')
  BY <1>1, <1>5, <1>6, ManagerStays
<1>8. LockKept'
  <2>1. upkeep'[p].conn = upkeep[p].conn /\ \A r \in UpkeepPods : r # p => upkeep'[r] = upkeep[r]
    BY <1>5 DEF UpkeepInv
  <2> QED BY <1>1, <2>1 DEF UpkeepInv, LockKept
<1> QED BY <1>1, <1>4, <1>5, <1>6, <1>7, <1>8, UpkeepGoesOn

LEMMA StatementFailed ==
  ASSUME UpkeepInv, NEW p \in UpkeepPods, StatementFails(p)
  PROVE  UpkeepInv'
<1>1. /\ UNCHANGED <<quarter, attached, detached, inDefault, pendingIn, coveredTo, dropLost, sessionLock>>
      /\ upkeep[p].pc \in Passes
      /\ UpkeepGoto(p, "unlock") \/ \E q : Skip(p, q)
  BY DEF StatementFails, StepsOnly, Tables, EventRows, Histories, Passes
<1>2. CASE UpkeepGoto(p, "unlock")
  BY <1>1, <1>2, PassGoesOn DEF Passes
<1> QED BY <1>1, <1>2, PassSkips

\* EventRows come to the quarter the clock is in, are published, and quarters end.
LEMMA TimeGoesOn ==
  ASSUME UpkeepInv, InsertEvent \/ QuarterEnds \/ \E q \in Quarters : RelayPublishes(q)
  PROVE  UpkeepInv'
<1>1. /\ UNCHANGED <<attached, detached, sessionLock, upkeep, coveredTo, dropLost>>
      /\ quarter' \in {quarter, quarter + 1}
  BY DEF InsertEvent, QuarterEnds, RelayPublishes, Tables, Histories
<1>2. quarter \in Nat /\ quarter' \in Nat /\ quarter <= quarter'
  BY <1>1 DEF UpkeepInv, PartitionsKept
<1>3. pendingIn' \subseteq pendingIn \cup {quarter}
  BY DEF InsertEvent, QuarterEnds, RelayPublishes, EventRows
<1>4. inDefault' \cap attached \subseteq inDefault \cap attached
  BY DEF InsertEvent, QuarterEnds, RelayPublishes, Tables
<1>5. PartitionsKept'
  BY <1>1, <1>2, <1>3, <1>4 DEF UpkeepInv, PartitionsKept
<1>6. LockKept'
  BY <1>1 DEF UpkeepInv, LockKept
<1>7. \A q \in Nat : q < quarter /\ q \in pendingIn' => q \in pendingIn
  BY <1>2, <1>3
<1>8. ASSUME NEW p \in UpkeepPods PROVE ManagerKept(upkeep'[p], quarter', attached', pendingIn')
  <2>1. PICK c : c = upkeep[p]
    OBVIOUS
  <2>2. ManagerKept(c, quarter, attached, pendingIn)
    BY <2>1 DEF UpkeepInv
  <2>3. ManagerKept(c, quarter', attached', pendingIn')
    BY <1>1, <1>2, <1>7, <2>2, ManagerStays
  <2> QED BY <1>1, <2>1, <2>3
<1> QED BY <1>1, <1>5, <1>6, <1>8 DEF UpkeepInv

\* The partition upkeep: one pod at a time unless the lock is lost, a partition for every
\* quarter an ensure pass went through, and nothing dropped that had not ended or that the
\* relay had still to publish, for any number of pods, quarters, passes and faults.
THEOREM UpkeepIsSafe == UpkeepSpec => []UpkeepSafe
<1>1. UpkeepInit => UpkeepInv
  BY UpkeepStarts
<1>2. UpkeepInv /\ [UpkeepNext]_upkeepVars => UpkeepInv'
  <2> SUFFICES ASSUME UpkeepInv, [UpkeepNext]_upkeepVars PROVE UpkeepInv'
    OBVIOUS
  <2>1. ASSUME NEW p \in UpkeepPods, WakeManager(p) \/ TryAdvisoryLock(p)
        PROVE  UpkeepInv'
    BY <2>1, ManagerWakes, LockTaken
  <2>2. ASSUME NEW p \in UpkeepPods,
               ReleaseAdvisoryLock(p) \/ LoseLockConnection(p) \/ PodEnds(p)
        PROVE  UpkeepInv'
    BY <2>2, LockReleased, LockLost
  <2>3. ASSUME NEW p \in UpkeepPods, CheckPartition(p) \/ CreatePartition(p) \/ EnsureEnds(p)
        PROVE  UpkeepInv'
    BY <2>3, PartitionChecked, PartitionCreated, EnsureDone
  <2>4. ASSUME NEW p \in UpkeepPods,
               ListExpired(p) \/ HasUnpublished(p) \/ IsSafeToDrop(p)
        PROVE  UpkeepInv'
    BY <2>4, ExpiredListed, CandidateJudged
  <2>5. ASSUME NEW p \in UpkeepPods,
               DetachPartition(p) \/ DropTable(p) \/ StatementFails(p)
        PROVE  UpkeepInv'
    BY <2>5, CandidateDetached, CandidateDropped, StatementFailed
  <2>6. CASE InsertEvent \/ QuarterEnds \/ \E q \in Quarters : RelayPublishes(q)
    BY <2>6, TimeGoesOn
  <2>7. CASE UNCHANGED upkeepVars
    BY <2>7 DEF upkeepVars, UpkeepInv, PartitionsKept, LockKept
  <2> QED BY <2>1, <2>2, <2>3, <2>4, <2>5, <2>6, <2>7, Zenon DEF UpkeepNext
<1>3. UpkeepInv => UpkeepSafe
  <2> SUFFICES ASSUME UpkeepInv PROVE UpkeepSafe
    OBVIOUS
  <2>1. \A p \in UpkeepPods : Working(p) <=> upkeep[p].conn \in {"held", "broken"}
    BY DEF UpkeepInv, ManagerKept, Working, Passes, Managers
  <2>2. UpkeepExclusive
    BY <2>1, UpkeepAssumption DEF UpkeepInv, LockKept, UpkeepExclusive
  <2>3. \A q \in Quarters : q \in Nat
    BY DEF Quarters
  <2>4. QuartersCovered
    BY <2>3 DEF UpkeepInv, PartitionsKept, QuartersCovered
  <2>5. DropsPublished
    BY DEF UpkeepInv, PartitionsKept, DropsPublished
  <2> QED BY <2>2, <2>4, <2>5 DEF UpkeepSafe
<1> QED BY <1>1, <1>2, <1>3, PTL DEF UpkeepSpec

-----------------------------------------------------------------------------
\* The auditors: what they compare with is what they last saw.
\* What the auditors know is of the right kind.
AuditTyped ==
  /\ auditTime \in Nat
  /\ \A x \in lastSeen : x.entity \in AuditEntities
  /\ DOMAIN heard = AuditEntities /\ \A e \in AuditEntities : heard[e].at \in Nat /\ heard[e].seq \in Nat
  /\ streamSeq \in [AuditStreams -> Nat] /\ lastStreamSeq \in [AuditStreams -> Nat]
  /\ gapGauge \in [AuditStreams -> Nat] /\ stored \in [AuditStreams -> Nat]
  /\ growth \in [AuditStreams -> Nat]

\* Since a check that saw the stream, it has grown by what it stored, or is a new one.
AuditInv ==
  /\ AuditTyped
  /\ TrackerFollowsDeliveries
  /\ \A s \in AuditStreams : lastStreamSeq[s] # 0 => streamSeq[s] <= lastStreamSeq[s] + stored[s]
  /\ \A s \in AuditStreams : gapGauge[s] <= growth[s]

LEMMA AuditStarts == ASSUME AuditInit PROVE AuditInv
<1>1. /\ auditTime = 1 /\ lastSeen = {} /\ streamSeq = [s \in AuditStreams |-> 0]
      /\ lastStreamSeq = [s \in AuditStreams |-> 0] /\ gapGauge = [s \in AuditStreams |-> 0]
      /\ stored = [s \in AuditStreams |-> 0] /\ growth = [s \in AuditStreams |-> 0]
  BY DEF AuditInit
<1>2. DOMAIN heard = AuditEntities /\ \A e \in AuditEntities : heard[e].at = 0 /\ heard[e].seq = 0
  BY DEF AuditInit, NeverHeard
<1>3. AuditTyped
  BY <1>1, <1>2 DEF AuditTyped
<1>4. TrackerFollowsDeliveries
  BY <1>1, <1>2 DEF TrackerFollowsDeliveries
<1> QED BY <1>1, <1>3, <1>4 DEF AuditInv

\* A step of the tracker.
LEMMA TrackerGoesOn ==
  ASSUME AuditInv, StreamsUnchanged, TrackerFollowsDeliveries', auditTime' \in Nat,
         \A x \in lastSeen' : x.entity \in AuditEntities,
         DOMAIN heard' = AuditEntities,
         \A e \in AuditEntities : heard'[e].at \in Nat /\ heard'[e].seq \in Nat
  PROVE  AuditInv'
BY DEF AuditInv, AuditTyped, StreamsUnchanged

LEMMA AuditHears ==
  ASSUME MaxSequence \in Nat, SequenceTrackerTTL \in Nat, AuditInv, NEW e \in AuditEntities, NEW seq \in 0 .. MaxSequence,
         CheckAndUpdate(e, seq)
  PROVE  AuditInv'
<1>1. AuditTyped /\ TrackerFollowsDeliveries
  BY DEF AuditInv
<1>2. StreamsUnchanged /\ auditTime' = auditTime
  BY DEF CheckAndUpdate
<1>3. CASE seq <= 0
  <2>1. lastSeen' = lastSeen /\ heard' = heard
    BY <1>3 DEF CheckAndUpdate
  <2>2. TrackerFollowsDeliveries'
    BY <1>1, <1>2, <2>1 DEF TrackerFollowsDeliveries
  <2> QED BY <1>1, <1>2, <2>1, <2>2, TrackerGoesOn DEF AuditTyped
<1>4. CASE ~(seq <= 0)
  <2>1. PICK n, h : n = [entity |-> e, seq |-> seq, at |-> auditTime] /\ h = [seq |-> seq, at |-> auditTime]
    OBVIOUS
  <2>2. lastSeen' = {x \in lastSeen : x.entity # e} \cup {n} /\ heard' = [heard EXCEPT ![e] = h]
    BY <1>4, <2>1 DEF CheckAndUpdate
  <2>3. /\ n.entity = e /\ n.seq = h.seq /\ n.at = h.at /\ h.at = auditTime /\ h.seq = seq
        /\ seq \in Nat /\ auditTime \in Nat
    BY <1>1, <2>1 DEF AuditTyped
  <2>4. DOMAIN heard' = AuditEntities /\ heard'[e] = h /\ \A f \in AuditEntities : f # e => heard'[f] = heard[f]
    BY <1>1, <2>2 DEF AuditTyped
  <2>5. TrackerFollowsDeliveries'
    <3>1. \A x \in lastSeen' : x.seq = heard'[x.entity].seq /\ x.at = heard'[x.entity].at
      BY <1>1, <2>2, <2>3, <2>4 DEF TrackerFollowsDeliveries, AuditTyped
    <3>2. \A f \in AuditEntities :
            heard'[f].seq > 0 /\ heard'[f].at >= auditTime' - SequenceTrackerTTL => \E x \in lastSeen' : x.entity = f
      <4>1. ASSUME NEW f \in AuditEntities, f # e, heard'[f].seq > 0, heard'[f].at >= auditTime' - SequenceTrackerTTL
            PROVE  \E x \in lastSeen' : x.entity = f
        BY <1>1, <1>2, <2>2, <2>4, <4>1 DEF TrackerFollowsDeliveries
      <4>2. \E x \in lastSeen' : x.entity = e
        BY <2>2, <2>3
      <4> QED BY <4>1, <4>2
    <3> QED BY <3>1, <3>2 DEF TrackerFollowsDeliveries
  <2>6. /\ \A x \in lastSeen' : x.entity \in AuditEntities
        /\ \A f \in AuditEntities : heard'[f].at \in Nat /\ heard'[f].seq \in Nat
    BY <1>1, <2>2, <2>3, <2>4 DEF AuditTyped
  <2> QED BY <1>1, <1>2, <2>4, <2>5, <2>6, TrackerGoesOn DEF AuditTyped
<1> QED BY <1>3, <1>4

LEMMA AuditForgets ==
  ASSUME SequenceTrackerTTL \in Nat, AuditInv, EvictStale \/ RestartTracker \/ AuditTick
  PROVE  AuditInv'
<1>1. AuditTyped /\ TrackerFollowsDeliveries
  BY DEF AuditInv
<1>2. CASE EvictStale
  <2>1. /\ lastSeen' = {x \in lastSeen : x.at >= auditTime - SequenceTrackerTTL}
        /\ StreamsUnchanged /\ heard' = heard /\ auditTime' = auditTime
    BY <1>2 DEF EvictStale
  <2>2. TrackerFollowsDeliveries'
    BY <1>1, <2>1 DEF TrackerFollowsDeliveries
  <2> QED BY <1>1, <2>1, <2>2, TrackerGoesOn DEF AuditTyped
<1>3. CASE RestartTracker
  <2>1. /\ lastSeen' = {} /\ heard' = [e \in AuditEntities |-> NeverHeard]
        /\ StreamsUnchanged /\ auditTime' = auditTime
    BY <1>3 DEF RestartTracker
  <2>2. NeverHeard.seq = 0 /\ NeverHeard.at = 0
    BY DEF NeverHeard
  <2>3. TrackerFollowsDeliveries'
    BY <1>1, <2>1, <2>2 DEF TrackerFollowsDeliveries
  <2> QED BY <1>1, <2>1, <2>2, <2>3, TrackerGoesOn DEF AuditTyped
<1>4. CASE AuditTick
  <2>1. StreamsUnchanged /\ heard' = heard /\ lastSeen' = lastSeen /\ auditTime' = auditTime + 1
    BY <1>4 DEF AuditTick
  <2>2. TrackerFollowsDeliveries'
    BY <1>1, <2>1 DEF TrackerFollowsDeliveries, AuditTyped
  <2> QED BY <1>1, <2>1, <2>2, TrackerGoesOn DEF AuditTyped
<1> QED BY <1>2, <1>3, <1>4

LEMMA AuditCounts ==
  ASSUME AuditInv, NEW s \in AuditStreams, StoreMessage(s) \/ RecreateStream(s)
  PROVE  AuditInv'
<1>1. AuditTyped
  BY DEF AuditInv
<1>2. /\ UNCHANGED <<lastSeen, heard, auditTime, lastStreamSeq, gapGauge, growth>>
      /\ streamSeq' \in [AuditStreams -> Nat] /\ stored' \in [AuditStreams -> Nat]
  BY <1>1 DEF StoreMessage, RecreateStream, TrackerUnchanged, AuditTyped
<1>3. \A t \in AuditStreams : \/ streamSeq'[t] = streamSeq[t] /\ stored'[t] = stored[t]
                              \/ streamSeq'[t] = streamSeq[t] + 1 /\ stored'[t] = stored[t] + 1
                              \/ streamSeq'[t] = 0
  BY <1>1 DEF StoreMessage, RecreateStream, AuditTyped
<1>4. AuditTyped'
  BY <1>1, <1>2 DEF AuditTyped
<1>5. TrackerFollowsDeliveries'
  BY <1>2 DEF AuditInv, TrackerFollowsDeliveries
<1>6. \A t \in AuditStreams : lastStreamSeq'[t] # 0 => streamSeq'[t] <= lastStreamSeq'[t] + stored'[t]
  <2>1. ASSUME NEW t \in AuditStreams, lastStreamSeq'[t] # 0
        PROVE  streamSeq'[t] <= lastStreamSeq'[t] + stored'[t]
    <3>1. /\ streamSeq[t] \in Nat /\ lastStreamSeq[t] \in Nat /\ stored[t] \in Nat /\ stored'[t] \in Nat
          /\ streamSeq[t] <= lastStreamSeq[t] + stored[t] /\ lastStreamSeq'[t] = lastStreamSeq[t]
      BY <1>1, <1>2, <2>1 DEF AuditInv, AuditTyped
    <3> QED BY <1>3, <3>1
  <2> QED BY <2>1
<1> QED BY <1>2, <1>4, <1>5, <1>6 DEF AuditInv

LEMMA AuditChecks ==
  ASSUME AuditInv, NEW reached \in SUBSET AuditStreams, ReconciliationCheck(reached)
  PROVE  AuditInv'
<1>1. AuditTyped
  BY DEF AuditInv
<1>2. UNCHANGED <<lastSeen, heard, auditTime, streamSeq>> /\ stored' = [s \in AuditStreams |-> 0]
  BY DEF ReconciliationCheck, TrackerUnchanged
<1>3. /\ lastStreamSeq' = [s \in AuditStreams |-> CurrentSeq(s, reached)]
      /\ gapGauge' = [s \in AuditStreams |->
           IF lastStreamSeq[s] = 0 THEN gapGauge[s]
           ELSE IF CurrentSeq(s, reached) < lastStreamSeq[s] THEN 0 ELSE CurrentSeq(s, reached) - lastStreamSeq[s]]
      /\ growth' = [s \in AuditStreams |-> IF lastStreamSeq[s] # 0 THEN stored[s] ELSE growth[s]]
  BY DEF ReconciliationCheck
<1>4. \A s \in AuditStreams : CurrentSeq(s, reached) \in {0, streamSeq[s]}
  BY DEF CurrentSeq
<1>5. ASSUME NEW s \in AuditStreams
      PROVE  /\ lastStreamSeq'[s] \in Nat /\ gapGauge'[s] \in Nat /\ growth'[s] \in Nat
             /\ gapGauge'[s] <= growth'[s]
             /\ lastStreamSeq'[s] # 0 => streamSeq'[s] <= lastStreamSeq'[s] + stored'[s]
  <2>1. /\ lastStreamSeq'[s] = CurrentSeq(s, reached)
        /\ gapGauge'[s] = IF lastStreamSeq[s] = 0 THEN gapGauge[s]
             ELSE IF CurrentSeq(s, reached) < lastStreamSeq[s] THEN 0 ELSE CurrentSeq(s, reached) - lastStreamSeq[s]
        /\ growth'[s] = IF lastStreamSeq[s] # 0 THEN stored[s] ELSE growth[s]
        /\ streamSeq'[s] = streamSeq[s] /\ stored'[s] = 0
    BY <1>2, <1>3
  <2>2. /\ streamSeq[s] \in Nat /\ lastStreamSeq[s] \in Nat /\ gapGauge[s] \in Nat /\ stored[s] \in Nat /\ growth[s] \in Nat
        /\ (lastStreamSeq[s] # 0 => streamSeq[s] <= lastStreamSeq[s] + stored[s]) /\ gapGauge[s] <= growth[s]
    BY <1>1 DEF AuditInv, AuditTyped
  <2>3. PICK c : c = CurrentSeq(s, reached) /\ c \in {0, streamSeq[s]}
    BY <1>4
  <2> QED BY <2>1, <2>2, <2>3
<1>6. AuditTyped'
  BY <1>1, <1>2, <1>3, <1>5 DEF AuditTyped
<1>7. TrackerFollowsDeliveries'
  BY <1>2 DEF AuditInv, TrackerFollowsDeliveries
<1> QED BY <1>5, <1>6, <1>7 DEF AuditInv

\* The auditors: the consumer compares with the last delivery it still knows, and the
\* relay's gauge never shows more than a stream has stored.
THEOREM AuditIsSafe ==
  ASSUME MaxSequence \in Nat, SequenceTrackerTTL \in Nat
  PROVE  AuditSpec => []AuditSafe
<1>1. AuditInit => AuditInv
  BY AuditStarts
<1>2. AuditInv /\ [AuditNext]_auditVars => AuditInv'
  <2> SUFFICES ASSUME AuditInv, [AuditNext]_auditVars PROVE AuditInv'
    OBVIOUS
  <2>1. CASE \E e \in AuditEntities, seq \in 0 .. MaxSequence : CheckAndUpdate(e, seq)
    BY <2>1, AuditHears
  <2>2. CASE EvictStale \/ RestartTracker \/ AuditTick
    BY <2>2, AuditForgets
  <2>3. CASE \E s \in AuditStreams : StoreMessage(s) \/ RecreateStream(s)
    BY <2>3, AuditCounts
  <2>4. CASE \E reached \in SUBSET AuditStreams : ReconciliationCheck(reached)
    BY <2>4, AuditChecks
  <2>5. CASE UNCHANGED auditVars
    BY <2>5 DEF auditVars, AuditInv, AuditTyped, TrackerFollowsDeliveries
  <2> QED BY <2>1, <2>2, <2>3, <2>4, <2>5 DEF AuditNext
<1>3. AuditInv => AuditSafe
  BY DEF AuditInv, AuditTyped, AuditSafe, GaugeShowsGrowth
<1> QED BY <1>1, <1>2, <1>3, PTL DEF AuditSpec

\* partition_manager.go, stream_monitor.go: the upkeep and the auditors, side by side.
THEOREM OutboxStaysKept ==
  ASSUME MaxSequence \in Nat, SequenceTrackerTTL \in Nat
  PROVE  UpkeepSpec /\ AuditSpec => []OutboxKept
<1>1. UpkeepSafe /\ AuditSafe => OutboxKept
  BY DEF OutboxKept
<1> QED BY <1>1, UpkeepIsSafe, AuditIsSafe, PTL
=============================================================================
