----------------------------- MODULE OutboxUpkeep -----------------------------
(***************************************************************************)
(* What keeps the outbox in order behind the relay.                        *)
(*                                                                         *)
(* The partition upkeep of every pod (adapter/postgres) creates the next  *)
(* quarters' partitions and drops those past their retention, one pod at a *)
(* time: a session advisory lock lives on a connection of its own, while   *)
(* the statements go through the pool.                                     *)
(*                                                                         *)
(* The auditors (adapter/nats) only watch: the consumer compares the       *)
(* sequence numbers of an entity's events, and the relay compares the      *)
(* LastSeq of every stream with that of its previous look.                 *)
(***************************************************************************)
EXTENDS Integers, FiniteSets

CONSTANTS
    UpkeepPods, NoUpkeepPod,
    PreCreated,             \* the quarters that the migrations create
    Lookahead,              \* cfg.Outbox.PartitionLookahead
    Retention,              \* cfg.Outbox.RetentionDays, in whole quarters, rounded down
    LastQuarter, MaxUpkeepFaults, MaxUpkeepRuns,
    AuditEntities, AuditStreams,
    SequenceTrackerTTL,     \* in units of the tracker's clock
    MaxSequence, MaxAuditTime

ASSUME UpkeepAssumption ==
    /\ NoUpkeepPod \notin UpkeepPods
    /\ PreCreated \in Nat /\ Lookahead \in Nat \ {0} /\ Retention \in Nat
    /\ LastQuarter \in Nat /\ MaxUpkeepFaults \in Nat /\ MaxUpkeepRuns \in Nat

VARIABLES
    quarter,        \* the quarter that the clock is in
    attached,       \* the quarters with a partition
    detached,       \* the quarters whose table is detached and not yet dropped
    inDefault,      \* the quarters whose events went to outbox_default
    pendingIn, publishedIn, \* the quarters with events of either kind
    sessionLock,    \* the pod whose connection holds the advisory lock
    upkeep,         \* the partition manager of each pod
    coveredTo,      \* history: the quarter after those that an ensure pass went through
    dropLost,       \* history: a dropped partition held an unpublished event
    upkeepRuns, upkeepFaults,
    lastSeen,       \* sequenceTracker.lastSeen: the entities it has an entry for
    heard,          \* history: the last delivery for each entity since the consumer started
    streamSeq,      \* LastSeq of each stream, in JetStream
    lastStreamSeq,  \* the relay's baseline of each stream, 0 for none
    gapGauge,       \* platform_outbox_reconciliation_sequence_gap
    stored,         \* history: messages that each stream has stored since the last check
    growth,         \* history: and between the check that set its gauge and the one before
    auditTime

upkeepVars == <<quarter, attached, detached, inDefault, pendingIn, publishedIn, sessionLock,
                upkeep, coveredTo, dropLost, upkeepRuns, upkeepFaults>>
auditVars ==
    <<lastSeen, heard, streamSeq, lastStreamSeq, gapGauge, stored, growth, auditTime>>

Quarters == 0 .. LastQuarter + Lookahead + PreCreated
ManagerAsleep == [pc |-> "asleep", job |-> "none", conn |-> "none", at |-> 0, upto |-> 0, todo |-> {}]

UpkeepInit ==
    /\ quarter = 0
    /\ attached = 0 .. PreCreated - 1
    /\ detached = {} /\ inDefault = {} /\ pendingIn = {} /\ publishedIn = {}
    /\ sessionLock = NoUpkeepPod
    /\ upkeep = [p \in UpkeepPods |-> ManagerAsleep]
    /\ coveredTo = 0
    /\ dropLost = FALSE
    /\ upkeepRuns = 0 /\ upkeepFaults = 0

-----------------------------------------------------------------------------
Tables == <<attached, detached, inDefault>>
EventRows == <<pendingIn, publishedIn>>
Histories == <<coveredTo, dropLost>>

\* The steps between the acquisition of the lock and its release.
Working(p) == upkeep[p].pc \in {"check", "create", "list", "published", "safety", "detach",
                                 "drop", "unlock"}
UpkeepGoto(p, pc) == upkeep' = [upkeep EXCEPT ![p].pc = pc]
AllFine == UNCHANGED upkeepFaults
UpkeepFault == upkeepFaults < MaxUpkeepFaults /\ upkeepFaults' = upkeepFaults + 1

\* Run: an ensure pass and a cleanup pass at start, and again every day.
WakeManager(p) ==
    /\ upkeep[p].pc = "asleep"
    /\ upkeepRuns < MaxUpkeepRuns
    /\ upkeepRuns' = upkeepRuns + 1
    /\ upkeep' = [upkeep EXCEPT ![p] = [ManagerAsleep EXCEPT !.pc = "lock", !.job = "ensure"]]
    /\ UNCHANGED <<quarter, Tables, EventRows, sessionLock, Histories, upkeepFaults>>

\* After the ensure pass comes the cleanup pass, after that the ticker.
NextJob(c) ==
    [ManagerAsleep EXCEPT !.pc = IF c.job = "ensure" THEN "lock" ELSE "asleep",
                          !.job = IF c.job = "ensure" THEN "cleanup" ELSE "none"]

StepsOnly == UNCHANGED <<quarter, EventRows, upkeepRuns>>

\* Mutant: pool.QueryRow hands the connection, and the lock on it, back to the pool, where
\* the unlock of whoever comes next finds it.
LockAnyway(p) ==
    /\ upkeep[p].pc = "lock"
    /\ upkeep' = [upkeep EXCEPT ![p].pc = IF upkeep[p].job = "ensure" THEN "check" ELSE "list",
                                  ![p].conn = "held", ![p].at = quarter,
                                  ![p].upto = quarter + Lookahead]
    /\ sessionLock' = p
    /\ AllFine
    /\ StepsOnly /\ UNCHANGED <<Tables, Histories>>

\* tryAdvisoryLock on a connection that is kept, and the time of the pass.  Whoever does
\* not get the lock skips the pass.
TryAdvisoryLock(p) ==
    /\ upkeep[p].pc = "lock"
    /\ \/ /\ sessionLock = NoUpkeepPod /\ AllFine
          /\ sessionLock' = p
          /\ upkeep' = [upkeep EXCEPT ![p].pc = IF upkeep[p].job = "ensure" THEN "check" ELSE "list",
                                        ![p].conn = "held", ![p].at = quarter,
                                        ![p].upto = quarter + Lookahead]
       \/ /\ (sessionLock # NoUpkeepPod /\ AllFine) \/ UpkeepFault
          /\ upkeep' = [upkeep EXCEPT ![p] = NextJob(@)]
          /\ UNCHANGED sessionLock
    /\ StepsOnly /\ UNCHANGED <<Tables, Histories>>

\* releaseAdvisoryLock, deferred: on the connection that holds the lock.
ReleaseAdvisoryLock(p) ==
    /\ upkeep[p].pc = "unlock"
    /\ sessionLock' = IF upkeep[p].conn = "held" THEN NoUpkeepPod ELSE sessionLock
    /\ upkeep' = [upkeep EXCEPT ![p] = NextJob(@)]
    /\ AllFine
    /\ StepsOnly /\ UNCHANGED <<Tables, Histories>>

\* EnsurePartitions looks in pg_class for a table of the name, attached or not.
CheckPartition(p) ==
    LET c == upkeep[p]
    IN /\ c.pc = "check"
       /\ c.at < c.upto
       /\ upkeep' = [upkeep EXCEPT ![p] =
            IF c.at \in attached \cup detached THEN [c EXCEPT !.at = @ + 1] ELSE [c EXCEPT !.pc = "create"]]
       /\ AllFine
       /\ StepsOnly /\ UNCHANGED <<Tables, sessionLock, Histories>>

\* CREATE TABLE ... PARTITION OF fails when the table has come to exist, or when the
\* default partition holds rows of the quarter; the rest of the pass is given up.
CreatePartition(p) ==
    LET c == upkeep[p]
    IN /\ c.pc = "create"
       /\ IF c.at \in attached \cup detached \cup inDefault
          THEN UpkeepGoto(p, "unlock") /\ UNCHANGED attached
          ELSE /\ attached' = attached \cup {c.at}
               /\ upkeep' = [upkeep EXCEPT ![p].pc = "check", ![p].at = @ + 1]
       /\ AllFine
       /\ StepsOnly /\ UNCHANGED <<detached, inDefault, sessionLock, Histories>>

EnsureEnds(p) ==
    LET c == upkeep[p]
    IN /\ c.pc = "check"
       /\ c.at = c.upto
       /\ coveredTo' = IF c.upto > coveredTo THEN c.upto ELSE coveredTo
       /\ UpkeepGoto(p, "unlock")
       /\ AllFine
       /\ StepsOnly /\ UNCHANGED <<Tables, sessionLock, dropLost>>

\* Mutant: a partition counts as expired as soon as retention is over for its first events.
ListStarted(p) ==
    /\ upkeep[p].pc = "list"
    /\ upkeep' = [upkeep EXCEPT ![p].pc = "published",
                                  ![p].todo = {q \in attached : q + Retention <= upkeep[p].at}]
    /\ AllFine
    /\ StepsOnly /\ UNCHANGED <<Tables, sessionLock, Histories>>

\* listExpiredPartitions: those whose end is before now - retention.
ListExpired(p) ==
    /\ upkeep[p].pc = "list"
    /\ upkeep' = [upkeep EXCEPT ![p].pc = "published",
                                  ![p].todo = {q \in attached : q + 1 + Retention <= upkeep[p].at}]
    /\ AllFine
    /\ StepsOnly /\ UNCHANGED <<Tables, sessionLock, Histories>>

\* ORDER BY relname: the oldest candidate comes first.
Candidate(p) == CHOOSE q \in upkeep[p].todo : \A r \in upkeep[p].todo : q <= r
Skip(p, q) == upkeep' = [upkeep EXCEPT ![p].pc = "published", ![p].todo = @ \ {q}]

HasUnpublished(p) ==
    /\ upkeep[p].pc = "published"
    /\ IF upkeep[p].todo = {} THEN UpkeepGoto(p, "unlock")
       ELSE IF Candidate(p) \in pendingIn THEN Skip(p, Candidate(p)) ELSE UpkeepGoto(p, "safety")
    /\ AllFine
    /\ StepsOnly /\ UNCHANGED <<Tables, sessionLock, Histories>>

\* isSafeToDrop: sequence numbers grow with the quarters, and an empty partition has none.
IsSafeToDrop(p) ==
    LET q == Candidate(p)
        safe == q \notin pendingIn \cup publishedIn \/ \A r \in pendingIn : q < r
    IN /\ upkeep[p].pc = "safety"
       /\ IF safe THEN UpkeepGoto(p, "detach") ELSE Skip(p, q)
       /\ AllFine
       /\ StepsOnly /\ UNCHANGED <<Tables, sessionLock, Histories>>

\* DetachAndDropPartition, two statements; DETACH fails when another pod was here first.
DetachPartition(p) ==
    LET q == Candidate(p)
    IN /\ upkeep[p].pc = "detach"
       /\ IF q \in attached
          THEN attached' = attached \ {q} /\ detached' = detached \cup {q} /\ UpkeepGoto(p, "drop")
          ELSE Skip(p, q) /\ UNCHANGED <<attached, detached>>
       /\ AllFine
       /\ StepsOnly /\ UNCHANGED <<inDefault, sessionLock, Histories>>

DropTable(p) ==
    LET q == Candidate(p)
    IN /\ upkeep[p].pc = "drop"
       /\ detached' = detached \ {q}
       /\ publishedIn' = IF q \in detached THEN publishedIn \ {q} ELSE publishedIn
       /\ pendingIn' = IF q \in detached THEN pendingIn \ {q} ELSE pendingIn
       /\ dropLost' = (dropLost \/ q \in detached \cap pendingIn)
       /\ Skip(p, q)
       /\ AllFine
       /\ UNCHANGED <<quarter, upkeepRuns, attached, inDefault, sessionLock, coveredTo>>

\* Any statement of a pass may fail: an ensure pass and a listing end with it, a candidate
\* is left for the next day.
StatementFails(p) ==
    /\ upkeep[p].pc \in {"check", "create", "list", "published", "safety", "detach", "drop"}
    /\ upkeep[p].pc = "published" => upkeep[p].todo # {}
    /\ IF upkeep[p].pc \in {"check", "create", "list"} THEN UpkeepGoto(p, "unlock") ELSE Skip(p, Candidate(p))
    /\ UpkeepFault
    /\ StepsOnly /\ UNCHANGED <<Tables, sessionLock, Histories>>

\* The server ends the session that holds the lock; the pass, on other connections, goes on.
LoseLockConnection(p) ==
    /\ upkeep[p].conn = "held"
    /\ upkeep' = [upkeep EXCEPT ![p].conn = "broken"]
    /\ sessionLock' = NoUpkeepPod
    /\ UpkeepFault
    /\ StepsOnly /\ UNCHANGED <<Tables, Histories>>

\* A pod that ends takes its sessions along.
PodEnds(p) ==
    /\ upkeep[p].pc # "asleep"
    /\ upkeep' = [upkeep EXCEPT ![p] = ManagerAsleep]
    /\ sessionLock' = IF sessionLock = p THEN NoUpkeepPod ELSE sessionLock
    /\ UpkeepFault
    /\ StepsOnly /\ UNCHANGED <<Tables, Histories>>

\* A domain transaction inserts an event, and the relay publishes what is there.
InsertEvent ==
    /\ pendingIn' = pendingIn \cup {quarter}
    /\ inDefault' = IF quarter \in attached THEN inDefault ELSE inDefault \cup {quarter}
    /\ UNCHANGED <<quarter, attached, detached, publishedIn, sessionLock, upkeep, Histories,
                   upkeepRuns, upkeepFaults>>

RelayPublishes(q) ==
    /\ q \in pendingIn \ detached
    /\ pendingIn' = pendingIn \ {q}
    /\ publishedIn' = publishedIn \cup {q}
    /\ UNCHANGED <<quarter, Tables, sessionLock, upkeep, Histories, upkeepRuns, upkeepFaults>>

QuarterEnds ==
    /\ quarter < LastQuarter
    /\ quarter' = quarter + 1
    /\ UNCHANGED <<Tables, EventRows, sessionLock, upkeep, Histories, upkeepRuns, upkeepFaults>>

UpkeepNext ==
    \/ \E p \in UpkeepPods :
         \/ WakeManager(p) \/ TryAdvisoryLock(p) \/ ReleaseAdvisoryLock(p)
         \/ CheckPartition(p) \/ CreatePartition(p) \/ EnsureEnds(p)
         \/ ListExpired(p) \/ HasUnpublished(p) \/ IsSafeToDrop(p)
         \/ DetachPartition(p) \/ DropTable(p)
         \/ StatementFails(p) \/ LoseLockConnection(p) \/ PodEnds(p)
    \/ InsertEvent \/ QuarterEnds
    \/ \E q \in Quarters : RelayPublishes(q)

UpkeepSpec == UpkeepInit /\ [][UpkeepNext]_upkeepVars

-----------------------------------------------------------------------------
NeverHeard == [seq |-> 0, at |-> 0]

AuditInit ==
    /\ lastSeen = {}
    /\ heard = [e \in AuditEntities |-> NeverHeard]
    /\ streamSeq = [s \in AuditStreams |-> 0]
    /\ lastStreamSeq = [s \in AuditStreams |-> 0]
    /\ gapGauge = [s \in AuditStreams |-> 0]
    /\ stored = [s \in AuditStreams |-> 0] /\ growth = [s \in AuditStreams |-> 0]
    /\ auditTime = 1

StreamsUnchanged == UNCHANGED <<streamSeq, lastStreamSeq, gapGauge, stored, growth>>

\* checkAndUpdate: the entry of the entity becomes this delivery, in whatever order they
\* come; an event without a number (0) leaves it alone.
CheckAndUpdate(e, seq) ==
    /\ lastSeen' = IF seq <= 0 THEN lastSeen
                   ELSE {x \in lastSeen : x.entity # e} \cup {[entity |-> e, seq |-> seq, at |-> auditTime]}
    /\ heard' = IF seq <= 0 THEN heard ELSE [heard EXCEPT ![e] = [seq |-> seq, at |-> auditTime]]
    /\ StreamsUnchanged /\ UNCHANGED auditTime

\* evictStale, on its ticker.
EvictStale ==
    /\ lastSeen' = {x \in lastSeen : x.at >= auditTime - SequenceTrackerTTL}
    /\ StreamsUnchanged /\ UNCHANGED <<heard, auditTime>>

\* A new consumer knows nothing.
RestartTracker ==
    /\ lastSeen' = {}
    /\ heard' = [e \in AuditEntities |-> NeverHeard]
    /\ StreamsUnchanged /\ UNCHANGED auditTime

TrackerUnchanged == UNCHANGED <<lastSeen, heard, auditTime>>

StoreMessage(s) ==
    /\ streamSeq[s] < MaxSequence /\ stored[s] < MaxSequence
    /\ streamSeq' = [streamSeq EXCEPT ![s] = @ + 1]
    /\ stored' = [stored EXCEPT ![s] = @ + 1]
    /\ TrackerUnchanged /\ UNCHANGED <<lastStreamSeq, gapGauge, growth>>

\* An operator deletes a stream, and it is created again.
RecreateStream(s) ==
    /\ streamSeq[s] > 0
    /\ streamSeq' = [streamSeq EXCEPT ![s] = 0]
    /\ TrackerUnchanged /\ UNCHANGED <<lastStreamSeq, gapGauge, stored, growth>>

\* jetStreamPerStreamSeq: a stream that does not answer is missing, and counts as 0.
CurrentSeq(s, reached) == IF s \in reached THEN streamSeq[s] ELSE 0

\* Mutant: a stream that does not answer keeps its baseline.
CheckReached(reached) ==
    LET told == {s \in reached : lastStreamSeq[s] # 0}
    IN /\ lastStreamSeq' = [s \in AuditStreams |-> IF s \in reached THEN streamSeq[s] ELSE lastStreamSeq[s]]
       /\ gapGauge' = [s \in AuditStreams |->
            IF s \notin told THEN gapGauge[s]
            ELSE IF streamSeq[s] < lastStreamSeq[s] THEN 0 ELSE streamSeq[s] - lastStreamSeq[s]]
       /\ growth' = [s \in AuditStreams |-> IF s \in told THEN stored[s] ELSE growth[s]]
       /\ stored' = [s \in AuditStreams |-> 0]
       /\ TrackerUnchanged /\ UNCHANGED streamSeq

\* ReconciliationCheck: the first look at a stream only sets the baseline, and a number
\* that has gone down counts as no growth.
ReconciliationCheck(reached) ==
    LET current == [s \in AuditStreams |-> CurrentSeq(s, reached)]
        told == {s \in AuditStreams : lastStreamSeq[s] # 0}
    IN /\ lastStreamSeq' = current
       /\ gapGauge' = [s \in AuditStreams |->
            IF s \notin told THEN gapGauge[s]
            ELSE IF current[s] < lastStreamSeq[s] THEN 0 ELSE current[s] - lastStreamSeq[s]]
       /\ growth' = [s \in AuditStreams |-> IF s \in told THEN stored[s] ELSE growth[s]]
       /\ stored' = [s \in AuditStreams |-> 0]
       /\ TrackerUnchanged /\ UNCHANGED streamSeq

AuditTick ==
    /\ auditTime < MaxAuditTime
    /\ auditTime' = auditTime + 1
    /\ StreamsUnchanged /\ UNCHANGED <<lastSeen, heard>>

AuditNext ==
    \/ \E e \in AuditEntities, seq \in 0 .. MaxSequence : CheckAndUpdate(e, seq)
    \/ EvictStale \/ RestartTracker \/ AuditTick
    \/ \E s \in AuditStreams : StoreMessage(s) \/ RecreateStream(s)
    \/ \E reached \in SUBSET AuditStreams : ReconciliationCheck(reached)

AuditSpec == AuditInit /\ [][AuditNext]_auditVars

-----------------------------------------------------------------------------
UpkeepTypeOK ==
    /\ quarter \in 0 .. LastQuarter
    /\ attached \subseteq Quarters /\ detached \subseteq Quarters
    /\ sessionLock \in UpkeepPods \cup {NoUpkeepPod}
    /\ upkeep \in [UpkeepPods ->
         [pc : {"asleep", "lock", "check", "create", "list", "published", "safety", "detach",
                "drop", "unlock"},
          job : {"none", "ensure", "cleanup"}, conn : {"none", "held", "broken"},
          at : Nat, upto : Nat, todo : SUBSET Quarters]]

\* partitionManagerLockID: two pods are at the partitions at once only after the server has
\* ended the session that held the lock of one of them, and a lock is never left behind by
\* a pass that has ended.
UpkeepExclusive ==
    /\ \A p, r \in UpkeepPods :
         p # r /\ Working(p) /\ Working(r) =>
           upkeep[p].conn = "broken" \/ upkeep[r].conn = "broken"
    /\ sessionLock # NoUpkeepPod => Working(sessionLock)

\* EnsurePartitions: the quarters from now on that an ensure pass went through have their
\* partitions, whatever is dropped meanwhile; so no event of theirs is in outbox_default.
QuartersCovered == \A q \in Quarters : quarter <= q /\ q < coveredTo => q \in attached \ inDefault

\* cleanup: however many pods are at it, no event is dropped unpublished, and what is
\* detached or dropped had ended.
DropsPublished == ~dropLost /\ \A q \in detached : q < quarter

UpkeepSafe == UpkeepExclusive /\ QuartersCovered /\ DropsPublished

\* sequenceTracker: the number that the next delivery of an entity is compared with is that
\* of the last one, and it is kept for as long as the entity was heard of within the TTL.
TrackerFollowsDeliveries ==
    /\ \A x \in lastSeen : x.seq = heard[x.entity].seq /\ x.at = heard[x.entity].at
    /\ \A e \in AuditEntities :
         heard[e].seq > 0 /\ heard[e].at >= auditTime - SequenceTrackerTTL =>
           \E x \in lastSeen : x.entity = e

\* ReconciliationCheck: the gauge shows no more than a stream has stored between two checks
\* in a row, whichever checks it missed and however often it was created anew.
GaugeShowsGrowth == \A s \in AuditStreams : 0 <= gapGauge[s] /\ gapGauge[s] <= growth[s]

AuditSafe == TrackerFollowsDeliveries /\ GaugeShowsGrowth

\* partition_manager.go, stream_monitor.go: the upkeep of the outbox and its
\* auditors, side by side.
OutboxKept == UpkeepSafe /\ AuditSafe
=============================================================================
