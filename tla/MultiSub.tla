------------------------------- MODULE MultiSub -------------------------------
(***************************************************************************)
(* The multi-subscription orchestrator for one subscription: the sagas and *)
(* services under internal/domain/multisub/service that keep the binding   *)
(* rows of the database and the users of the Remnawave panel in step.      *)
(*                                                                         *)
(* Every pod runs one handler goroutine for the subscription's events      *)
(* (they share one entity lock), one BindingReconciler and one             *)
(* SyncService.  Database statements and panel calls are steps of their    *)
(* own.  Update writes the whole row, whatever it has become since it was  *)
(* read.  The saga records never influence a step and are left out.        *)
(*                                                                         *)
(* The panel's webhook is relayed as it comes, without a binding id, so    *)
(* the traffic handlers return errMissingBindingID whatever happens and    *)
(* LimitBinding and UnlimitBinding are never reached: a user the panel     *)
(* limits is seen by the SyncService alone.                                *)
(*                                                                         *)
(* The policies of migration 042 show a session without a scope no row,    *)
(* and let it insert none, unless its role bypasses them, which            *)
(* AssertDatabaseRole refuses.  The handlers of cancelled, paused and      *)
(* resumed are platform-scoped; the activation calls the orchestrator with *)
(* the plain context (billing_event_handlers.go:435), and the SyncService  *)
(* and the BindingReconciler run on context.Background()                   *)
(* (wiring_multisub.go:137 and :161).                                      *)
(*                                                                         *)
(* External: the panel, and billing, which publishes the events.           *)
(***************************************************************************)
EXTENDS Integers, FiniteSetsExt

CONSTANTS
    Instances,      \* running instances
    Roles,          \* goroutines a pod runs, a subset of AllRoles
    Specs,          \* bindings the plan calls for (BindingCalculator)
    MaxBindings,    \* bound on the rows ever created
    Visibility,     \* whether unscoped sessions see rows, by deployment
    Budget,         \* bounds by kind, see Kinds
    MaxEvents       \* bound on all kinds together

AllRoles == {"handler", "reconciler", "sync"}

\* Panel calls refused, panel answers lost, database writes that fail, crashes,
\* claims that outlive AbandonedClaimThreshold in living hands; then sync passes,
\* pauses and traffic limits.
Kinds == {"refused", "lost", "db", "crash", "slow", "sync", "pause", "traffic"}

ASSUME MultiSubAssumption ==
    /\ Roles \subseteq AllRoles
    /\ Specs \in Nat \ {0}
    /\ MaxBindings \in Nat
    /\ Specs <= MaxBindings
    /\ Visibility \subseteq BOOLEAN
    /\ Budget \in [Kinds -> Nat]
    /\ MaxEvents \in Nat

Bindings == 1 .. MaxBindings
Threads == Instances \X Roles

VARIABLES
    sub,        \* billing's subscription
    inbox,      \* kinds of the events not settled
    visible,    \* the deployment's role bypasses the row policies
    rows,       \* remnawave_bindings: status and whether remnawave_uuid is set
    panel,      \* the Remnawave user of each binding
    pc,         \* where a goroutine stands
    ev,         \* the event or pass it works on
    listed,     \* bindings a sync pass has still to take
    todo,       \* bindings it has read and not finished with
    mem,        \* its copies of their aggregates
    step,       \* the spec Provision is at
    old,        \* claims older than AbandonedClaimThreshold
    done,       \* history: events whose handler returned nil
    overlap,    \* history: bindings written while another goroutine held a copy
    upset,      \* history: bindings that met a lost answer or a crash
    budget      \* faults and triggers that may still happen

dbVars == <<visible, rows, old, overlap>>
threadVars == <<pc, ev, listed, todo, mem, step>>
vars == <<sub, inbox, visible, rows, panel, pc, ev, listed, todo, mem, step, old, done,
          overlap, upset, budget>>

Row(st, uuid) == [st |-> st, uuid |-> uuid]
NoRow == Row("none", FALSE)

\* A subscription just activated, or one provisioned before the policies came, for
\* its plan or a larger one it had then.
Init ==
    /\ sub = "active"
    /\ visible \in Visibility
    /\ \E kept \in {{}} \cup {1 .. n : n \in Specs .. MaxBindings} :
        /\ visible => kept = {}
        /\ inbox = IF kept = {} THEN {"activated"} ELSE {}
        /\ done = IF kept = {} THEN {} ELSE {"activated"}
        /\ rows = [b \in Bindings |-> IF b \in kept THEN Row("active", TRUE) ELSE NoRow]
        /\ panel = [b \in Bindings |-> IF b \in kept THEN "enabled" ELSE "none"]
    /\ pc = [t \in Threads |-> "idle"]
    /\ ev = [t \in Threads |-> "none"]
    /\ listed = [t \in Threads |-> {}]
    /\ todo = [t \in Threads |-> {}]
    /\ mem = [t \in Threads |-> [b \in Bindings |-> NoRow]]
    /\ step = [t \in Threads |-> 0]
    /\ old = {}
    /\ overlap = {}
    /\ upset = {}
    /\ budget = Budget

EventsLeft == MapThenSumSet(LAMBDA k : Budget[k] - budget[k], Kinds) < MaxEvents

\* Something of kind k happens, to the bindings of S.
Spend(k, S) ==
    /\ budget[k] > 0
    /\ EventsLeft
    /\ budget' = [budget EXCEPT ![k] = @ - 1]
    /\ upset' = upset \cup S
NoFault == UNCHANGED <<budget, upset>>

With(st) == {b \in Bindings : rows[b].st = st}
OnPanel(b) == panel[b] \in {"enabled", "disabled", "limited"}
Cur(t) == Min(todo[t])

-----------------------------------------------------------------------------
(* The aggregate: bindingTransitions and what the methods make of a copy.   *)

bindingTransitions ==
    [none          |-> {"pending"},
     pending       |-> {"active", "failed"},
     active        |-> {"limited", "disabled", "deprovisioned", "failed"},
     limited       |-> {"active", "disabled", "deprovisioned", "failed"},
     disabled      |-> {"active", "deprovisioned"},
     failed        |-> {"pending", "reconciling", "deprovisioned"},
     reconciling   |-> {"failed", "deprovisioned"},
     deprovisioned |-> {}]

transitionTo(r, st) == IF st \in bindingTransitions[r.st] THEN Row(st, r.uuid) ELSE r

\* The copy after a successful panel call, by operation.
Success(k, r) ==
    CASE k = "cancelled" -> transitionTo(r, "deprovisioned")
      [] k = "paused"    -> transitionTo(r, "disabled")
      [] k = "resumed"   -> transitionTo(r, "active")
      [] k = "reconcile" -> Row("failed", FALSE)

\* What the call makes of the user.
Effect(k) ==
    CASE k \in {"cancelled", "reconcile"} -> "deleted"
      [] k = "paused" -> "disabled"
      [] k = "resumed" -> "enabled"

\* reconcileStatus.  The adapter reports a limited user as expired.
SyncStatus(r, user) ==
    CASE user = "limited" -> transitionTo(r, "disabled")
      [] user = "disabled" /\ r.st = "active" -> transitionTo(r, "disabled")
      [] user = "enabled" /\ r.st = "disabled" -> transitionTo(r, "active")
      [] OTHER -> r

-----------------------------------------------------------------------------
(* Ends of an operation and database writes.                                *)

Idle(t) ==
    /\ pc' = [pc EXCEPT ![t] = "idle"]
    /\ ev' = [ev EXCEPT ![t] = "none"]
    /\ listed' = [listed EXCEPT ![t] = {}]
    /\ todo' = [todo EXCEPT ![t] = {}]
    /\ mem' = [mem EXCEPT ![t] = [b \in Bindings |-> NoRow]]
    /\ step' = [step EXCEPT ![t] = 0]

\* The handler returns nil and its event is acked.
Return(t) ==
    /\ Idle(t)
    /\ done' = IF t[2] = "handler" THEN done \cup {ev[t]} ELSE done
    /\ UNCHANGED inbox

\* It returns an error: the event is delivered again, or dead-lettered after
\* MaxMessageRetries.
ReturnError(t) ==
    /\ Idle(t)
    /\ inbox' \in {inbox, inbox \cup {ev[t]}}
    /\ UNCHANGED done

\* The goroutine is finished with binding b and goes on with the next, at l.
Finished(t, b, l) ==
    IF todo[t] \subseteq {b} /\ listed[t] = {}
    THEN Return(t)
    ELSE /\ pc' = [pc EXCEPT ![t] = IF listed[t] = {} THEN l ELSE "get"]
         /\ todo' = [todo EXCEPT ![t] = @ \ {b}]
         /\ UNCHANGED <<ev, listed, mem, step, inbox, done>>

\* rows' differs from rows in S, written by t.
WriteRows(t, S, new) ==
    /\ rows' = new
    /\ old' = old \ S
    /\ overlap' = overlap \cup {b \in S : \E u \in Threads : u # t /\ b \in todo[u]}
    /\ UNCHANGED visible

Update(t, b) == WriteRows(t, {b}, [rows EXCEPT ![b] = mem[t][b]])

\* The bindings of S are read into t's memory and worked on from l.
Hold(t, S, new, l) ==
    /\ todo' = [todo EXCEPT ![t] = S]
    /\ mem' = [mem EXCEPT ![t] = new]
    /\ pc' = [pc EXCEPT ![t] = l]
    /\ UNCHANGED <<ev, listed, step, inbox, done>>

Goto(t, l) ==
    /\ pc' = [pc EXCEPT ![t] = l]
    /\ UNCHANGED <<ev, listed, todo, mem, step, inbox, done>>

-----------------------------------------------------------------------------
(* Events: handleMessage hands one to the orchestrator.                     *)

Take(t, e) ==
    /\ pc[t] = "idle"
    /\ e \in inbox
    /\ t[2] = "handler"
    /\ inbox' = inbox \ {e}
    /\ ev' = [ev EXCEPT ![t] = e]
    /\ pc' = [pc EXCEPT ![t] = "read"]
    /\ UNCHANGED <<sub, panel, listed, todo, mem, step, dbVars, done, upset, budget>>

\* A read fails, or the reconciler's claiming transaction.
ReadError(t) ==
    /\ pc[t] \in {"read", "guard", "pending", "list", "claim"}
    /\ Spend("db", {})
    /\ IF pc[t] = "claim" THEN Return(t) ELSE ReturnError(t)
    /\ UNCHANGED <<sub, panel, dbVars>>

\* OnSubscriptionActivated: bindings it sees make the event a duplicate.
CheckExisting(t) ==
    /\ pc[t] = "read" /\ ev[t] = "activated"
    /\ IF visible /\ With("active") # {} THEN Return(t) ELSE Goto(t, "guard")
    /\ UNCHANGED <<sub, panel, dbVars>> /\ NoFault

\* Mutant: a subscription that is not found is taken for a terminal one.
GuardMissingAcked(t) ==
    /\ pc[t] = "guard"
    /\ \/ (~visible \/ sub = "cancelled") /\ Return(t)
       \/ /\ visible /\ sub # "cancelled"
          /\ pc' = [pc EXCEPT ![t] = "create"]
          /\ step' = [step EXCEPT ![t] = 1]
          /\ UNCHANGED <<ev, listed, todo, mem, inbox, done>>
    /\ UNCHANGED <<sub, panel, dbVars>> /\ NoFault

\* Provision: the subscription must be found and not be terminal.
GuardSubscription(t) ==
    /\ pc[t] = "guard"
    /\ \/ ~visible /\ ReturnError(t)
       \/ visible /\ sub = "cancelled" /\ Return(t)
       \/ /\ visible /\ sub # "cancelled"
          /\ pc' = [pc EXCEPT ![t] = "create"]
          /\ step' = [step EXCEPT ![t] = 1]
          /\ UNCHANGED <<ev, listed, todo, mem, inbox, done>>
    /\ UNCHANGED <<sub, panel, dbVars>> /\ NoFault

CreateRow(t) ==
    /\ pc[t] = "create"
    /\ visible
    /\ With("none") # {}
    /\ LET b == Min(With("none"))
           new == Row("pending", FALSE)
       IN  /\ WriteRows(t, {b}, [rows EXCEPT ![b] = new])
           /\ Hold(t, {b}, [mem[t] EXCEPT ![b] = new], "user")
    /\ UNCHANGED <<sub, panel>> /\ NoFault

\* The insert fails, as it does wherever the policies hold (migration 044).
CreateRowError(t) ==
    /\ pc[t] = "create"
    /\ IF visible THEN Spend("db", {}) ELSE NoFault
    /\ ReturnError(t)
    /\ UNCHANGED <<sub, panel, dbVars>>

CreateUser(t) ==
    /\ pc[t] = "user"
    /\ panel' = [panel EXCEPT ![Cur(t)] = "enabled"]
    /\ Hold(t, todo[t], [mem[t] EXCEPT ![Cur(t)] = Row("active", TRUE)], "persist")
    /\ UNCHANGED <<sub, dbVars>> /\ NoFault

CreateUserError(t) ==
    /\ pc[t] = "user"
    /\ \/ Spend("refused", {}) /\ UNCHANGED panel
       \/ Spend("lost", todo[t]) /\ panel' = [panel EXCEPT ![Cur(t)] = "enabled"]
    /\ Hold(t, todo[t], [mem[t] EXCEPT ![Cur(t)] = Row("failed", FALSE)], "failure")
    /\ UNCHANGED <<sub, dbVars>>

\* The compensating Update; its error is only logged.
PersistFailure(t) ==
    /\ pc[t] = "failure"
    /\ \/ Update(t, Cur(t)) /\ NoFault
       \/ UNCHANGED dbVars /\ Spend("db", {})
    /\ ReturnError(t)
    /\ UNCHANGED <<sub, panel>>

PersistProvisioned(t) ==
    /\ pc[t] = "persist"
    /\ Update(t, Cur(t))
    /\ IF step[t] = Specs
       THEN Return(t)
       ELSE /\ pc' = [pc EXCEPT ![t] = "create"]
            /\ step' = [step EXCEPT ![t] = @ + 1]
            /\ todo' = [todo EXCEPT ![t] = {}]
            /\ UNCHANGED <<ev, listed, mem, inbox, done>>
    /\ UNCHANGED <<sub, panel>> /\ NoFault

PersistProvisionedError(t) ==
    /\ pc[t] = "persist"
    /\ Spend("db", {})
    /\ Goto(t, "compensate")
    /\ UNCHANGED <<sub, panel, dbVars>>

\* Mutant: the user of a failed transaction is not deleted.
CompensateNothing(t) ==
    /\ pc[t] = "compensate"
    /\ ReturnError(t)
    /\ UNCHANGED <<sub, panel, dbVars>> /\ NoFault

\* compensateDeleteUser, all its attempts.
CompensateDeleteUser(t) ==
    /\ pc[t] = "compensate"
    /\ \/ panel' = [panel EXCEPT ![Cur(t)] = "deleted"] /\ NoFault
       \/ UNCHANGED panel /\ Spend("refused", todo[t])
    /\ ReturnError(t)
    /\ UNCHANGED <<sub, dbVars>>

\* OnSubscriptionCancelled: active bindings, or else pending ones.
CheckActive(t) ==
    /\ pc[t] = "read" /\ ev[t] = "cancelled"
    /\ Goto(t, IF With("active") = {} THEN "pending" ELSE "list")
    /\ UNCHANGED <<sub, panel, dbVars>> /\ NoFault

\* cancelPendingBindings: every pending copy is marked failed and written.
ReadPending(t) ==
    /\ pc[t] = "pending"
    /\ IF With("pending") = {}
       THEN Return(t)
       ELSE Hold(t, With("pending"),
                 [b \in Bindings |-> transitionTo(rows[b], "failed")], "mark")
    /\ UNCHANGED <<sub, panel, dbVars>> /\ NoFault

\* The bindings Deprovision, DisableAll and EnableAll work on.
Targets(t) ==
    CASE pc[t] = "list" -> With("active")
      [] ev[t] = "paused" -> {b \in With("active") : rows[b].uuid}
      [] ev[t] = "resumed" -> {b \in With("disabled") : rows[b].uuid}

ReadTargets(t) ==
    /\ \/ pc[t] = "list"
       \/ pc[t] = "read" /\ ev[t] \in {"paused", "resumed"}
    /\ IF Targets(t) = {} THEN Return(t) ELSE Hold(t, Targets(t), rows, "call")
    /\ UNCHANGED <<sub, panel, dbVars>> /\ NoFault

-----------------------------------------------------------------------------
(* A panel call for the current binding and the write that records it.      *)

GatewayOk(t) ==
    /\ pc[t] = "call"
    /\ OnPanel(Cur(t))
    /\ panel' = [panel EXCEPT ![Cur(t)] = Effect(ev[t])]
    /\ Hold(t, todo[t], [mem[t] EXCEPT ![Cur(t)] = Success(ev[t], @)], "write")
    /\ UNCHANGED <<sub, dbVars>> /\ NoFault

\* Mutant: a failing call is taken for a success.
GatewayErrorIgnored(t) ==
    /\ pc[t] = "call"
    /\ OnPanel(Cur(t)) /\ UNCHANGED panel /\ Spend("refused", {})
    /\ Hold(t, todo[t], [mem[t] EXCEPT ![Cur(t)] = Success(ev[t], @)], "write")
    /\ UNCHANGED <<sub, dbVars>>

\* The panel refuses, does not know the user (404), or its answer is lost.
\* MarkFailed is illegal for a disabled binding, which is then left alone.
GatewayError(t) ==
    /\ pc[t] = "call"
    /\ \/ ~OnPanel(Cur(t)) /\ UNCHANGED panel /\ NoFault
       \/ OnPanel(Cur(t)) /\ UNCHANGED panel /\ Spend("refused", {})
       \/ /\ OnPanel(Cur(t))
          /\ panel' = [panel EXCEPT ![Cur(t)] = Effect(ev[t])]
          /\ Spend("lost", {Cur(t)})
    /\ IF ev[t] = "resumed"
       THEN Finished(t, Cur(t), "call")
       ELSE Hold(t, todo[t], [mem[t] EXCEPT ![Cur(t)] = transitionTo(@, "failed")], "write")
    /\ UNCHANGED <<sub, dbVars>>

\* persistAndPublish and its like: an error is logged and the loop goes on.
Write(t) ==
    /\ pc[t] \in {"write", "mark"}
    /\ \/ Update(t, Cur(t)) /\ NoFault
       \/ UNCHANGED dbVars /\ Spend("db", {})
    /\ Finished(t, Cur(t), IF pc[t] = "mark" THEN "mark" ELSE "call")
    /\ UNCHANGED <<sub, panel>>

-----------------------------------------------------------------------------
(* BindingReconciler.                                                       *)

ResetAbandoned(t) ==
    /\ t[2] = "reconciler" /\ pc[t] = "idle"
    /\ \/ LET S == {b \in old : visible /\ rows[b].st = "reconciling"}
          IN  /\ WriteRows(t, S, [b \in Bindings |->
                                    IF b \in S THEN Row("failed", rows[b].uuid) ELSE rows[b]])
              /\ NoFault
       \/ UNCHANGED dbVars /\ Spend("db", {})
    /\ pc' = [pc EXCEPT ![t] = "claim"]
    /\ ev' = [ev EXCEPT ![t] = "reconcile"]
    /\ UNCHANGED <<sub, inbox, panel, listed, todo, mem, step, done>>

\* One transaction: SELECT ... FOR UPDATE SKIP LOCKED and the claims.
Claim(t) ==
    LET S == {b \in With("failed") : visible /\ rows[b].uuid}
        new == [b \in Bindings |-> IF b \in S THEN transitionTo(rows[b], "reconciling")
                                              ELSE rows[b]]
    IN  /\ pc[t] = "claim"
        /\ WriteRows(t, S, new)
        /\ IF S = {} THEN Return(t) ELSE Hold(t, S, new, "call")
        /\ UNCHANGED <<sub, panel>> /\ NoFault

\* A claim passes AbandonedClaimThreshold: its reconciler died, or is slow.
Age(b) ==
    /\ rows[b].st = "reconciling"
    /\ b \notin old
    /\ old' = old \cup {b}
    /\ UNCHANGED <<sub, inbox, visible, rows, panel, threadVars, done, overlap>>

InHands(b) == \E t \in Threads : ev[t] = "reconcile" /\ b \in todo[t]
Abandon(b) == ~InHands(b) /\ Age(b) /\ NoFault
Outlive(b) == InHands(b) /\ Age(b) /\ Spend("slow", {})

-----------------------------------------------------------------------------
(* SyncService: syncAll lists the active bindings and SyncBinding takes them *)
(* one by one; what is listed may have changed when its turn comes.          *)

ListForSync(t) ==
    /\ t[2] = "sync" /\ pc[t] = "idle"
    /\ visible
    /\ With("active") # {}
    /\ Spend("sync", {})
    /\ ev' = [ev EXCEPT ![t] = "sync"]
    /\ listed' = [listed EXCEPT ![t] = With("active")]
    /\ pc' = [pc EXCEPT ![t] = "get"]
    /\ UNCHANGED <<sub, inbox, panel, dbVars, todo, mem, step, done>>

GetByID(t) ==
    LET b == Min(listed[t])
    IN  /\ pc[t] = "get"
        /\ listed' = [listed EXCEPT ![t] = @ \ {b}]
        /\ todo' = [todo EXCEPT ![t] = {b}]
        /\ mem' = [mem EXCEPT ![t][b] = rows[b]]
        /\ pc' = [pc EXCEPT ![t] = "fetch"]
        /\ UNCHANGED <<sub, inbox, panel, dbVars, ev, step, done>> /\ NoFault

GetUser(t) ==
    /\ pc[t] = "fetch"
    /\ IF mem[t][Cur(t)].uuid /\ OnPanel(Cur(t))
       THEN Hold(t, todo[t], [mem[t] EXCEPT ![Cur(t)] = SyncStatus(@, panel[Cur(t)])], "write")
       ELSE Finished(t, Cur(t), "get")
    /\ UNCHANGED <<sub, panel, dbVars>> /\ NoFault

\* Reading the binding or its user fails: the pass goes on with the next.
GetUserError(t) ==
    /\ pc[t] = "fetch"
    /\ Spend("refused", {}) \/ Spend("db", {})
    /\ Finished(t, Cur(t), "get")
    /\ UNCHANGED <<sub, panel, dbVars>>

-----------------------------------------------------------------------------
(* Environment.                                                             *)

\* Billing publishes the event with the subscription's change of status.
Bill(from, to, kind) ==
    /\ sub \in from
    /\ sub' = to
    /\ inbox' = inbox \cup {kind}
    /\ UNCHANGED <<panel, threadVars, dbVars, done>>

Cancel == Bill({"active", "paused"}, "cancelled", "cancelled") /\ NoFault
Pause == Bill({"active"}, "paused", "paused") /\ Spend("pause", {})
Resume == Bill({"paused"}, "active", "resumed") /\ NoFault

\* The panel limits a user, or the user's traffic cycle restarts.
Traffic(b, from, to) ==
    /\ panel[b] = from
    /\ panel' = [panel EXCEPT ![b] = to]
    /\ UNCHANGED <<sub, inbox, threadVars, dbVars, done>>

TrafficExceeded(b) == Traffic(b, "enabled", "limited") /\ Spend("traffic", {})
TrafficReset(b) == Traffic(b, "limited", "enabled") /\ NoFault

\* A pod dies.  The idempotency keys of its events survive, so they are lost.
Crash(p) ==
    LET Dead == {t \in Threads : t[1] = p}
    IN  /\ Spend("crash", UNION {todo[t] : t \in Dead})
        /\ pc' = [t \in Threads |-> IF t \in Dead THEN "idle" ELSE pc[t]]
        /\ ev' = [t \in Threads |-> IF t \in Dead THEN "none" ELSE ev[t]]
        /\ listed' = [t \in Threads |-> IF t \in Dead THEN {} ELSE listed[t]]
        /\ todo' = [t \in Threads |-> IF t \in Dead THEN {} ELSE todo[t]]
        /\ mem' = [t \in Threads |-> IF t \in Dead THEN [b \in Bindings |-> NoRow] ELSE mem[t]]
        /\ step' = [t \in Threads |-> IF t \in Dead THEN 0 ELSE step[t]]
        /\ UNCHANGED <<sub, inbox, panel, dbVars, done>>

-----------------------------------------------------------------------------
EventStep(t) ==
    \/ \E e \in inbox : Take(t, e)
    \/ ReadError(t) \/ CheckExisting(t) \/ GuardSubscription(t)
    \/ CreateRow(t) \/ CreateRowError(t) \/ CreateUser(t) \/ CreateUserError(t)
    \/ PersistFailure(t) \/ PersistProvisioned(t) \/ PersistProvisionedError(t)
    \/ CompensateDeleteUser(t)
    \/ CheckActive(t) \/ ReadPending(t) \/ ReadTargets(t)

BackgroundStep(t) ==
    \/ ResetAbandoned(t) \/ Claim(t)
    \/ GetByID(t) \/ GetUser(t) \/ GetUserError(t)

ThreadStep(t) ==
    \/ EventStep(t) \/ BackgroundStep(t)
    \/ GatewayOk(t) \/ GatewayError(t) \/ Write(t)

Next ==
    \/ \E t \in Threads : ThreadStep(t) \/ ListForSync(t)
    \/ \E b \in Bindings : Abandon(b) \/ Outlive(b) \/ TrafficExceeded(b) \/ TrafficReset(b)
    \/ Cancel \/ Pause \/ Resume
    \/ \E p \in Instances : Crash(p)

Spec == Init /\ [][Next]_vars

\* Goroutines and tickers run on, and a claim nobody works on grows old.
Fairness ==
    /\ \A t \in Threads : WF_vars(ThreadStep(t))
    /\ \A b \in Bindings : WF_vars(Abandon(b))

FairSpec == Spec /\ Fairness

-----------------------------------------------------------------------------
\* A binding the database shows as deprovisioned has no user on the panel, even
\* when goroutines of several pods overwrite each other's rows.
DeprovisionedIsGone ==
    \A b \in Bindings : rows[b].st = "deprovisioned" => panel[b] = "deleted"

\* No ghost users: refused calls and failing database writes never leave a panel
\* user that no row refers to.  Only a lost answer, a crash between two steps, a
\* compensation that exhausts its attempts or an overwritten row does.
TrackedUsers ==
    \A b \in Bindings \ (overlap \cup upset) :
        OnPanel(b) => rows[b].uuid \/ \E t \in Threads : b \in todo[t]

\* An activation is never acked for nothing: once it is, the plan's bindings have
\* users, through pauses, resumes, sync passes and traffic limits, and where the
\* policies hide its rows the event ends in the dead letters.  Not after a refused
\* call, a failed write or a crash: the retry of a partly done provisioning finds an
\* active binding, takes the event for a duplicate and acks it.
ActivatedMeansProvisioned ==
    /\ "activated" \in done /\ sub = "active"
    /\ \A k \in {"refused", "lost", "db", "crash"} : budget[k] = Budget[k]
    => Cardinality({b \in Bindings : rows[b].uuid}) >= Specs

\* module.go, OnSubscriptionActivated: "It provisions all needed Remnawave bindings."  A
\* subscription whose event was published, and that stays active, gets them.
ActivationProvisions ==
    sub = "active" ~> sub # "active" \/ \E b \in Bindings : rows[b].uuid

\* A binding that failed, or whose failed deprovisioning is being retried, and its
\* user still on the panel.
Orphan(b) == rows[b].st \in {"failed", "reconciling"} /\ rows[b].uuid /\ OnPanel(b)

\* module.go, OnSubscriptionCancelled: "deprovisions all Remnawave bindings for
\* the subscription".  Once the event is acked, and no event or goroutine is left
\* to act, no user of the subscription is on the panel.
CancelledMeansDeprovisioned ==
    /\ "cancelled" \in done
    /\ inbox = {}
    /\ \A t \in Threads : pc[t] = "idle"
    /\ \A b \in Bindings : ~Orphan(b)
    => \A b \in Bindings : ~OnPanel(b)
=============================================================================
