-------------------------------- MODULE Billing --------------------------------
(***************************************************************************)
(* The billing domain: BillingService (internal/domain/billing/service)    *)
(* over the subscription and invoice rows, and the SubscriptionScheduler   *)
(* of every pod.                                                           *)
(*                                                                         *)
(* A service operation is one transaction that locks the row it changes    *)
(* (GetByIDForUpdate), so it is one step; an operation that returns an     *)
(* error leaves nothing behind and is not a step.  Two things are not      *)
(* atomic: CreateSubscription looks for other subscriptions of the user    *)
(* without locking anything, and the scheduler lists the due rows before   *)
(* it renews or expires them one by one.                                   *)
(*                                                                         *)
(* Subscription s is the one checkout request s creates.  Time is counted  *)
(* in the smallest billing interval.  MarkPastDue, Invoice.MarkFailed and  *)
(* Invoice.Refund are called by no service and past_due, failed and        *)
(* refunded are never reached.  Hooks may veto an operation: it is then    *)
(* not a step.                                                             *)
(***************************************************************************)
EXTENDS Integers, Sequences

CONSTANTS
    Subs,           \* checkout requests, and the subscriptions they create
    Users, Plans,
    Interval,       \* length of each plan's billing interval
    Price,          \* BasePrice of each plan
    Pods,           \* running instances, each with a scheduler
    RowsVisible,    \* a session without a tenant scope sees and writes rows
    MaxClock,       \* bound on the time
    MaxFaults,      \* bound on the renewals that fail for a transient reason
    MaxPlanChanges  \* bound on plan edits, upgrades, downgrades and pauses

ASSUME BillingAssumption ==
    /\ Interval \in [Plans -> Nat \ {0}]
    /\ Price \in [Plans -> Nat \ {0}]
    /\ RowsVisible \in BOOLEAN
    /\ MaxClock \in Nat /\ MaxFaults \in Nat /\ MaxPlanChanges \in Nat

VARIABLES
    clock,
    planActive,     \* plans that are for sale
    subs,           \* billing.subscriptions
    invs,           \* billing.invoices of each subscription, oldest first
    flow,           \* checkout requests: what the eligibility check let through
    sched,          \* scheduler of each pod: rows listed and the row it failed to renew
    excuses,        \* history: why a renewal of a row may have failed
    faults, edits   \* bounds

billingVars == <<clock, planActive, subs, invs, flow, sched, excuses, faults, edits>>

NoPlan == "no plan"
NoSubscription == [st |-> "none"]

Statuses == {"trial", "active", "past_due", "cancelled", "expired", "paused"}
Live == {"trial", "active", "past_due", "paused"}

validTransitions ==
    [trial     |-> {"active", "cancelled", "expired"},
     active    |-> {"past_due", "cancelled", "paused", "expired"},
     past_due  |-> {"active", "cancelled", "expired"},
     paused    |-> {"active", "cancelled", "expired"},
     cancelled |-> {},
     expired   |-> {}]

\* NewBillingPeriod: an interval of the plan from now.
addInterval(t, p) == t + Interval[p]

NewSubscription(u, p) ==
    [st |-> "trial", user |-> u, plan |-> p, pending |-> NoPlan,
     start |-> clock, end |-> addInterval(clock, p), len |-> Interval[p]]

NewInvoice(kind, p, start) == [kind |-> kind, plan |-> p, start |-> start, st |-> "draft"]

Exists(s) == subs[s].st # "none"

CanTransitionTo(s, st) == Exists(s) /\ st \in validTransitions[subs[s].st]

\* The exclusion constraint uq_subs_user_plan_no_overlap admits row for s.
NoOverlap(s, row) ==
    \A t \in Subs \ {s} :
        ~ /\ subs[t].st \in Live /\ row.st \in Live
          /\ subs[t].user = row.user /\ subs[t].plan = row.plan
          /\ subs[t].start < row.end /\ row.start < subs[t].end

\* UpdateSubscription, the SQL statement, does not set plan_id.
UpdateSubscription(s, row) == [row EXCEPT !.plan = subs[s].plan]

\* The pods whose scheduler has the row listed, and a write behind their backs.
HeldBy(s) == {d \in Pods : s \in sched[d].todo}
Excused(s, holders) ==
    IF holders = {} THEN excuses ELSE excuses \cup {<<s, "overtaken">>}

\* SubscriptionRepository.Update by someone other than a scheduler.
Save(s, row) ==
    /\ NoOverlap(s, UpdateSubscription(s, row))
    /\ subs' = [subs EXCEPT ![s] = UpdateSubscription(s, row)]
    /\ excuses' = Excused(s, HeldBy(s))

AppendInvoice(s, inv) == invs' = [invs EXCEPT ![s] = Append(@, inv)]

TransitionTo(s, st) ==
    /\ CanTransitionTo(s, st)
    /\ Save(s, [subs[s] EXCEPT !.st = st])
    /\ UNCHANGED <<clock, planActive, invs, flow, sched, faults>>

-----------------------------------------------------------------------------
BillingInit ==
    /\ clock = 0
    /\ planActive = Plans
    /\ subs = [s \in Subs |-> NoSubscription]
    /\ invs = [s \in Subs |-> << >>]
    /\ flow = [s \in Subs |-> [pc |-> "idle"]]
    /\ sched = [d \in Pods |-> [todo |-> {}, failed |-> {}]]
    /\ excuses = {}
    /\ faults = 0
    /\ edits = 0

Tick ==
    /\ clock < MaxClock
    /\ clock' = clock + 1
    /\ UNCHANGED <<planActive, subs, invs, flow, sched, excuses, faults, edits>>

\* An administrator takes a plan off sale (Plan.Deactivate).
DeactivatePlan(p) ==
    /\ p \in planActive
    /\ edits < MaxPlanChanges
    /\ edits' = edits + 1
    /\ planActive' = planActive \ {p}
    /\ UNCHANGED <<clock, subs, invs, flow, sched, excuses, faults>>

\* CheckoutEligibility.Check; prices are positive and the user's country is allowed.
Eligible(u, p) ==
    /\ p \in planActive
    /\ \A t \in Subs : subs[t].st \in {"trial", "active"} => subs[t].user # u

\* CreateSubscription reads the plan and the user's subscriptions, and the check lets
\* the request through.
CheckEligibility(s, u, p) ==
    /\ flow[s].pc = "idle"
    /\ Eligible(u, p)
    /\ flow' = [flow EXCEPT ![s] = [pc |-> "insert", user |-> u, plan |-> p]]
    /\ UNCHANGED <<clock, planActive, subs, invs, sched, excuses, faults, edits>>

\* ... and inserts the subscription and its first invoice, or fails.
CreateSubscription(s) ==
    /\ flow[s].pc = "insert"
    /\ LET row == NewSubscription(flow[s].user, flow[s].plan)
       IN \/ /\ NoOverlap(s, row)
             /\ subs' = [subs EXCEPT ![s] = row]
             /\ AppendInvoice(s, NewInvoice("first", row.plan, row.start))
             /\ flow' = [flow EXCEPT ![s] = [pc |-> "created"]]
          \/ /\ ~NoOverlap(s, row)
             /\ flow' = [flow EXCEPT ![s] = [pc |-> "failed"]]
             /\ UNCHANGED <<subs, invs>>
    /\ UNCHANGED <<clock, planActive, sched, excuses, faults, edits>>

CancelSubscription(s) == TransitionTo(s, "cancelled") /\ UNCHANGED edits

Edit == edits < MaxPlanChanges /\ edits' = edits + 1

PauseSubscription(s) == Edit /\ TransitionTo(s, "paused")

ResumeSubscription(s) == Edit /\ TransitionTo(s, "active")

\* Invoice.CanTransitionTo: a draft is made pending and then paid.
Payable(s, i) == i \in DOMAIN invs[s] /\ invs[s][i].st \in {"draft", "pending"}

PayInvoice(s, i) ==
    /\ Payable(s, i)
    /\ invs' = [invs EXCEPT ![s][i].st = "paid"]
    /\ \/ /\ subs[s].st \in {"trial", "past_due"}
          /\ Save(s, [subs[s] EXCEPT !.st = "active"])
       \/ /\ subs[s].st \notin {"trial", "past_due"}
          /\ UNCHANGED <<subs, excuses>>
    /\ UNCHANGED <<clock, planActive, flow, sched, faults, edits>>

\* ProrateCalculator: what is left of the current period at the old price, and
\* the new period, which starts now, at the new price less that credit.
UpgradeCredit(s) ==
    LET left == IF subs[s].end > clock THEN subs[s].end - clock ELSE 0
    IN (Price[subs[s].plan] * left) \div (subs[s].end - subs[s].start)

UpgradeCost(s, p) ==
    IF Price[p] > UpgradeCredit(s) THEN Price[p] - UpgradeCredit(s) ELSE 0

CanUpgrade(s, p) == p \in planActive /\ subs[s].st = "active" /\ p # subs[s].plan

\* Subscription.Upgrade: a new period from now, and a deferred downgrade is dropped.
Upgraded(s, p) ==
    [subs[s] EXCEPT !.plan = p, !.start = clock, !.pending = NoPlan,
                    !.end = addInterval(clock, p), !.len = Interval[p]]

UpgradeSubscription(s, p) ==
    /\ Edit
    /\ CanUpgrade(s, p)
    /\ Save(s, Upgraded(s, p))
    /\ \/ /\ UpgradeCost(s, p) > 0
          /\ AppendInvoice(s, NewInvoice("upgrade", p, clock))
       \/ /\ UpgradeCost(s, p) = 0
          /\ UNCHANGED invs
    /\ UNCHANGED <<clock, planActive, flow, sched, faults>>

\* Subscription.Downgrade: kept in pending_plan_id until the next renewal.
CanDowngrade(s, p) == subs[s].st = "active" /\ p # subs[s].plan
Downgraded(s, p) == [subs[s] EXCEPT !.pending = p]

DowngradeSubscription(s, p) ==
    /\ Edit
    /\ CanDowngrade(s, p)
    /\ Save(s, Downgraded(s, p))
    /\ UNCHANGED <<clock, planActive, invs, flow, sched, faults>>

-----------------------------------------------------------------------------
\* Mutant: Period.Next() counts from the period's start.
RenewedFromStart(s) ==
    [subs[s] EXCEPT !.end = subs[s].start + subs[s].len, !.pending = NoPlan]

\* Subscription.Renew: Period.Next(), and the pending plan takes over.
Renewed(s) ==
    [subs[s] EXCEPT !.start = @ + subs[s].len, !.end = @ + subs[s].len,
                    !.plan = IF subs[s].pending = NoPlan THEN @ ELSE subs[s].pending,
                    !.pending = NoPlan]

\* Mutant: renewals are not checked against the user's other subscriptions.
RefusesPlanOnly(s) == subs[s].pending # NoPlan /\ subs[s].pending \notin planActive

\* The row's own reasons to refuse a renewal that was due when it was listed.
Refuses(s) ==
    \/ subs[s].pending # NoPlan /\ subs[s].pending \notin planActive
    \/ ~NoOverlap(s, UpdateSubscription(s, Renewed(s)))

Due(s) == subs[s].st = "active" /\ clock >= subs[s].end

\* Mutant: GetExpiredActive without its status filter.
GetExpiredAny == {s \in Subs : Exists(s) /\ subs[s].end < clock}

\* GetExpiredActive: status = 'active' AND period_end < now.
GetExpiredActive == {s \in Subs : subs[s].st = "active" /\ subs[s].end < clock}

\* The scheduler's context has no tenant scope (wiring_billing.go:181): where the row
\* policies hold it lists nothing, and does not know.
ProcessDueSubscriptions(d) ==
    /\ RowsVisible
    /\ sched[d].todo = {}
    /\ GetExpiredActive # {}
    /\ sched' = [sched EXCEPT ![d].todo = GetExpiredActive]
    /\ UNCHANGED <<clock, planActive, subs, invs, flow, excuses, faults, edits>>

\* The scheduler of d is done with s.
Processed(d, s) == sched' = [sched EXCEPT ![d].todo = @ \ {s}, ![d].failed = {}]

RenewSubscription(d, s) ==
    /\ s \in sched[d].todo /\ sched[d].failed = {}
    /\ Due(s) /\ ~Refuses(s)
    /\ subs' = [subs EXCEPT ![s] = UpdateSubscription(s, Renewed(s))]
    /\ AppendInvoice(s, NewInvoice("renewal", Renewed(s).plan, subs[s].end))
    /\ excuses' = Excused(s, HeldBy(s) \ {d})
    /\ Processed(d, s)
    /\ UNCHANGED <<clock, planActive, flow, faults, edits>>

\* Any error of RenewSubscription counts as "renewal ineligible": the row's own
\* reasons, a row that is not due any more, or a transaction that failed.
RenewFails(d, s) ==
    /\ s \in sched[d].todo /\ sched[d].failed = {}
    /\ \/ ~Due(s) /\ UNCHANGED <<excuses, faults>>
       \/ /\ Due(s) /\ Refuses(s)
          /\ excuses' = excuses \cup {<<s, "refused">>}
          /\ UNCHANGED faults
       \/ /\ faults < MaxFaults
          /\ faults' = faults + 1
          /\ excuses' = excuses \cup {<<s, "fault">>}
    /\ sched' = [sched EXCEPT ![d].failed = {s}]
    /\ UNCHANGED <<clock, planActive, subs, invs, flow, edits>>

ExpireSubscription(d, s) ==
    /\ sched[d].failed = {s}
    /\ \/ /\ CanTransitionTo(s, "expired")
          /\ subs' = [subs EXCEPT ![s].st = "expired"]
          /\ excuses' = Excused(s, HeldBy(s) \ {d})
       \/ /\ ~CanTransitionTo(s, "expired")
          /\ UNCHANGED <<subs, excuses>>
    /\ Processed(d, s)
    /\ UNCHANGED <<clock, planActive, invs, flow, faults, edits>>

SchedulerStep(d) ==
    \/ ProcessDueSubscriptions(d)
    \/ \E s \in Subs : RenewSubscription(d, s) \/ RenewFails(d, s) \/ ExpireSubscription(d, s)

-----------------------------------------------------------------------------
CheckoutStep(s) ==
    \/ \E u \in Users, p \in Plans : CheckEligibility(s, u, p)
    \/ CreateSubscription(s)

CustomerStep(s) ==
    \/ CancelSubscription(s)
    \/ PauseSubscription(s)
    \/ ResumeSubscription(s)
    \/ \E p \in Plans : UpgradeSubscription(s, p) \/ DowngradeSubscription(s, p)

LifecycleStep ==
    \/ Tick
    \/ \E p \in Plans : DeactivatePlan(p)
    \/ \E s \in Subs : CheckoutStep(s) \/ CustomerStep(s)
    \/ \E d \in Pods : SchedulerStep(d)

BillingNext == LifecycleStep \/ \E s \in Subs : \E i \in DOMAIN invs[s] : PayInvoice(s, i)

BillingSpec == BillingInit /\ [][BillingNext]_billingVars

\* A pod's scheduler runs on a ticker for as long as the pod does.
SchedulerFairness == \A d \in Pods : WF_billingVars(SchedulerStep(d))

FairBillingSpec == BillingSpec /\ SchedulerFairness

-----------------------------------------------------------------------------
\* However many schedulers list a due subscription, each period it enters is
\* invoiced by one renewal: RenewSubscription re-reads the row under its lock and
\* Renew refuses a period that has not elapsed (subscription_lifecycle.go).  So
\* nobody enters a period before it has begun.
OneRenewalPerPeriod ==
    \A s \in Subs :
        /\ \A i, j \in DOMAIN invs[s] :
              i < j /\ invs[s][i].kind = "renewal" /\ invs[s][j].kind = "renewal"
              => invs[s][i].start < invs[s][j].start
        /\ Exists(s) => subs[s].start <= clock

\* The scheduler ends a subscription that has had an undisturbed life only for a
\* reason of its own (a pending plan off sale, an overlap): otherwise someone wrote
\* the row after it was listed, or the renewal met a transient failure
\* (processDueSubscriptions treats every error alike).
ExpiredForAReason ==
    \A s \in Subs : subs[s].st = "expired" =>
        \E k \in {"overtaken", "refused", "fault"} : <<s, k>> \in excuses

\* Two live subscriptions of a user to one plan never share a period, whatever
\* renewals and upgrades do to their periods (migration 011).
NoDoubleSubscription ==
    \A s \in Subs : subs[s].st \in Live => NoOverlap(s, subs[s])

\* What the lifecycle of subscriptions keeps.
SubscriptionsSafe == OneRenewalPerPeriod /\ ExpiredForAReason /\ NoDoubleSubscription

\* subscription_lifecycle.go: "UpgradeSubscription immediately changes the subscription
\* to a new plan": the plan a customer is invoiced for is the plan of the row.
InvoicedPlanIsGranted ==
    \A s \in Subs :
        LET n == Len(invs[s])
        IN n > 0 /\ invs[s][n].kind = "upgrade" => subs[s].plan = invs[s][n].plan

\* wiring_billing.go: the scheduler "periodically checks for active subscriptions whose
\* billing period has elapsed and triggers renewal or expiration": a subscription
\* that is due is renewed or ended.
DueIsSettled == \A s \in Subs : s \in GetExpiredActive ~> s \notin GetExpiredActive
=============================================================================
