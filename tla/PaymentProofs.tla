----------------------------- MODULE PaymentProofs -----------------------------
(***************************************************************************)
(* Proofs about Payment, for every value of its constants: any number of   *)
(* subscriptions, webhook deliveries, refund calls and crashes.            *)
(***************************************************************************)
EXTENDS Payment, BillingProofs

-----------------------------------------------------------------------------
(* Payment on top of Billing: what checkouts, webhooks and refunds do to     *)
(* subscriptions and invoices is what Billing allows anyone to do.           *)

\* Every step of checkout and payment is a step of Billing or leaves it alone.
LEMMA PaymentIsBillingStep == [PaymentNext]_checkoutVars => [BillingNext]_billingVars
<1> SUFFICES ASSUME [PaymentNext]_checkoutVars PROVE [BillingNext]_billingVars
  OBVIOUS
<1>1. CASE LifecycleStep
  BY <1>1 DEF BillingNext
<1>2. ASSUME NEW s \in Subs, NEW i, PayInvoice(s, i) PROVE BillingNext
  <2>1. i \in DOMAIN invs[s]
    BY <1>2 DEF PayInvoice, Payable
  <2> QED
    BY <1>2, <2>1 DEF BillingNext
<1>3. ASSUME NEW s \in Subs, PaymentStep(s) PROVE [BillingNext]_billingVars
  <2>1. CASE HandleChargeCompleted(s) \/ \E i \in DOMAIN invs[s] : PayInvoiceHandler(s, i)
    BY <1>2, <2>1 DEF HandleChargeCompleted, PayInvoiceHandler
  <2>2. CASE CreateCharge(s) \/ CreatePayment(s) \/ Decline(s) \/ Capture(s)
    BY <2>2 DEF CreateCharge, CreatePayment, Decline, Capture
  <2>3. CASE \/ \E h \in Hooks, status \in {"succeeded", "failed"} : Webhook(h, s, status)
             \/ \E r \in Refunds : RefundCall(r, s)
    BY <2>3 DEF Webhook, RefundCall
  <2> QED
    BY <1>3, <2>1, <2>2, <2>3 DEF PaymentStep
<1>4. ASSUME NEW h \in Hooks, HandlerStep(h) \/ HookCrash(h) PROVE UNCHANGED billingVars
  BY <1>4 DEF HandlerStep, CheckIdempotency, CompletePayment, IgnoreStatus, MarkWebhook, HookCrash
<1>5. ASSUME NEW r \in Refunds, MarkRefunded(r) PROVE UNCHANGED billingVars
  BY <1>5 DEF MarkRefunded
<1>6. CASE UNCHANGED checkoutVars
  BY <1>6 DEF checkoutVars
<1> QED
  BY <1>1, <1>3, <1>4, <1>5, <1>6 DEF PaymentNext

\* Checkout and payment implement Billing: their steps pay invoices, activate
\* subscriptions and change nothing else of it.
THEOREM PaymentImplementsBilling == PaymentSpec => BillingSpec
<1>1. PaymentInit => BillingInit
  BY DEF PaymentInit
<1> QED
  BY <1>1, PaymentIsBillingStep, PTL DEF PaymentSpec, BillingSpec

\* So what the lifecycle of subscriptions keeps, it keeps with payments too.
THEOREM PaidSubscriptionSafety == PaymentSpec => []SubscriptionsSafe
  BY PaymentImplementsBilling, SubscriptionSafety, PTL

-----------------------------------------------------------------------------
(* The inductive invariant.  A captured charge stays captured, so whatever   *)
(* was concluded from it stays true: a handler of a webhook that reports     *)
(* success, a published charge_completed, a paid first invoice.  Once a      *)
(* webhook of a charge is logged, the handler that logged it is before its   *)
(* CompletePayment, has completed the payment or leaves a reason.            *)

Providers == {"none", "open", "declined", "captured"}
HookStates == {"log", "complete", "processed", "failed", "duplicate", "answered", "dead"}
Reasons == {"unrecorded", "early", "declined first", "crash"}
Handlers == [pc : HookStates, of : Subs, status : {"succeeded", "failed"}]
RefundCalls == [pc : {"idle", "done"}] \cup [pc : {"mark"}, of : Subs]

PaymentTypeOK ==
    /\ charge \in [Subs -> {"none", "record", "started", "failed"}]
    /\ provider \in [Subs -> Providers]
    /\ payment \in [Subs -> {"none", "pending", "completed", "refunded"}]
    /\ webhookLog \in [Subs -> {"none", "pending", "processed", "failed"}]
    /\ hook \in [Hooks -> Handlers \cup {IdleHook}]
    /\ event \in SUBSET Subs
    /\ refund \in [Refunds -> RefundCalls]
    /\ refunded \in [Subs -> Nat]
    /\ reasons \in [Subs -> SUBSET Reasons]
    /\ direct \in SUBSET Subs
    /\ crashes \in Nat

\* The provider knows a charge, and the records hold a payment, only after the
\* checkout asked for it.
ChargeFirst ==
    \A s \in Subs : /\ charge[s] = "none" => provider[s] = "none"
                    /\ charge[s] \in {"none", "record"} => payment[s] = "none"

Captured(s) == provider[s] = "captured"
SuccessIsCaptured ==
    /\ \A h \in Hooks : hook[h] # IdleHook /\ hook[h].status = "succeeded" => Captured(hook[h].of)
    /\ \A s \in event : Captured(s)
FirstPaidWasCaptured == \A s \in Subs : FirstInvoicePaid(s) => s \in direct \/ Captured(s)

RefundWasPaid ==
    /\ \A r \in Refunds : refund[r].pc = "mark" => refunded[refund[r].of] > 0
    /\ \A s \in Subs : payment[s] = "refunded" => refunded[s] > 0

\* The webhook that was logged first is dealt with.
Handled(s) ==
    \/ payment[s] \in {"completed", "refunded"}
    \/ reasons[s] # {}
    \/ \E g \in Hooks : hook[g].pc = "complete" /\ hook[g].of = s
LoggedIsHandled ==
    /\ \A s \in Subs : webhookLog[s] # "none" => Handled(s)
    /\ \A h \in Hooks : hook[h].pc \in {"complete", "processed", "failed", "duplicate"}
                        => webhookLog[hook[h].of] # "none"

PaymentInv ==
    /\ PaymentTypeOK /\ ChargeFirst /\ SuccessIsCaptured /\ FirstPaidWasCaptured
    /\ RefundWasPaid /\ LoggedIsHandled

-----------------------------------------------------------------------------
(* Types.                                                                    *)

\* A handler that is under way has a charge and a status, which its steps keep.
LEMMA HandlerMoves ==
    ASSUME PaymentTypeOK, NEW h \in Hooks, hook[h].pc \in HookStates, NEW pc \in HookStates,
           hook' = [hook EXCEPT ![h].pc = pc]
    PROVE  /\ hook[h] \in Handlers /\ hook[h] # IdleHook /\ hook[h].of \in Subs
           /\ hook' \in [Hooks -> Handlers \cup {IdleHook}]
           /\ hook'[h] \in Handlers /\ hook'[h] # IdleHook
           /\ hook'[h].pc = pc /\ hook'[h].of = hook[h].of /\ hook'[h].status = hook[h].status
           /\ \A g \in Hooks \ {h} : hook'[g] = hook[g]
<1>1. hook[h] \in Handlers
  <2>1. hook[h] \in Handlers \cup {IdleHook}
    BY DEF PaymentTypeOK
  <2>2. IdleHook.pc \notin HookStates
    BY DEF IdleHook, HookStates
  <2> QED
    BY <2>1, <2>2
<1>2. \A r \in Handlers : r # IdleHook /\ r.of \in Subs
  BY DEF Handlers, IdleHook, HookStates
<1> DEFINE new == [hook[h] EXCEPT !.pc = pc]
<1>3. new \in Handlers /\ new.pc = pc /\ new.of = hook[h].of /\ new.status = hook[h].status
  BY <1>1 DEF Handlers
<1>4. hook' = [hook EXCEPT ![h] = new]
  OBVIOUS
<1> HIDE DEF new
<1>5. hook \in [Hooks -> Handlers \cup {IdleHook}]
  BY DEF PaymentTypeOK
<1>6. /\ hook'[h] = new /\ \A g \in Hooks \ {h} : hook'[g] = hook[g]
      /\ hook' \in [Hooks -> Handlers \cup {IdleHook}]
  BY <1>3, <1>4, <1>5
<1> QED
  BY <1>1, <1>2, <1>3, <1>6

-----------------------------------------------------------------------------
(* Invoices: nothing but a payment pays one.                                 *)

\* The rest of Billing only appends drafts.
LEMMA LifecycleInvoices ==
    ASSUME LifecycleStep
    PROVE  \/ invs' = invs
           \/ \E s \in Subs : \E kind, p, start : AppendInvoice(s, NewInvoice(kind, p, start))
<1>1. CASE Tick \/ \E p \in Plans : DeactivatePlan(p)
  BY <1>1 DEF Tick, DeactivatePlan
<1>2. ASSUME NEW s \in Subs, CheckoutStep(s)
      PROVE  \/ invs' = invs
             \/ \E kind, p, start : AppendInvoice(s, NewInvoice(kind, p, start))
  BY <1>2 DEF CheckoutStep, CheckEligibility, CreateSubscription
<1>3. ASSUME NEW s \in Subs, CustomerStep(s)
      PROVE  \/ invs' = invs
             \/ \E kind, p, start : AppendInvoice(s, NewInvoice(kind, p, start))
  BY <1>3 DEF CustomerStep, CancelSubscription, PauseSubscription, ResumeSubscription,
              TransitionTo, UpgradeSubscription, DowngradeSubscription
<1>4. ASSUME NEW d \in Pods, SchedulerStep(d)
      PROVE  \/ invs' = invs
             \/ \E s \in Subs : \E kind, p, start : AppendInvoice(s, NewInvoice(kind, p, start))
  BY <1>4 DEF SchedulerStep, ProcessDueSubscriptions, RenewSubscription, RenewFails,
              ExpireSubscription
<1> QED
  BY <1>1, <1>2, <1>3, <1>4 DEF LifecycleStep

\* Appending a draft does not make the first invoice paid.
LEMMA AppendPaysNothing ==
    ASSUME BillingTypeOK, NEW s \in Subs, NEW kind, NEW p, NEW start,
           AppendInvoice(s, NewInvoice(kind, p, start)),
           NEW t \in Subs, FirstInvoicePaid(t)'
    PROVE  FirstInvoicePaid(t)
<1> DEFINE inv == NewInvoice(kind, p, start)
<1>1. inv.st = "draft"
  BY DEF NewInvoice
<1>2. invs \in [Subs -> Seq(Invoices)] /\ invs[s] \in Seq(Invoices)
  BY DEF BillingTypeOK
<1>3. invs' = [invs EXCEPT ![s] = Append(invs[s], inv)]
  BY DEF AppendInvoice
<1> HIDE DEF inv
<1>4. CASE t # s
  BY <1>2, <1>3, <1>4 DEF FirstInvoicePaid
<1>5. CASE t = s
  <2>1. invs'[s] = Append(invs[s], inv)
    BY <1>2, <1>3
  <2>2. CASE invs[s] = << >>
    <3>1. invs'[s][1] = inv
      BY <2>1, <2>2
    <3> QED
      BY <1>1, <1>5, <3>1 DEF FirstInvoicePaid
  <2>3. CASE invs[s] # << >>
    <3>1. invs'[s][1] = invs[s][1]
      BY <1>2, <2>1, <2>3
    <3> QED
      BY <1>5, <2>3, <3>1 DEF FirstInvoicePaid
  <2> QED
    BY <2>2, <2>3
<1> QED
  BY <1>4, <1>5

\* A payment pays one invoice of one subscription.
LEMMA PayPaysOne ==
    ASSUME BillingTypeOK, NEW s \in Subs, NEW i, PayInvoice(s, i),
           NEW t \in Subs, FirstInvoicePaid(t)'
    PROVE  FirstInvoicePaid(t) \/ (t = s /\ i = 1)
<1>1. Payable(s, i) /\ invs' = [invs EXCEPT ![s] = [invs[s] EXCEPT ![i].st = "paid"]]
  BY DEF PayInvoice
<1>2. invs \in [Subs -> Seq(Invoices)] /\ invs[s] \in Seq(Invoices) /\ i \in DOMAIN invs[s]
  BY <1>1 DEF BillingTypeOK, Payable
<1>3. CASE t # s
  BY <1>1, <1>2, <1>3 DEF FirstInvoicePaid
<1>4. CASE t = s /\ i # 1
  <2>1. invs'[s] = [invs[s] EXCEPT ![i].st = "paid"]
    BY <1>1, <1>2
  <2>2. invs[s] # << >>
    BY <1>2
  <2>3. Len(invs[s]) > 0 /\ 1 \in DOMAIN invs[s]
    BY <1>2, <2>2
  <2>4. invs'[s][1] = invs[s][1]
    BY <1>2, <1>4, <2>1, <2>3
  <2> QED
    BY <1>4, <2>2, <2>4 DEF FirstInvoicePaid
<1> QED
  BY <1>3, <1>4

-----------------------------------------------------------------------------
(* The steps.                                                                *)

StillCaptured == \A s \in Subs : Captured(s) => Captured(s)'

\* Without a new paid invoice, what was paid is still paid for.
LEMMA PaidFrame ==
    ASSUME FirstPaidWasCaptured, StillCaptured, direct \subseteq direct',
           \A s \in Subs : FirstInvoicePaid(s)' => FirstInvoicePaid(s)
    PROVE  FirstPaidWasCaptured'
  BY DEF FirstPaidWasCaptured, StillCaptured

\* A reason that is noted stays.
LEMMA ReasonNoted ==
    ASSUME reasons \in [Subs -> SUBSET Reasons], NEW s \in Subs, NEW k \in Reasons,
           reasons' = [reasons EXCEPT ![s] = @ \cup {k}]
    PROVE  /\ reasons' \in [Subs -> SUBSET Reasons]
           /\ \A t \in Subs : reasons[t] \subseteq reasons'[t]
           /\ reasons'[s] # {}
<1>1. reasons'[s] = reasons[s] \cup {k} /\ \A t \in Subs \ {s} : reasons'[t] = reasons[t]
  OBVIOUS
<1>2. reasons' \in [Subs -> SUBSET Reasons]
  OBVIOUS
<1> HIDE DEF Reasons
<1> QED
  BY <1>1, <1>2

\* Steps of the checkout goroutine and of the provider.
LEMMA ChargeStep ==
    ASSUME PaymentInv, NEW s \in Subs,
           CreateCharge(s) \/ CreatePayment(s) \/ Decline(s) \/ Capture(s)
    PROVE  PaymentInv'
<1> USE DEF PaymentInv
<1>1. UNCHANGED <<billingVars, direct, webhookLog, hook, event, refund, refunded>>
  BY DEF CreateCharge, CreatePayment, Decline, Capture
<1>2. /\ charge' \in [Subs -> {"none", "record", "started", "failed"}]
      /\ provider' \in [Subs -> Providers]
      /\ payment' \in [Subs -> {"none", "pending", "completed", "refunded"}]
      /\ reasons' \in [Subs -> SUBSET Reasons]
      /\ crashes' \in Nat
  <2>1. /\ charge \in [Subs -> {"none", "record", "started", "failed"}]
        /\ provider \in [Subs -> Providers]
        /\ payment \in [Subs -> {"none", "pending", "completed", "refunded"}]
        /\ reasons \in [Subs -> SUBSET Reasons]
        /\ crashes \in Nat
    BY DEF PaymentTypeOK
  <2>2. CASE CreateCharge(s) \/ Decline(s) \/ Capture(s)
    BY <2>1, <2>2 DEF CreateCharge, Decline, Capture, Providers
  <2>3. CASE CreatePayment(s)
    <3>1. CASE /\ payment' = [payment EXCEPT ![s] = "pending"]
               /\ charge' = [charge EXCEPT ![s] = "started"]
               /\ UNCHANGED <<provider, reasons, crashes>>
      BY <2>1, <3>1
    <3>2. CASE /\ charge' = [charge EXCEPT ![s] = "failed"]
               /\ reasons' = [reasons EXCEPT ![s] = @ \cup {"unrecorded"}]
               /\ crashes' \in {crashes, crashes + 1}
               /\ UNCHANGED <<provider, payment>>
      <4>1. reasons' \in [Subs -> SUBSET Reasons]
        BY <2>1, <3>2, ReasonNoted DEF Reasons
      <4>2. crashes' \in Nat
        BY <2>1, <3>2
      <4> QED
        BY <2>1, <3>2, <4>1, <4>2
    <3> QED
      BY <2>3, <3>1, <3>2 DEF CreatePayment
  <2> QED
    BY <2>2, <2>3
<1>3. PaymentTypeOK'
  BY <1>1, <1>2 DEF PaymentTypeOK
<1>4. ChargeFirst'
  BY DEF CreateCharge, CreatePayment, Decline, Capture, PaymentTypeOK, ChargeFirst
<1>5. StillCaptured
  BY DEF CreateCharge, CreatePayment, Decline, Capture, PaymentTypeOK, ChargeFirst,
         StillCaptured, Captured
<1>6. \A t \in Subs : payment[t] \in {"completed", "refunded"} => payment'[t] = payment[t]
  BY DEF CreateCharge, CreatePayment, Decline, Capture, PaymentTypeOK, ChargeFirst
<1>7. /\ \A t \in Subs : payment'[t] = "refunded" => payment[t] = "refunded"
      /\ \A t \in Subs : reasons[t] # {} => reasons'[t] # {}
  <2>1. \/ reasons' = reasons
        \/ reasons' = [reasons EXCEPT ![s] = @ \cup {"unrecorded"}]
    BY DEF CreateCharge, CreatePayment, Decline, Capture
  <2>2. payment' = payment \/ payment' = [payment EXCEPT ![s] = "pending"]
    BY DEF CreateCharge, CreatePayment, Decline, Capture
  <2>3. \A t \in Subs : reasons[t] \subseteq reasons'[t]
    <3>1. reasons \in [Subs -> SUBSET Reasons] /\ "unrecorded" \in Reasons
      BY DEF PaymentTypeOK, Reasons
    <3> QED
      BY <2>1, <3>1, ReasonNoted
  <2>4. \A t \in Subs : payment'[t] = "refunded" => payment[t] = "refunded"
    BY <2>2 DEF PaymentTypeOK
  <2> QED
    BY <2>3, <2>4
<1>8. SuccessIsCaptured'
  <2>1. \A h \in Hooks : hook[h] # IdleHook => hook[h].of \in Subs
    BY DEF PaymentTypeOK, Handlers
  <2> QED
    BY <1>1, <1>5, <2>1 DEF SuccessIsCaptured, StillCaptured, PaymentTypeOK
<1>9. FirstPaidWasCaptured'
  BY <1>1, <1>5, PaidFrame DEF FirstInvoicePaid, billingVars
<1>10. RefundWasPaid'
  BY <1>1, <1>7 DEF RefundWasPaid
<1>11. LoggedIsHandled'
  BY <1>1, <1>6, <1>7 DEF LoggedIsHandled, Handled
<1> QED
  BY <1>3, <1>4, <1>8, <1>9, <1>10, <1>11

\* A webhook reports success only for a captured charge.
LEMMA WebhookStep ==
    ASSUME PaymentInv, NEW h \in Hooks, NEW s \in Subs, NEW status \in {"succeeded", "failed"},
           Webhook(h, s, status)
    PROVE  PaymentInv'
<1> USE DEF PaymentInv
<1> DEFINE new == [pc |-> "log", of |-> s, status |-> status]
<1>1. /\ new \in Handlers /\ new # IdleHook /\ new.pc = "log" /\ new.of = s
      /\ new.status = status
  BY DEF Handlers, HookStates, IdleHook
<1>2. /\ hook' = [hook EXCEPT ![h] = new] /\ hook[h] = IdleHook
      /\ status = "succeeded" => Captured(s)
      /\ UNCHANGED <<billingVars, direct, charge, provider, payment, webhookLog, event, refund,
                     refunded, reasons, crashes>>
  BY DEF Webhook, Captured
<1> HIDE DEF new
<1>3. /\ hook'[h] = new /\ \A g \in Hooks \ {h} : hook'[g] = hook[g]
      /\ hook' \in [Hooks -> Handlers \cup {IdleHook}]
  BY <1>1, <1>2 DEF PaymentTypeOK
<1>4. PaymentTypeOK' /\ ChargeFirst' /\ RefundWasPaid'
  BY <1>2, <1>3 DEF PaymentTypeOK, ChargeFirst, RefundWasPaid
<1>5. SuccessIsCaptured'
  BY <1>1, <1>2, <1>3 DEF SuccessIsCaptured, Captured
<1>6. FirstPaidWasCaptured'
  BY <1>2, PaidFrame DEF FirstInvoicePaid, billingVars, StillCaptured, Captured
<1>7. LoggedIsHandled'
  <2>1. hook[h].pc = "idle"
    BY <1>2 DEF IdleHook
  <2>2. \A t \in Subs : Handled(t) => Handled(t)'
    BY <1>2, <1>3, <2>1 DEF Handled
  <2> QED
    BY <1>1, <1>2, <1>3, <2>2 DEF LoggedIsHandled
<1> QED
  BY <1>4, <1>5, <1>6, <1>7

\* Moving a handler keeps what success means, and what is handled stays handled
\* unless the handler was about to complete the payment.
LEMMA HandlerFrame ==
    ASSUME PaymentInv, NEW h \in Hooks, hook[h].pc \in HookStates, NEW pc \in HookStates,
           NEW s \in Subs, hook[h].of = s,
           hook' = [hook EXCEPT ![h].pc = pc],
           UNCHANGED <<billingVars, direct, charge, provider, refund, refunded>>,
           event' \subseteq event \cup {s},
           s \in event' => s \in event \/ hook[h].status = "succeeded",
           \A t \in Subs : /\ payment[t] \in {"completed", "refunded"}
                                 => payment'[t] \in {"completed", "refunded"}
                           /\ reasons[t] \subseteq reasons'[t],
           hook[h].pc # "complete" \/ Handled(s)'
    PROVE  /\ hook' \in [Hooks -> Handlers \cup {IdleHook}]
           /\ SuccessIsCaptured' /\ FirstPaidWasCaptured'
           /\ \A t \in Subs : Handled(t) => Handled(t)'
<1> USE DEF PaymentInv
<1>1. /\ hook[h] \in Handlers /\ hook[h] # IdleHook /\ hook[h].of \in Subs
      /\ hook' \in [Hooks -> Handlers \cup {IdleHook}]
      /\ hook'[h] # IdleHook /\ hook'[h].of = hook[h].of /\ hook'[h].status = hook[h].status
      /\ \A g \in Hooks \ {h} : hook'[g] = hook[g]
  BY HandlerMoves
<1>2. SuccessIsCaptured'
  BY <1>1 DEF SuccessIsCaptured, Captured
<1>3. FirstPaidWasCaptured'
  BY PaidFrame DEF FirstInvoicePaid, billingVars, StillCaptured, Captured
<1>4. ASSUME NEW t \in Subs, Handled(t) PROVE Handled(t)'
  <2>1. CASE payment[t] \in {"completed", "refunded"} \/ reasons[t] # {}
    BY <2>1 DEF Handled
  <2>2. ASSUME NEW g \in Hooks, hook[g].pc = "complete", hook[g].of = t PROVE Handled(t)'
    <3>1. CASE g = h
      BY <2>2, <3>1
    <3>2. CASE g # h
      BY <1>1, <2>2, <3>2 DEF Handled
    <3> QED
      BY <3>1, <3>2
  <2> QED
    BY <1>4, <2>1, <2>2 DEF Handled
<1> QED
  BY <1>1, <1>2, <1>3, <1>4

\* Logging a webhook, or finding it logged.
LEMMA CheckIdempotencyStep ==
    ASSUME PaymentInv, NEW h \in Hooks, NEW s \in Subs, hook[h].of = s, CheckIdempotency(h)
    PROVE  PaymentInv'
<1> USE DEF PaymentInv
<1>1. /\ hook[h].pc = "log"
      /\ UNCHANGED <<billingVars, direct, charge, provider, payment, event, refund, refunded,
                     reasons, crashes>>
  BY DEF CheckIdempotency
<1>2. PICK pc \in {"complete", "duplicate"} :
         /\ hook' = [hook EXCEPT ![h].pc = pc]
         /\ IF pc = "complete" THEN webhookLog[s] = "none"
                                    /\ webhookLog' = [webhookLog EXCEPT ![s] = "pending"]
                               ELSE webhookLog[s] # "none" /\ webhookLog' = webhookLog
  BY DEF CheckIdempotency
<1>3. /\ hook' \in [Hooks -> Handlers \cup {IdleHook}]
      /\ SuccessIsCaptured' /\ FirstPaidWasCaptured'
      /\ \A t \in Subs : Handled(t) => Handled(t)'
  BY <1>1, <1>2, HandlerFrame DEF HookStates
<1>4. /\ hook'[h].pc = pc /\ hook'[h].of = s
      /\ \A g \in Hooks \ {h} : hook'[g] = hook[g]
  BY <1>1, <1>2, HandlerMoves DEF HookStates
<1>5. webhookLog \in [Subs -> {"none", "pending", "processed", "failed"}]
  BY DEF PaymentTypeOK
<1>6. /\ webhookLog' \in [Subs -> {"none", "pending", "processed", "failed"}]
      /\ webhookLog'[s] # "none"
      /\ \A t \in Subs \ {s} : webhookLog'[t] = webhookLog[t]
  BY <1>2, <1>3, <1>5
<1>7. PaymentTypeOK' /\ ChargeFirst' /\ RefundWasPaid'
  BY <1>1, <1>3, <1>6 DEF PaymentTypeOK, ChargeFirst, RefundWasPaid
<1>8. LoggedIsHandled'
  <2>1. Handled(s)'
    <3>1. CASE pc = "complete"
      BY <1>4, <3>1 DEF Handled
    <3>2. CASE pc = "duplicate"
      BY <1>2, <1>3, <3>2 DEF LoggedIsHandled
    <3> QED
      BY <1>2, <3>1, <3>2
  <2>2. \A t \in Subs : webhookLog'[t] # "none" => Handled(t)'
    BY <1>3, <1>6, <2>1 DEF LoggedIsHandled
  <2>3. ASSUME NEW g \in Hooks, hook'[g].pc \in {"complete", "processed", "failed", "duplicate"}
        PROVE  webhookLog'[hook'[g].of] # "none"
    <3>1. CASE g = h
      BY <1>4, <1>6, <3>1
    <3>2. CASE g # h
      <4>1. hook'[g] = hook[g] /\ webhookLog[hook[g].of] # "none" /\ hook[g].of \in Subs
        BY <1>4, <2>3, <3>2 DEF LoggedIsHandled, PaymentTypeOK, Handlers, IdleHook
      <4> QED
        BY <1>6, <4>1
    <3> QED
      BY <3>1, <3>2
  <2> QED
    BY <2>2, <2>3 DEF LoggedIsHandled
<1> QED
  BY <1>3, <1>7, <1>8

\* A handler that ends its part leaves the webhook handled.
LEMMA HandlerEnds ==
    ASSUME PaymentInv, NEW h \in Hooks, NEW s \in Subs, hook[h].of = s,
           CompletePayment(h) \/ IgnoreStatus(h) \/ HookCrash(h)
    PROVE  PaymentInv'
<1> USE DEF PaymentInv
<1>1. UNCHANGED <<billingVars, direct, charge, provider, webhookLog, refund, refunded>>
  BY DEF CompletePayment, IgnoreStatus, HookCrash
<1>2. hook[h].pc \in {"log", "complete", "processed", "failed"}
  BY DEF CompletePayment, IgnoreStatus, HookCrash
<1>3. PICK pc \in {"processed", "failed", "dead"} :
         /\ hook' = [hook EXCEPT ![h].pc = pc]
         /\ pc = "dead" \/ hook[h].pc = "complete"
  BY DEF CompletePayment, IgnoreStatus, HookCrash
<1>4. /\ hook[h].pc \in HookStates /\ pc \in HookStates
      /\ hook'[h].pc = pc /\ hook'[h].of = s
      /\ \A g \in Hooks \ {h} : hook'[g] = hook[g]
  BY <1>2, <1>3, HandlerMoves DEF HookStates
<1>5. pc = "dead" \/ hook[h].pc = "complete"
  BY <1>3
<1>6. /\ payment \in [Subs -> {"none", "pending", "completed", "refunded"}]
      /\ reasons \in [Subs -> SUBSET Reasons] /\ crashes \in Nat /\ event \in SUBSET Subs
  BY DEF PaymentTypeOK
<1>7. \/ /\ payment[s] = "pending"
         /\ payment' = [payment EXCEPT ![s] = "completed"]
         /\ event' = event \cup {s}
         /\ hook[h].status = "succeeded"
         /\ UNCHANGED <<reasons, crashes>>
      \/ /\ \E k \in Reasons : reasons' = [reasons EXCEPT ![s] = @ \cup {k}]
         /\ crashes' \in {crashes, crashes + 1}
         /\ UNCHANGED <<payment, event>>
  BY DEF CompletePayment, IgnoreStatus, HookCrash, Reasons
<1>8. /\ payment' \in [Subs -> {"none", "pending", "completed", "refunded"}]
      /\ reasons' \in [Subs -> SUBSET Reasons] /\ crashes' \in Nat /\ event' \in SUBSET Subs
      /\ \A t \in Subs : reasons[t] \subseteq reasons'[t]
      /\ \A t \in Subs : payment[t] # payment'[t]
                         => t = s /\ payment[t] = "pending" /\ payment'[t] = "completed"
      /\ payment'[s] = "completed" \/ reasons'[s] # {}
      /\ event' \subseteq event \cup {s}
      /\ s \in event' => s \in event \/ hook[h].status = "succeeded"
  <2>1. CASE /\ payment[s] = "pending"
             /\ payment' = [payment EXCEPT ![s] = "completed"]
             /\ event' = event \cup {s}
             /\ hook[h].status = "succeeded"
             /\ UNCHANGED <<reasons, crashes>>
    BY <1>4, <1>6, <2>1
  <2>2. ASSUME NEW k \in Reasons, reasons' = [reasons EXCEPT ![s] = @ \cup {k}],
               crashes' \in {crashes, crashes + 1}, UNCHANGED <<payment, event>>
        PROVE  /\ reasons' \in [Subs -> SUBSET Reasons] /\ crashes' \in Nat
               /\ \A t \in Subs : reasons[t] \subseteq reasons'[t]
               /\ reasons'[s] # {}
    BY <1>4, <1>6, <2>2, ReasonNoted
  <2> QED
    BY <1>6, <1>7, <2>1, <2>2
<1>9. Handled(s)'
  BY <1>8 DEF Handled
<1>10. /\ hook' \in [Hooks -> Handlers \cup {IdleHook}]
       /\ SuccessIsCaptured' /\ FirstPaidWasCaptured'
       /\ \A t \in Subs : Handled(t) => Handled(t)'
  <2>1. \A t \in Subs : payment[t] \in {"completed", "refunded"}
                          => payment'[t] \in {"completed", "refunded"}
    BY <1>8
  <2> QED
    BY <1>1, <1>3, <1>4, <1>8, <1>9, <2>1, HandlerFrame
<1>11. PaymentTypeOK'
  BY <1>1, <1>8, <1>10 DEF PaymentTypeOK
<1>12. ChargeFirst' /\ RefundWasPaid'
  BY <1>1, <1>8 DEF ChargeFirst, RefundWasPaid
<1>13. LoggedIsHandled'
  <2>1. ASSUME NEW g \in Hooks, hook'[g].pc \in {"complete", "processed", "failed", "duplicate"}
        PROVE  webhookLog[hook'[g].of] # "none"
    BY <1>4, <1>5, <2>1 DEF LoggedIsHandled
  <2> QED
    BY <1>1, <1>10, <2>1 DEF LoggedIsHandled
<1> QED
  BY <1>10, <1>11, <1>12, <1>13

\* Marking the log row keeps it logged.
LEMMA MarkWebhookStep ==
    ASSUME PaymentInv, NEW h \in Hooks, NEW s \in Subs, hook[h].of = s, MarkWebhook(h)
    PROVE  PaymentInv'
<1> USE DEF PaymentInv
<1>1. /\ hook[h].pc \in {"processed", "failed"}
      /\ hook' = [hook EXCEPT ![h].pc = "answered"]
      /\ webhookLog' = [webhookLog EXCEPT ![s] = hook[h].pc]
      /\ UNCHANGED <<billingVars, direct, charge, provider, payment, event, refund, refunded,
                     reasons, crashes>>
  BY DEF MarkWebhook
<1>2. /\ hook' \in [Hooks -> Handlers \cup {IdleHook}]
      /\ SuccessIsCaptured' /\ FirstPaidWasCaptured'
      /\ \A t \in Subs : Handled(t) => Handled(t)'
  BY <1>1, HandlerFrame DEF HookStates
<1>3. /\ hook'[h].pc = "answered" /\ \A g \in Hooks \ {h} : hook'[g] = hook[g]
  BY <1>1, HandlerMoves DEF HookStates
<1>4. /\ webhookLog' \in [Subs -> {"none", "pending", "processed", "failed"}]
      /\ webhookLog'[s] # "none" /\ \A t \in Subs \ {s} : webhookLog'[t] = webhookLog[t]
  <2>1. webhookLog \in [Subs -> {"none", "pending", "processed", "failed"}]
    BY DEF PaymentTypeOK
  <2> QED
    BY <1>1, <2>1
<1>5. PaymentTypeOK' /\ ChargeFirst' /\ RefundWasPaid'
  BY <1>1, <1>2, <1>4 DEF PaymentTypeOK, ChargeFirst, RefundWasPaid
<1>6. LoggedIsHandled'
  <2>1. webhookLog[s] # "none"
    BY <1>1 DEF LoggedIsHandled
  <2>2. \A t \in Subs : webhookLog'[t] # "none" => webhookLog[t] # "none"
    BY <1>4, <2>1
  <2>3. \A t \in Subs : webhookLog[t] # "none" => webhookLog'[t] # "none"
    BY <1>4
  <2>4. ASSUME NEW g \in Hooks, hook'[g].pc \in {"complete", "processed", "failed", "duplicate"}
        PROVE  webhookLog'[hook'[g].of] # "none"
    <3>1. hook'[g] = hook[g] /\ webhookLog[hook[g].of] # "none" /\ hook[g].of \in Subs
      BY <1>3, <2>4 DEF LoggedIsHandled, PaymentTypeOK, Handlers, IdleHook
    <3> QED
      BY <2>3, <3>1
  <2> QED
    BY <1>2, <2>2, <2>4 DEF LoggedIsHandled
<1> QED
  BY <1>2, <1>5, <1>6

\* A refund touches the records of refunds only, and marks completed payments only.
LEMMA RefundFrame ==
    ASSUME PaymentInv,
           UNCHANGED <<billingVars, direct, charge, provider, webhookLog, hook, event, reasons,
                       crashes>>,
           refund' \in [Refunds -> RefundCalls], refunded' \in [Subs -> Nat],
           payment' \in [Subs -> {"none", "pending", "completed", "refunded"}],
           \A t \in Subs : payment[t] # payment'[t]
                           => payment[t] = "completed" /\ payment'[t] = "refunded",
           RefundWasPaid'
    PROVE  PaymentInv'
<1> USE DEF PaymentInv
<1>1. PaymentTypeOK'
  BY DEF PaymentTypeOK
<1>2. ChargeFirst' /\ SuccessIsCaptured'
  BY DEF ChargeFirst, SuccessIsCaptured, Captured
<1>3. FirstPaidWasCaptured'
  BY PaidFrame DEF FirstInvoicePaid, billingVars, StillCaptured, Captured
<1>4. LoggedIsHandled'
  <2>1. \A t \in Subs : Handled(t) => Handled(t)'
    BY DEF Handled
  <2> QED
    BY <2>1 DEF LoggedIsHandled
<1> QED
  BY <1>1, <1>2, <1>3, <1>4

\* Refund pays ...
LEMMA RefundCallStep ==
    ASSUME PaymentInv, NEW r \in Refunds, NEW s \in Subs, RefundCall(r, s)
    PROVE  PaymentInv'
<1> USE DEF PaymentInv
<1> DEFINE new == [pc |-> "mark", of |-> s]
<1>1. /\ refund \in [Refunds -> RefundCalls] /\ refunded \in [Subs -> Nat]
      /\ payment \in [Subs -> {"none", "pending", "completed", "refunded"}]
  BY DEF PaymentTypeOK
<1>2. new \in RefundCalls /\ new.of = s
  BY DEF RefundCalls
<1>3. /\ refund' = [refund EXCEPT ![r] = new] /\ refunded' = [refunded EXCEPT ![s] = @ + 1]
      /\ UNCHANGED <<billingVars, direct, charge, provider, payment, webhookLog, hook, event,
                     reasons, crashes>>
  BY DEF RefundCall
<1> HIDE DEF new
<1>4. /\ refund'[r] = new /\ \A q \in Refunds \ {r} : refund'[q] = refund[q]
      /\ refund' \in [Refunds -> RefundCalls]
  BY <1>1, <1>2, <1>3
<1>5. /\ refunded' \in [Subs -> Nat] /\ refunded'[s] > 0
      /\ \A t \in Subs : refunded[t] > 0 => refunded'[t] > 0
  BY <1>1, <1>3
<1>6. \A q \in Refunds : refund[q].pc = "mark" => refund[q].of \in Subs
  BY <1>1 DEF RefundCalls
<1>7. RefundWasPaid'
  BY <1>2, <1>3, <1>4, <1>5, <1>6 DEF RefundWasPaid
<1> QED
  BY <1>1, <1>3, <1>4, <1>5, <1>7, RefundFrame

\* ... before it marks.
LEMMA MarkRefundedStep ==
    ASSUME PaymentInv, NEW r \in Refunds, MarkRefunded(r)
    PROVE  PaymentInv'
<1> USE DEF PaymentInv
<1>1. /\ refund \in [Refunds -> RefundCalls] /\ refunded \in [Subs -> Nat]
      /\ payment \in [Subs -> {"none", "pending", "completed", "refunded"}]
  BY DEF PaymentTypeOK
<1>2. PICK s \in Subs : s = refund[r].of
  BY <1>1 DEF MarkRefunded, RefundCalls
<1>3. refunded[s] > 0
  BY <1>2 DEF MarkRefunded, RefundWasPaid
<1>4. /\ payment' = [payment EXCEPT ![s] = IF @ = "completed" THEN "refunded" ELSE @]
      /\ refund' = [refund EXCEPT ![r] = [pc |-> "done"]]
      /\ UNCHANGED <<billingVars, direct, charge, provider, webhookLog, hook, event, refunded,
                     reasons, crashes>>
  BY <1>2 DEF MarkRefunded
<1>5. [pc |-> "done"] \in RefundCalls /\ [pc |-> "done"].pc # "mark"
  BY DEF RefundCalls
<1>6. /\ refund' \in [Refunds -> RefundCalls] /\ refund'[r].pc # "mark"
      /\ \A q \in Refunds \ {r} : refund'[q] = refund[q]
  BY <1>1, <1>4, <1>5
<1>7. /\ payment' \in [Subs -> {"none", "pending", "completed", "refunded"}]
      /\ \A t \in Subs : payment[t] # payment'[t]
                         => t = s /\ payment[t] = "completed" /\ payment'[t] = "refunded"
  BY <1>1, <1>4
<1>8. RefundWasPaid'
  BY <1>3, <1>4, <1>6, <1>7 DEF RefundWasPaid
<1> QED
  BY <1>1, <1>4, <1>6, <1>7, <1>8, RefundFrame

\* Steps of Billing, and payments behind a captured charge or the placeholder.
LEMMA InvoiceStep ==
    ASSUME BillingTypeOK, PaymentInv,
           UNCHANGED <<charge, provider, payment, webhookLog, hook, event, refund, refunded,
                       reasons, crashes>>,
           \/ LifecycleStep /\ direct' = direct
           \/ \E s \in Subs : HandleChargeCompleted(s)
           \/ \E s \in Subs : \E i \in DOMAIN invs[s] : PayInvoiceHandler(s, i)
    PROVE  PaymentInv'
<1> USE DEF PaymentInv
<1>1. StillCaptured
  BY DEF StillCaptured, Captured
<1>2. /\ direct' \in SUBSET Subs /\ direct \subseteq direct'
  BY DEF PaymentTypeOK, HandleChargeCompleted, PayInvoiceHandler, paymentVars
<1>3. PaymentTypeOK' /\ ChargeFirst' /\ SuccessIsCaptured' /\ RefundWasPaid' /\ LoggedIsHandled'
  BY <1>2 DEF PaymentTypeOK, ChargeFirst, SuccessIsCaptured, Captured, RefundWasPaid,
              LoggedIsHandled, Handled
<1>4. CASE LifecycleStep /\ direct' = direct
  <2>1. \A t \in Subs : FirstInvoicePaid(t)' => FirstInvoicePaid(t)
    <3>1. CASE invs' = invs
      BY <3>1 DEF FirstInvoicePaid
    <3>2. CASE \E s \in Subs : \E kind, p, start : AppendInvoice(s, NewInvoice(kind, p, start))
      BY <3>2, AppendPaysNothing
    <3> QED
      BY <1>4, <3>1, <3>2, LifecycleInvoices
  <2> QED
    BY <1>1, <1>2, <1>3, <2>1, PaidFrame
<1>5. ASSUME NEW s \in Subs, HandleChargeCompleted(s) PROVE FirstPaidWasCaptured'
  <2>1. Captured(s)' /\ PayInvoice(s, 1)
    BY <1>5 DEF HandleChargeCompleted, SuccessIsCaptured, Captured
  <2> QED
    BY <1>1, <1>2, <2>1, PayPaysOne DEF FirstPaidWasCaptured, StillCaptured
<1>6. ASSUME NEW s \in Subs, NEW i \in DOMAIN invs[s], PayInvoiceHandler(s, i)
      PROVE  FirstPaidWasCaptured'
  <2>1. PayInvoice(s, i) /\ (i = 1 => s \in direct')
    BY <1>6 DEF PayInvoiceHandler
  <2> QED
    BY <1>1, <1>2, <2>1, PayPaysOne DEF FirstPaidWasCaptured, StillCaptured
<1> QED
  BY <1>3, <1>4, <1>5, <1>6

-----------------------------------------------------------------------------
(* The theorems.                                                             *)

\* Every step of checkout, payment and billing keeps the invariant.
LEMMA PaymentStepKeeps ==
    BillingInv /\ PaymentInv /\ [PaymentNext]_checkoutVars => PaymentInv'
<1> SUFFICES ASSUME BillingInv, PaymentInv, [PaymentNext]_checkoutVars PROVE PaymentInv'
  OBVIOUS
<1>1. BillingTypeOK
  BY DEF BillingInv
<1>2. CASE LifecycleStep /\ UNCHANGED paymentVars
  BY <1>1, <1>2, InvoiceStep DEF paymentVars
<1>3. ASSUME NEW s \in Subs, PaymentStep(s) PROVE PaymentInv'
  <2>1. CASE HandleChargeCompleted(s) \/ \E i \in DOMAIN invs[s] : PayInvoiceHandler(s, i)
    BY <1>1, <2>1, InvoiceStep DEF HandleChargeCompleted, PayInvoiceHandler, paymentVars
  <2> QED
    BY <1>3, <2>1, ChargeStep, WebhookStep, RefundCallStep DEF PaymentStep
<1>4. ASSUME NEW h \in Hooks, HandlerStep(h) \/ HookCrash(h) PROVE PaymentInv'
  <2>1. hook[h].pc \in HookStates
    BY <1>4 DEF HandlerStep, CheckIdempotency, CompletePayment, IgnoreStatus, MarkWebhook,
                HookCrash, HookStates
  <2>2. hook[h] \in Handlers \cup {IdleHook} /\ IdleHook.pc \notin HookStates
    BY DEF PaymentInv, PaymentTypeOK, IdleHook, HookStates
  <2>3. hook[h].of \in Subs
    BY <2>1, <2>2 DEF Handlers
  <2> QED
    BY <1>4, <2>3, CheckIdempotencyStep, HandlerEnds, MarkWebhookStep DEF HandlerStep
<1>5. ASSUME NEW r \in Refunds, MarkRefunded(r) PROVE PaymentInv'
  BY <1>5, MarkRefundedStep
<1>6. CASE UNCHANGED checkoutVars
  BY <1>6 DEF checkoutVars, paymentVars, billingVars, PaymentInv, PaymentTypeOK, ChargeFirst,
              SuccessIsCaptured, Captured, FirstPaidWasCaptured, FirstInvoicePaid,
              RefundWasPaid, LoggedIsHandled, Handled
<1> QED
  BY <1>2, <1>3, <1>4, <1>5, <1>6 DEF PaymentNext

\* The invariant holds in every reachable state.
THEOREM PaymentInvariant == PaymentSpec => []PaymentInv
<1>1. PaymentInit => PaymentInv
  <2> SUFFICES ASSUME PaymentInit PROVE PaymentInv
    OBVIOUS
  <2>1. PaymentTypeOK
    <3>1. [pc |-> "idle"] \in RefundCalls
      BY DEF RefundCalls
    <3> QED
      BY <3>1 DEF PaymentInit, PaymentTypeOK, Providers
  <2>2. \A s \in Subs : invs[s] = << >>
    BY DEF PaymentInit, BillingInit
  <2>3. \A h \in Hooks : hook[h] = IdleHook /\ hook[h].pc = "idle"
    BY DEF PaymentInit, IdleHook
  <2>4. \A r \in Refunds : refund[r].pc = "idle"
    BY DEF PaymentInit
  <2> QED
    BY <2>1, <2>2, <2>3, <2>4
       DEF PaymentInit, PaymentInv, ChargeFirst, SuccessIsCaptured, FirstPaidWasCaptured,
           FirstInvoicePaid, RefundWasPaid, LoggedIsHandled
<1>2. PaymentSpec => []BillingInv
  BY PaymentImplementsBilling, BillingInvariant, PTL
<1> QED
  BY <1>1, <1>2, PaymentStepKeeps, PTL DEF PaymentSpec

\* No subscription is activated by a payment the provider has not captured, and no
\* payment is recorded as refunded before it was paid back.
THEOREM PaymentsAreBacked == PaymentSpec => []PaidWasCaptured
<1>1. PaymentInv => PaidWasCaptured
  BY DEF PaymentInv, FirstPaidWasCaptured, RefundWasPaid, Captured, PaidWasCaptured
<1> QED
  BY <1>1, PaymentInvariant, PTL

\* A webhook that is answered "duplicate" has been dealt with, is about to be, or
\* there is a recorded reason why not.
THEOREM DuplicatesAreHandled == PaymentSpec => []DuplicateWasHandled
<1>1. PaymentInv => DuplicateWasHandled
  <2> SUFFICES ASSUME PaymentInv, NEW h \in Hooks, hook[h].pc = "duplicate"
               PROVE  Handled(hook[h].of)
    BY DEF DuplicateWasHandled, Handled
  <2>1. hook[h] \in Handlers \cup {IdleHook} /\ IdleHook.pc # "duplicate"
    BY DEF PaymentInv, PaymentTypeOK, IdleHook
  <2>2. hook[h].of \in Subs
    BY <2>1 DEF Handlers
  <2> QED
    BY <2>2 DEF PaymentInv, LoggedIsHandled
<1> QED
  BY <1>1, PaymentInvariant, PTL
=============================================================================
