-------------------------------- MODULE Payment --------------------------------
(***************************************************************************)
(* Checkout and payment on top of Billing: CheckoutService.StartCheckout   *)
(* after the subscription is created, PaymentFacade                        *)
(* (internal/domain/payment), the payment webhook handler of the gateway   *)
(* and the consumer's handleChargeCompleted, for the first invoice of      *)
(* every subscription, the only one the code ever charges.                 *)
(*                                                                         *)
(* The checkout goroutine calls the provider and records the payment in    *)
(* separate steps, outside a transaction.  A webhook handler logs the      *)
(* webhook, completes the payment and marks the log in separate steps.     *)
(* charge_completed goes through the outbox and is delivered at least      *)
(* once (OutboxRelay, BillingEventConsumer); PayInvoice refuses the second *)
(* delivery.                                                               *)
(*                                                                         *)
(* External: the payment provider, and how often it sends a webhook.       *)
(***************************************************************************)
EXTENDS Billing

CONSTANTS
    Hooks,          \* webhook deliveries, each handled by a goroutine of its own
    Refunds,        \* calls of PaymentFacade.Refund
    MaxCrashes      \* bound on goroutines that die half way

ASSUME PaymentAssumption == MaxCrashes \in Nat

VARIABLES
    charge,         \* the checkout goroutine of each request
    provider,       \* the provider's charge
    payment,        \* payment_records
    webhookLog,     \* webhook_log
    hook,           \* webhook handlers
    event,          \* requests whose charge_completed was published
    refund,         \* refund calls
    refunded,       \* how often the provider paid back
    reasons,        \* history: why a captured charge may stay uncompleted
    direct,         \* history: first invoices paid through the placeholder endpoint
    crashes         \* bound

paymentVars == <<charge, provider, payment, webhookLog, hook, event, refund, refunded,
                 reasons, direct, crashes>>
checkoutVars == <<billingVars, paymentVars>>

IdleHook == [pc |-> "idle"]

PaymentInit ==
    /\ BillingInit
    /\ charge = [s \in Subs |-> "none"]
    /\ provider = [s \in Subs |-> "none"]
    /\ payment = [s \in Subs |-> "none"]
    /\ webhookLog = [s \in Subs |-> "none"]
    /\ hook = [h \in Hooks |-> IdleHook]
    /\ event = {}
    /\ refund = [r \in Refunds |-> [pc |-> "idle"]]
    /\ refunded = [s \in Subs |-> 0]
    /\ reasons = [s \in Subs |-> {}]
    /\ direct = {}
    /\ crashes = 0

-----------------------------------------------------------------------------
\* StartCheckout: the create_charge hook opens a charge at the provider, or an
\* error ends the checkout (no plugin, a price that pricing brought to zero).
CreateCharge(s) ==
    /\ flow[s].pc = "created" /\ charge[s] = "none"
    /\ \/ /\ provider' = [provider EXCEPT ![s] = "open"]
          /\ charge' = [charge EXCEPT ![s] = "record"]
       \/ /\ charge' = [charge EXCEPT ![s] = "failed"]
          /\ UNCHANGED provider
    /\ UNCHANGED <<billingVars, direct, payment, webhookLog, hook, event, refund, refunded,
                   reasons, crashes>>

\* NewPaymentRecord and CreatePayment, outside a transaction.  A crash or a
\* database that refuses the row leaves the provider's charge without a record.
CreatePayment(s) ==
    /\ charge[s] = "record"
    /\ \/ /\ RowsVisible
          /\ payment' = [payment EXCEPT ![s] = "pending"]
          /\ charge' = [charge EXCEPT ![s] = "started"]
          /\ UNCHANGED <<reasons, crashes>>
       \/ /\ ~RowsVisible \/ crashes < MaxCrashes
          /\ crashes' = IF RowsVisible THEN crashes + 1 ELSE crashes
          /\ charge' = [charge EXCEPT ![s] = "failed"]
          /\ reasons' = [reasons EXCEPT ![s] = @ \cup {"unrecorded"}]
          /\ UNCHANGED payment
    /\ UNCHANGED <<billingVars, direct, provider, webhookLog, hook, event, refund, refunded>>

\* The provider declines a card; the customer may try again on the same charge.
Decline(s) ==
    /\ provider[s] = "open"
    /\ provider' = [provider EXCEPT ![s] = "declined"]
    /\ UNCHANGED <<billingVars, direct, charge, payment, webhookLog, hook, event, refund,
                   refunded, reasons, crashes>>

Capture(s) ==
    /\ provider[s] \in {"open", "declined"}
    /\ provider' = [provider EXCEPT ![s] = "captured"]
    /\ UNCHANGED <<billingVars, direct, charge, payment, webhookLog, hook, event, refund,
                   refunded, reasons, crashes>>

-----------------------------------------------------------------------------
\* A webhook about charge s arrives and VerifyWebhook accepts it.  Webhooks may be
\* repeated and may overtake one another.
Webhook(h, s, status) ==
    /\ hook[h] = IdleHook
    /\ IF status = "succeeded" THEN provider[s] = "captured"
                               ELSE provider[s] \in {"declined", "captured"}
    /\ hook' = [hook EXCEPT ![h] = [pc |-> "log", of |-> s, status |-> status]]
    /\ UNCHANGED <<billingVars, direct, charge, provider, payment, webhookLog, event, refund,
                   refunded, reasons, crashes>>

\* Mutant: every webhook is taken for a duplicate.
AlwaysDuplicate(h) ==
    /\ hook[h].pc = "log"
    /\ hook' = [hook EXCEPT ![h].pc = "duplicate"]
    /\ webhookLog' = [webhookLog EXCEPT ![hook[h].of] = "pending"]
    /\ UNCHANGED <<billingVars, direct, charge, provider, payment, event, refund, refunded,
                   reasons, crashes>>

\* CheckIdempotency: insert the log row, or answer "duplicate" if there is one.
CheckIdempotency(h) ==
    /\ hook[h].pc = "log"
    /\ LET s == hook[h].of
       IN \/ /\ webhookLog[s] = "none"
             /\ webhookLog' = [webhookLog EXCEPT ![s] = "pending"]
             /\ hook' = [hook EXCEPT ![h].pc = "complete"]
          \/ /\ webhookLog[s] # "none"
             /\ hook' = [hook EXCEPT ![h].pc = "duplicate"]
             /\ UNCHANGED webhookLog
    /\ UNCHANGED <<billingVars, direct, charge, provider, payment, event, refund, refunded,
                   reasons, crashes>>

\* Mutant: the webhook's status is not looked at.
CompleteWhateverStatus(h) ==
    /\ hook[h].pc = "complete"
    /\ payment' = [payment EXCEPT ![hook[h].of] = "completed"]
    /\ event' = event \cup {hook[h].of}
    /\ hook' = [hook EXCEPT ![h].pc = "processed"]
    /\ UNCHANGED <<billingVars, direct, charge, provider, webhookLog, refund, refunded, reasons,
                   crashes>>

\* CompletePayment: PaymentRecord.MarkCompleted under a row lock; the record and
\* its charge_completed are one transaction.
CompletePayment(h) ==
    /\ hook[h].pc = "complete" /\ hook[h].status = "succeeded"
    /\ LET s == hook[h].of
       IN \/ /\ payment[s] = "pending"
             /\ payment' = [payment EXCEPT ![s] = "completed"]
             /\ event' = event \cup {s}
             /\ hook' = [hook EXCEPT ![h].pc = "processed"]
             /\ UNCHANGED reasons
          \/ /\ payment[s] # "pending"
             /\ hook' = [hook EXCEPT ![h].pc = "failed"]
             /\ reasons' = [reasons EXCEPT ![s] = @ \cup {"early"}]
             /\ UNCHANGED <<payment, event>>
    /\ UNCHANGED <<billingVars, direct, charge, provider, webhookLog, refund, refunded, crashes>>

\* Any other status is logged as processed without touching the payment.
IgnoreStatus(h) ==
    /\ hook[h].pc = "complete" /\ hook[h].status # "succeeded"
    /\ hook' = [hook EXCEPT ![h].pc = "processed"]
    /\ reasons' = [reasons EXCEPT ![hook[h].of] = @ \cup {"declined first"}]
    /\ UNCHANGED <<billingVars, direct, charge, provider, payment, webhookLog, event, refund,
                   refunded, crashes>>

\* MarkWebhookProcessed and MarkWebhookFailed.
MarkWebhook(h) ==
    /\ hook[h].pc \in {"processed", "failed"}
    /\ webhookLog' = [webhookLog EXCEPT ![hook[h].of] = hook[h].pc]
    /\ hook' = [hook EXCEPT ![h].pc = "answered"]
    /\ UNCHANGED <<billingVars, direct, charge, provider, payment, event, refund, refunded,
                   reasons, crashes>>

\* The pod dies with the handler; what it committed stays.
HookCrash(h) ==
    /\ hook[h].pc \in {"log", "complete", "processed", "failed"}
    /\ crashes < MaxCrashes
    /\ crashes' = crashes + 1
    /\ hook' = [hook EXCEPT ![h].pc = "dead"]
    /\ reasons' = [reasons EXCEPT ![hook[h].of] = @ \cup {"crash"}]
    /\ UNCHANGED <<billingVars, direct, charge, provider, payment, webhookLog, event, refund,
                   refunded>>

\* Mutants: the invoice is paid and the subscription forgotten; the event is lost.
PayInvoiceOnly(s) ==
    /\ s \in event
    /\ Payable(s, 1)
    /\ invs' = [invs EXCEPT ![s][1].st = "paid"]
    /\ UNCHANGED <<clock, planActive, subs, flow, sched, excuses, faults, edits, paymentVars>>
IgnoreChargeCompleted(s) ==
    /\ s \in event
    /\ event' = event \ {s}
    /\ UNCHANGED <<billingVars, direct, charge, provider, payment, webhookLog, hook, refund,
                   refunded, reasons, crashes>>

\* handleChargeCompleted -> CompleteCheckout -> PayInvoice of the first invoice.  A
\* repeated delivery finds the invoice paid and changes nothing.
HandleChargeCompleted(s) ==
    /\ s \in event
    /\ PayInvoice(s, 1)
    /\ UNCHANGED paymentVars

\* POST /invoices/{id}/pay, "a placeholder", pays any invoice of the customer.
PayInvoiceHandler(s, i) ==
    /\ PayInvoice(s, i)
    /\ direct' = IF i = 1 THEN direct \cup {s} ELSE direct
    /\ UNCHANGED <<charge, provider, payment, webhookLog, hook, event, refund, refunded,
                   reasons, crashes>>

\* PaymentFacade.Refund calls the provider on what it read without a lock ...
RefundCall(r, s) ==
    /\ refund[r].pc = "idle"
    /\ payment[s] # "none"
    /\ provider[s] = "captured"
    /\ refund' = [refund EXCEPT ![r] = [pc |-> "mark", of |-> s]]
    /\ refunded' = [refunded EXCEPT ![s] = @ + 1]
    /\ UNCHANGED <<billingVars, direct, charge, provider, payment, webhookLog, hook, event,
                   reasons, crashes>>

\* ... and then marks the record, if it is completed by now.
MarkRefunded(r) ==
    /\ refund[r].pc = "mark"
    /\ LET s == refund[r].of
       IN payment' = [payment EXCEPT ![s] = IF @ = "completed" THEN "refunded" ELSE @]
    /\ refund' = [refund EXCEPT ![r] = [pc |-> "done"]]
    /\ UNCHANGED <<billingVars, direct, charge, provider, webhookLog, hook, event, refunded,
                   reasons, crashes>>

-----------------------------------------------------------------------------
HandlerStep(h) ==
    CheckIdempotency(h) \/ CompletePayment(h) \/ IgnoreStatus(h) \/ MarkWebhook(h)

PaymentStep(s) ==
    \/ CreateCharge(s) \/ CreatePayment(s)
    \/ Decline(s) \/ Capture(s)
    \/ HandleChargeCompleted(s)
    \/ \E i \in DOMAIN invs[s] : PayInvoiceHandler(s, i)
    \/ \E h \in Hooks, status \in {"succeeded", "failed"} : Webhook(h, s, status)
    \/ \E r \in Refunds : RefundCall(r, s)

PaymentNext ==
    \/ LifecycleStep /\ UNCHANGED paymentVars
    \/ \E s \in Subs : PaymentStep(s)
    \/ \E h \in Hooks : HandlerStep(h) \/ HookCrash(h)
    \/ \E r \in Refunds : MarkRefunded(r)

\* A provider repeats a webhook until it is answered, a handler runs to its end,
\* and the outbox delivers what was published.
PaymentFairness ==
    /\ \A s \in Subs :
        /\ WF_checkoutVars(\E h \in Hooks : Webhook(h, s, "succeeded"))
        /\ WF_checkoutVars(HandleChargeCompleted(s))
    /\ \A h \in Hooks : WF_checkoutVars(HandlerStep(h))

PaymentSpec == PaymentInit /\ [][PaymentNext]_checkoutVars
FairPaymentSpec == PaymentSpec /\ PaymentFairness

-----------------------------------------------------------------------------
FirstInvoicePaid(s) == invs[s] # << >> /\ invs[s][1].st = "paid"

\* No subscription is activated by a payment the provider has not captured, in
\* whatever order webhooks, checkouts and deliveries come: a first invoice is paid
\* behind a captured charge or through the placeholder endpoint.  And a payment
\* recorded as refunded was paid back: Refund asks the provider first.
PaidWasCaptured ==
    \A s \in Subs :
        /\ FirstInvoicePaid(s) => s \in direct \/ provider[s] = "captured"
        /\ payment[s] = "refunded" => refunded[s] > 0

\* A webhook of a captured charge that was answered "duplicate" has been dealt with,
\* the payment completed or about to be, unless the handler that logged it
\* first came before the payment was recorded, brought an earlier decline, or died
\* (CheckIdempotency takes any logged webhook for a processed one).
DuplicateWasHandled ==
    \A h \in Hooks :
        hook[h].pc = "duplicate" /\ hook[h].status = "succeeded" =>
            LET s == hook[h].of
            IN \/ payment[s] \in {"completed", "refunded"}
               \/ reasons[s] # {}
               \/ \E g \in Hooks : hook[g].pc = "complete" /\ hook[g].of = s

\* A captured charge completes its payment and pays the invoice, unless one of the
\* reasons above keeps it from it.
CapturedIsCredited ==
    \A s \in Subs :
        provider[s] = "captured" ~> reasons[s] # {} \/ FirstInvoicePaid(s)
=============================================================================
