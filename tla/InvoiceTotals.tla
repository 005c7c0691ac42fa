----------------------------- MODULE InvoiceTotals -----------------------------
(***************************************************************************)
(* What a subscription is invoiced and charged: addons of the plan and of  *)
(* the subscription (AddonService, aggregate.Plan), the invoice aggregate, *)
(* CheckoutService with its hooks and pricing plugin, and the overrides of *)
(* a renewal hook.  One subscription; its latest invoice.                  *)
(*                                                                         *)
(* Amounts are small integers in one currency, percentages basis points.   *)
(* The pricing plugin changes the copy of the invoice that checkout holds, *)
(* which is charged; the stored invoice keeps its totals.  No service      *)
(* calls ApplyDiscount, OverrideTotal, MarkFailed, Refund or the edits of  *)
(* Plan: they are here as operations of their aggregates.                  *)
(***************************************************************************)
EXTENDS Integers, Sequences, SequencesExt

CONSTANTS
    Addons, AddonPrice,     \* addons, and the price of each on the plan
    BasePrices,             \* prices the plan may have
    AddonRequests,          \* lists of addons that a checkout asks for
    Discounts,              \* [type, value]
    Answers,                \* [subtotal, discount] of a pricing plugin; NoAnswer in a field
    NoAnswer,
    MaxAddonsOfPlan,        \* max_addons; 0 = unlimited
    MaxInvoiceCalls

VARIABLES
    offer,          \* the plan's row: [price, addons]
    bought,         \* the subscription: [st, addons]
    bill,           \* the stored invoice
    held,           \* the checkout: where it is, and its copy of the invoice
    drawnUp,        \* history: the offer and the addons the invoice is drawn up from
    changed,        \* history: what has changed the invoice's amounts since
    settled,        \* history: the total when the invoice ceased to be a draft
    charged, toldAmount,    \* history: charged for the invoice, and told to the hook
    invoiceCalls

invoiceVars ==
    <<offer, bought, bill, held, drawnUp, changed, settled, charged, toldAmount, invoiceCalls>>

PercentBase == 10000
NoInvoice == [st |-> "none"]
NotHeld == [pc |-> "idle", copy |-> NoInvoice]
Unset == -1

Sum(amounts) == FoldSeq(LAMBDA a, b : a + b, 0, amounts)
AtLeastZero(n) == IF n < 0 THEN 0 ELSE n

-----------------------------------------------------------------------------
\* Money.PercentOf with RoundFloor: Go's division truncates toward zero.
PercentOf(amount, pct) ==
    IF amount * pct >= 0 THEN (amount * pct) \div PercentBase
    ELSE -((-(amount * pct)) \div PercentBase)

\* buildLineItems: addons that the plan no longer has are left out.
buildLineItems(plan, addons) ==
    LET listed == SelectSeq(addons, LAMBDA a : a \in plan.addons)
    IN <<plan.price>> \o [i \in 1 .. Len(listed) |-> AddonPrice[listed[i]]]

\* Plan.CalculateTotal, or Unset when an addon is not found.
CalculateTotal(plan, addons) ==
    IF \E i \in 1 .. Len(addons) : addons[i] \notin plan.addons THEN Unset
    ELSE FoldSeq(LAMBDA a, total : total + AddonPrice[a], plan.price, addons)

DiscountOf(d, subtotal) ==
    IF d.type = "percent" THEN PercentOf(subtotal, d.value) ELSE d.value

\* calculateTotal: the discounts add up, each taken of the subtotal.
calculateTotal(items, discounts) ==
    LET subtotal == Sum(items)
        discount == Sum([i \in 1 .. Len(discounts) |-> DiscountOf(discounts[i], subtotal)])
    IN [subtotal |-> subtotal, discount |-> discount,
        total |-> AtLeastZero(subtotal - discount)]

WithTotals(inv, t) ==
    [inv EXCEPT !.subtotal = t.subtotal, !.discount = t.discount, !.total = t.total]

NewInvoice(items) ==
    WithTotals([st |-> "draft", items |-> items, discounts |-> <<>>,
                subtotal |-> 0, discount |-> 0, total |-> 0], calculateTotal(items, <<>>))

\* ApplyPricingModification: fields without an answer stay.
ApplyPricingModification(inv, subtotal, discount) ==
    LET s == IF subtotal = NoAnswer THEN inv.subtotal ELSE subtotal
        d == IF discount = NoAnswer THEN inv.discount ELSE discount
    IN WithTotals(inv, [subtotal |-> s, discount |-> d, total |-> AtLeastZero(s - d)])

\* applyRenewalHookOverrides: the percentage is taken of the price before the override.
applyRenewalHookOverrides(inv, answer) ==
    ApplyPricingModification(inv, answer.subtotal,
        IF answer.discount = NoAnswer THEN NoAnswer
        ELSE PercentOf(inv.subtotal, answer.discount))

\* NewPercentDiscount and NewFixedDiscount.
ValidDiscount(d) == d.value > 0 /\ (d.type = "percent" => d.value <= PercentBase)

HasAddon(plan, a) == a \in plan.addons

\* AddonSpec.CanAddAddon: a plan without addons does not limit which.
CanAddAddon(a) ==
    /\ ~Contains(bought.addons, a)
    /\ offer.addons = {} \/ HasAddon(offer, a)
    /\ MaxAddonsOfPlan = 0 \/ Len(bought.addons) < MaxAddonsOfPlan

-----------------------------------------------------------------------------
InvoiceInit ==
    /\ offer \in [price : BasePrices, addons : {Addons}]
    /\ bought = [st |-> "none", addons |-> <<>>]
    /\ bill = NoInvoice
    /\ held = NotHeld
    /\ drawnUp = [price |-> 0, addons |-> {}, asked |-> <<>>]
    /\ changed = {}
    /\ settled = Unset
    /\ charged = Unset /\ toldAmount = Unset
    /\ invoiceCalls = 0

Count == invoiceCalls < MaxInvoiceCalls /\ invoiceCalls' = invoiceCalls + 1

\* A new invoice of the subscription with these addons.
DrawUp(inv, addons, changes) ==
    /\ bill' = inv
    /\ drawnUp' = [price |-> offer.price, addons |-> offer.addons, asked |-> addons]
    /\ changed' = changes
    /\ settled' = Unset

\* dispatchCheckoutValidating: a refusal by the hook's plugins is the only one that
\* counts; an error of the hook lets the checkout on.
Validated(answer) == answer # "refused"

\* dispatchSubscriptionCreating: the addons that the hook answers with, if any.
CreatingAddons(asked, answered) == IF answered = <<>> THEN asked ELSE answered

\* StartCheckout, up to the stored subscription and invoice.  The plan's limits on addons
\* are not looked at here.
StartCheckout(validation, asked, answered) ==
    LET addons == CreatingAddons(asked, answered)
        inv == NewInvoice(buildLineItems(offer, addons))
    IN /\ Validated(validation)
       /\ bought.st = "none"
       /\ Count
       /\ bought' = [st |-> "trial", addons |-> addons]
       /\ DrawUp(inv, addons, {})
       /\ held' = [pc |-> "created", copy |-> inv]
       /\ UNCHANGED <<offer, charged, toldAmount>>

\* applyPricingModification: an error or no answer leaves the price as it is.
ModifyPricing(answer) ==
    /\ held.pc = "created"
    /\ held' = [pc |-> "priced",
                copy |-> ApplyPricingModification(held.copy, answer.subtotal, answer.discount)]
    /\ changed' = IF answer.subtotal = NoAnswer /\ answer.discount = NoAnswer
                  THEN changed ELSE changed \cup {"plugin"}
    /\ UNCHANGED <<offer, bought, bill, drawnUp, settled, charged, toldAmount, invoiceCalls>>

\* CreateCharge, of the copy's total; it may fail, and the checkout with it.
CreateCharge ==
    /\ held.pc = "priced"
    /\ held' = NotHeld
    /\ charged' \in {held.copy.total, charged}
    /\ UNCHANGED <<offer, bought, bill, drawnUp, changed, settled, toldAmount, invoiceCalls>>

\* dispatchCheckoutCompleted reads the invoice again, and tells nothing if it cannot.
CheckoutCompleted == toldAmount' \in {bill.total, toldAmount}

\* CompleteCheckout: PayInvoice marks the stored invoice pending and paid and activates
\* the subscription.
CompleteCheckout ==
    /\ bill.st = "draft" /\ charged # Unset
    /\ Count
    /\ bill' = [bill EXCEPT !.st = "paid"]
    /\ bought' = [bought EXCEPT !.st = "active"]
    /\ settled' = bill.total
    /\ CheckoutCompleted
    /\ UNCHANGED <<offer, held, drawnUp, changed, charged>>

\* RenewSubscription: an invoice for the next period, with what its hook answers.
RenewInvoice(answer) ==
    LET inv == NewInvoice(buildLineItems(offer, bought.addons))
        none == answer.subtotal = NoAnswer /\ answer.discount = NoAnswer
    IN /\ bought.st = "active" /\ held.pc = "idle"
       /\ Count
       /\ DrawUp(IF none THEN inv ELSE applyRenewalHookOverrides(inv, answer),
                 bought.addons, IF none THEN {} ELSE {"hook"})
       /\ charged' = Unset /\ toldAmount' = Unset
       /\ UNCHANGED <<offer, bought, held>>

\* AddSubscriptionAddon and RemoveSubscriptionAddon: one transaction that holds the row.
AddSubscriptionAddon(a) ==
    /\ bought.st \in {"trial", "active"} /\ CanAddAddon(a)
    /\ Count
    /\ bought' = [bought EXCEPT !.addons = Append(@, a)]
    /\ UNCHANGED <<offer, bill, held, drawnUp, changed, settled, charged, toldAmount>>

RemoveSubscriptionAddon(a) ==
    /\ Contains(bought.addons, a)
    /\ Count
    /\ bought' = [bought EXCEPT !.addons = RemoveFirst(@, a)]
    /\ UNCHANGED <<offer, bill, held, drawnUp, changed, settled, charged, toldAmount>>

\* Plan.UpdateBasePrice, AddAddon and RemoveAddon.
EditOffer(new) ==
    /\ Count
    /\ offer' = new
    /\ UNCHANGED <<bought, bill, held, drawnUp, changed, settled, charged, toldAmount>>
UpdateBasePrice(p) == p > 0 /\ p # offer.price /\ EditOffer([offer EXCEPT !.price = p])
AddAddon(a) == ~HasAddon(offer, a) /\ EditOffer([offer EXCEPT !.addons = @ \cup {a}])
RemoveAddon(a) == HasAddon(offer, a) /\ EditOffer([offer EXCEPT !.addons = @ \ {a}])

\* Operations on a stored draft.  A discount recalculates, and an override is lost.
ChangeDraft(inv, changes) ==
    /\ bill.st = "draft"
    /\ Count
    /\ bill' = inv
    /\ changed' = changes
    /\ UNCHANGED <<offer, bought, held, drawnUp, settled, charged, toldAmount>>
ApplyDiscount(d) ==
    /\ bill.st = "draft" /\ ValidDiscount(d)
    /\ LET ds == Append(bill.discounts, d)
       IN ChangeDraft([WithTotals(bill, calculateTotal(bill.items, ds)) EXCEPT !.discounts = ds],
                      changed \ {"override", "hook"})
OverrideTotal(t) ==
    /\ bill.st = "draft"
    /\ t >= 0
    /\ ChangeDraft([bill EXCEPT !.total = t], changed \cup {"override"})

\* MarkPending, and then MarkFailed; a paid invoice may be refunded.
MarkFailed ==
    /\ bill.st = "draft"
    /\ Count
    /\ bill' = [bill EXCEPT !.st = "failed"]
    /\ settled' = bill.total
    /\ UNCHANGED <<offer, bought, held, drawnUp, changed, charged, toldAmount>>
Refund ==
    /\ bill.st = "paid"
    /\ Count
    /\ bill' = [bill EXCEPT !.st = "refunded"]
    /\ UNCHANGED <<offer, bought, held, drawnUp, changed, settled, charged, toldAmount>>

InvoiceNext ==
    \/ \E v \in {"allowed", "refused", "error"}, asked, answered \in AddonRequests :
        StartCheckout(v, asked, answered)
    \/ \E answer \in Answers : ModifyPricing(answer) \/ RenewInvoice(answer)
    \/ CreateCharge
    \/ CompleteCheckout
    \/ \E a \in Addons :
        \/ AddSubscriptionAddon(a) \/ RemoveSubscriptionAddon(a)
        \/ AddAddon(a) \/ RemoveAddon(a)
    \/ \E p \in BasePrices : UpdateBasePrice(p) \/ OverrideTotal(p)
    \/ \E d \in Discounts : ApplyDiscount(d)
    \/ MarkFailed
    \/ Refund

-----------------------------------------------------------------------------
\* The exact discount, in parts of PercentBase.
ExactDiscount(inv) ==
    Sum([i \in 1 .. Len(inv.discounts) |->
          IF inv.discounts[i].type = "percent" THEN inv.discounts[i].value * inv.subtotal
          ELSE inv.discounts[i].value * PercentBase])

\* invoice.go, calculateTotal: "ensuring the merchant never undercharges".  The total is
\* at least the exact one, and less than one unit per discount above it, whatever
\* discounts, edits of the plan and renewals came before.
NeverUndercharged ==
    bill.st # "none" /\ changed \cap {"override", "hook"} = {} =>
        LET exact == bill.subtotal * PercentBase - ExactDiscount(bill)
        IN /\ bill.total * PercentBase >= exact
           /\ exact >= 0 =>
                bill.total * PercentBase <= exact + Len(bill.discounts) * PercentBase

\* line_items.go: while the plan has every addon asked for, the invoice comes to what
\* Plan.CalculateTotal says of the plan as it was; otherwise to less than with all.
BilledAsOffered ==
    bill.st # "none" /\ "hook" \notin changed =>
        LET reference == CalculateTotal(drawnUp, drawnUp.asked)
        IN IF reference # Unset THEN bill.subtotal = reference
           ELSE bill.subtotal < CalculateTotal([drawnUp EXCEPT !.addons = Addons], drawnUp.asked)

\* invoice.go: only drafts are changed, so a settled invoice keeps its total, and no
\* invoice or charge is negative.
SettledKept ==
    /\ bill.st \in {"paid", "failed", "refunded"} => bill.total = settled
    /\ bill.st # "none" => bill.total >= 0
    /\ charged >= Unset

\* checkout.go: the charge and the amount that checkout.completed tells differ only by
\* what a pricing plugin or an operation on the stored draft changed in between.
ToldAsCharged ==
    toldAmount # Unset /\ changed = {} /\ bill.discounts = <<>> => toldAmount = charged

InvoicesSafe == NeverUndercharged /\ BilledAsOffered /\ SettledKept /\ ToldAsCharged
=============================================================================
