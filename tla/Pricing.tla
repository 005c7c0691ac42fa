------------------------------- MODULE Pricing -------------------------------
(***************************************************************************)
(* What decides a price in builtin/tariff: rules, promo codes and price    *)
(* experiments.                                                            *)
(***************************************************************************)
EXTENDS Integers, Sequences, SequencesExt

(***************************************************************************)
(* Pricing rules, promo codes and the pipeline that turns a tariff's list  *)
(* price into a quote (builtin/tariff: pricing_engine.go, pricing_rules.go *)
(* promo.go).  Administrators store and delete the documents; a quote is   *)
(* computed from whatever is stored when it is asked for.                  *)
(***************************************************************************)

CONSTANTS
    RuleInputs,         \* pricing rules administrators send
    PromoInputs,        \* promo codes administrators send
    ListPrices,         \* prices of tariffs, in cents
    CharmStrategies,    \* "none" among them, and "" when the tariff names none
    QuoteCountries, QuoteDays, QuoteCodes,  \* what customers ask with; "" is no code
    MaxPromos           \* bound on stored promo codes

VARIABLES
    rule,       \* the pricing rule the tariffs name, or NoRule
    promos      \* the promo code documents, in the order they are listed

pricingVars == <<rule, promos>>

PercentBase == 10000
NoRule == [modifiers |-> <<>>, floor |-> 0, rounding |-> ""]

\* validatePricingRuleInput.  Modifiers are not looked at.
ValidPricingRule(input) == input.floor >= 0

\* validatePromoCodeInput.
ValidPromoCode(input) ==
    /\ input.kind \in {"percent_off", "fixed_off"}
    /\ input.value > 0
    /\ input.kind = "percent_off" => input.value <= PercentBase

PricingInit == rule = NoRule /\ promos = <<>>

-----------------------------------------------------------------------------
\* Go's division rounds towards zero.
Quo(a, b) == IF a >= 0 THEN a \div b ELSE -((-a) \div b)

Lesser(a, b) == IF a < b THEN a ELSE b

\* applyModifierAction.
ApplyModifierAction(price, op, value) ==
    CASE op = "percent_off"   -> -Quo(price * Lesser(value, PercentBase), PercentBase)
      [] op = "percent_up"    -> Quo(price * value, PercentBase)
      [] op = "fixed_off"     -> -value
      [] op = "fixed_up"      -> value
      [] op = "replace_price" -> value - price
      [] op = "multiply"      -> Quo(price * value, PercentBase) - price
      [] OTHER                -> 0

\* applyDiscountSpec: the operations a promo code may name.
ApplyDiscountSpec(price, spec) ==
    IF spec.kind \in {"percent_off", "fixed_off"}
    THEN ApplyModifierAction(price, spec.kind, spec.value)
    ELSE 0

\* A stage changes the price by delta and says so.
Modified(ctx, delta) ==
    [ctx EXCEPT !.final = @ + delta, !.modifiers = Append(@, delta)]

\* geoAdjustStage.Apply: the first modifier for the customer's country.
GeoAdjust(ctx, modifiers) ==
    LET here == SelectSeq(modifiers, LAMBDA m : m.type = "geo" /\ m.min = ctx.country)
    IN IF ctx.country = "" \/ here = <<>> THEN ctx
       ELSE Modified(ctx, ApplyModifierAction(ctx.final, here[1].op, here[1].value))

\* bulkDiscountStage.Apply: every modifier the purchase is large enough for.
BulkDiscount(ctx, modifiers) ==
    LET applies(m) == \/ m.type = "bulk_duration" /\ ctx.days >= m.min
                      \/ m.type = "quantity" /\ ctx.quantity >= m.min
    IN FoldLeft(LAMBDA c, m : Modified(c, ApplyModifierAction(c.final, m.op, m.value)),
                ctx, SelectSeq(modifiers, applies))

\* promoCodeStage.Apply.  promo is a sequence of at most one document.
PromoCodeStage(ctx, promo) ==
    IF promo = <<>> \/ ctx.code = "" THEN ctx
    ELSE LET delta == ApplyDiscountSpec(ctx.final, promo[1])
             cap == promo[1].cap
         IN Modified(ctx, IF cap > 0 /\ -delta > cap THEN -cap ELSE delta)

\* priceFloorStage.Apply.
PriceFloor(ctx, floor) ==
    IF ctx.final < floor THEN Modified(ctx, floor - ctx.final) ELSE ctx

\* charmPriceStage.Apply: the last .99 or .95 below the price, if it has none and is
\* not below one dollar.
CharmPrice(ctx, strategy) ==
    LET dollars == Quo(ctx.final, 100)
        ending == CASE strategy = "99" -> 99 [] strategy = "95" -> 95 [] OTHER -> 0
    IN IF ending = 0 \/ dollars = 0 \/ ctx.final = dollars * 100 + ending THEN ctx
       ELSE Modified(ctx, dollars * 100 - (100 - ending) - ctx.final)

\* Mutant: the floor is applied before the discounts.
CalculateFloorFirst(ctx, modifiers, promo, floor, charm) ==
    LET done == CharmPrice(PromoCodeStage(
                    BulkDiscount(GeoAdjust(PriceFloor(ctx, floor), modifiers), modifiers),
                    promo), charm)
    IN [done EXCEPT !.final = IF @ < 0 THEN 0 ELSE @]

\* Calculate, with the stages common to every pipeline; the price is never negative.
Calculate(ctx, modifiers, promo, floor, charm) ==
    LET done == CharmPrice(PriceFloor(PromoCodeStage(
                    BulkDiscount(GeoAdjust(ctx, modifiers), modifiers), promo), floor), charm)
    IN [done EXCEPT !.final = IF @ < 0 THEN 0 ELSE @]

-----------------------------------------------------------------------------
\* findPromoByCode: the first document with the code that is active.
FindPromoByCode(code) ==
    LET found == SelectSeq(promos, LAMBDA p : p.code = code /\ p.active)
    IN IF code = "" \/ found = <<>> THEN <<>> ELSE <<found[1]>>

\* ValidatePromoCode: the first document with the code must be active, not used up and
\* in its dates.
ValidatePromoCode(code) ==
    LET found == SelectSeq(promos, LAMBDA p : p.code = code)
    IN found # <<>> /\ found[1].active /\ ~found[1].usedUp /\ found[1].inDates

PriceContext(base, country, days, quantity, code) ==
    [base |-> base, final |-> base, modifiers |-> <<>>, country |-> country, days |-> days,
     quantity |-> quantity, code |-> code]

\* DefaultPipeline: the tariff's charm strategy goes before the rule's.
Charm(strategy) == IF strategy # "" THEN strategy ELSE rule.rounding

\* GetTariffPrice, of a tariff with a price in the customer's currency.
GetTariffPrice(price, strategy, country, days, code) ==
    Calculate(PriceContext(price, country, days, 1, code), rule.modifiers,
              FindPromoByCode(code), rule.floor, Charm(strategy))

\* personalizeVisible and pricePeriod: a period's list price, or its price for the
\* customer when anything is known of the customer.
PricePeriod(base, strategy, country, days, code) ==
    IF country = "" /\ code = "" THEN base
    ELSE Calculate(PriceContext(base, country, days, 1, code), rule.modifiers,
                   FindPromoByCode(code), rule.floor, Charm(strategy)).final

\* SimulatePricingRule: the modifiers in order of priority, no promo code, no charm.
Simulate(base, country, days, quantity) ==
    Calculate(PriceContext(base, country, days, quantity, ""),
              SortSeq(rule.modifiers, LAMBDA a, b : a.priority < b.priority),
              <<>>, rule.floor, "none")

-----------------------------------------------------------------------------
\* CreatePricingRule, and the tariff is made to name the rule.
CreatePricingRule(input) ==
    /\ rule = NoRule
    /\ ValidPricingRule(input)
    /\ rule' = input
    /\ UNCHANGED promos

\* UpdatePricingRule.
UpdatePricingRule(input) ==
    /\ rule # NoRule
    /\ ValidPricingRule(input)
    /\ rule' = input
    /\ UNCHANGED promos

\* DeletePricingRule: tariffs go on naming it, and are priced without a rule.
DeletePricingRule ==
    /\ rule # NoRule
    /\ rule' = NoRule
    /\ UNCHANGED promos

\* CreatePromoCode: nothing keeps two documents from having one code.
CreatePromoCode(input) ==
    /\ ValidPromoCode(input)
    /\ Len(promos) < MaxPromos
    /\ promos' = Append(promos, input)
    /\ UNCHANGED rule

\* UpdatePromoCode.
UpdatePromoCode(i, input) ==
    /\ i \in DOMAIN promos
    /\ ValidPromoCode(input)
    /\ promos' = [promos EXCEPT ![i] = input]
    /\ UNCHANGED rule

\* DeletePromoCode.
DeletePromoCode(i) ==
    /\ i \in DOMAIN promos
    /\ promos' = RemoveAt(promos, i)
    /\ UNCHANGED rule

\* BulkGeneratePromoCodes: one document after another, each under a code of its own;
\* those that cannot be stored are left out.
BulkGeneratePromoCodes(template, count) ==
    /\ ValidPromoCode(template)
    /\ Len(promos) + count <= MaxPromos
    /\ promos' = promos \o [i \in 1 .. count |-> [template EXCEPT !.code = "generated"]]
    /\ UNCHANGED rule

PricingNext ==
    \/ \E input \in RuleInputs : CreatePricingRule(input) \/ UpdatePricingRule(input)
    \/ DeletePricingRule
    \/ \E input \in PromoInputs :
         \/ CreatePromoCode(input)
         \/ \E i \in 1 .. MaxPromos : UpdatePromoCode(i, input)
         \/ \E count \in 1 .. MaxPromos : BulkGeneratePromoCodes(input, count)
    \/ \E i \in 1 .. MaxPromos : DeletePromoCode(i)

-----------------------------------------------------------------------------
Total(deltas) == FoldLeft(LAMBDA a, b : a + b, 0, deltas)

\* GetTariffPrice returns its price "with full audit trail": the base price and the
\* modifiers add up to the final price.
Explained(quote) == quote.base + Total(quote.modifiers) = quote.final

\* charmPriceStage: the price is rounded below the rule's floor by less than 105 cents,
\* and an item that costs something is not made free.
FloorHolds(quote) ==
    /\ quote.final >= 0
    /\ rule.floor - quote.final < 105
    /\ rule.floor > 0 => quote.final > 0

\* pricing_engine.go, promo.go: whatever rules and codes are stored, each quote adds
\* up, keeps to the floor but for charm rounding, is what a bot shows for the period,
\* and a code that ValidatePromoCode accepts is the one the quote applies.
QuotesSafe ==
    \A price \in ListPrices, country \in QuoteCountries, days \in QuoteDays :
        /\ \A strategy \in CharmStrategies, code \in QuoteCodes :
             LET quote == GetTariffPrice(price, strategy, country, days, code)
             IN /\ Explained(quote)
                /\ FloorHolds(quote)
                /\ \/ country = "" /\ code = ""
                   \/ PricePeriod(price, strategy, country, days, code) = quote.final
        /\ \A quantity \in 1 .. 2 :
             LET dryRun == Simulate(price, country, days, quantity)
             IN price > 0 => Explained(dryRun) /\ dryRun.final >= rule.floor
        /\ \A code \in QuoteCodes :
             ValidatePromoCode(code) =>
                 /\ FindPromoByCode(code) # <<>>
                 /\ ~FindPromoByCode(code)[1].usedUp
                 /\ FindPromoByCode(code)[1].inDates

-----------------------------------------------------------------------------
(***************************************************************************)
(* Price experiments (builtin/tariff/ab_experiments.go).  An experiment is *)
(* one document.  Start, pause and conclude read it, check its status and  *)
(* write the whole document back, with nothing between them to keep a      *)
(* second administrator out.                                               *)
(***************************************************************************)

CONSTANTS
    Experimenters,      \* goroutines that serve administrators
    VariantLists,       \* lists of variants administrators send
    UserBucket,         \* the user's hash, modulo the sum of the shares
    ShareBase,          \* what the shares must sum to (PercentBase)
    MaxExperimentCalls  \* bound on requests

VARIABLES
    experiment,     \* the document, or NoExperiment
    experimenter,   \* the document each goroutine has read, and the one it will write
    disputed,       \* two requests overlapped
    concluded,      \* what the last conclusion said
    seen,           \* the variants users have been shown
    experimentCalls

experimentVars == <<experiment, experimenter, disputed, concluded, seen, experimentCalls>>

NoExperiment == [status |-> "none", variants |-> <<>>, winner |-> ""]
NoExperimentCall == [pc |-> "idle"]

ExperimentInit ==
    /\ experiment = NoExperiment
    /\ experimenter = [a \in Experimenters |-> NoExperimentCall]
    /\ disputed = FALSE
    /\ concluded = "none"
    /\ seen = [u \in DOMAIN UserBucket |-> {}]
    /\ experimentCalls = 0

-----------------------------------------------------------------------------
Keys(variants) == {variants[i].key : i \in DOMAIN variants}
Share(variants) == FoldLeft(LAMBDA sum, v : sum + v.share, 0, variants)

\* validateABExperimentInput.  Any status is accepted; none is "draft".
ValidExperiment(variants) ==
    /\ Len(variants) >= 2
    /\ \A i \in DOMAIN variants : variants[i].share > 0
    /\ \A i, j \in DOMAIN variants : i # j => variants[i].key # variants[j].key
    /\ Share(variants) = ShareBase

\* assignVariant: the first variant whose shares, added up, exceed the user's bucket.
AssignVariant(bucket, variants) ==
    LET reaches(i) == bucket < Share(SubSeq(variants, 1, i))
    IN IF \E i \in DOMAIN variants : reaches(i)
       THEN variants[CHOOSE i \in DOMAIN variants :
                        reaches(i) /\ \A j \in 1 .. i - 1 : ~reaches(j)]
       ELSE variants[Len(variants)]

\* CreateABExperiment.
CreateABExperiment(variants, status) ==
    /\ experiment = NoExperiment
    /\ ValidExperiment(variants)
    /\ experiment' = [status |-> status, variants |-> variants, winner |-> ""]
    /\ UNCHANGED <<experimenter, disputed, concluded, seen, experimentCalls>>

\* A request has read the document and will write next over it.
WillWrite(a, next) ==
    /\ experimenter[a].pc = "idle"
    /\ experimentCalls < MaxExperimentCalls
    /\ experimentCalls' = experimentCalls + 1
    /\ experimenter' = [experimenter EXCEPT ![a] = [pc |-> "write", doc |-> next]]
    /\ disputed' = (disputed \/ \E o \in Experimenters \ {a} : experimenter[o].pc # "idle")
    /\ UNCHANGED <<experiment, concluded, seen>>

\* Mutant: an experiment that is over may be started again.
StartAny(a) ==
    /\ experiment.status \in {"draft", "paused", "completed"}
    /\ WillWrite(a, [experiment EXCEPT !.status = "running"])

\* StartABExperiment.
StartABExperiment(a) ==
    /\ experiment.status \in {"draft", "paused"}
    /\ WillWrite(a, [experiment EXCEPT !.status = "running"])

\* PauseABExperiment.
PauseABExperiment(a) ==
    /\ experiment.status = "running"
    /\ WillWrite(a, [experiment EXCEPT !.status = "paused"])

\* ConcludeABExperiment: with no winner, or one of the variants.
ConcludeABExperiment(a, winner) ==
    /\ experiment.status \in {"running", "paused"}
    /\ winner \in {""} \cup Keys(experiment.variants)
    /\ WillWrite(a, [experiment EXCEPT !.status = "completed", !.winner = winner])

\* updateExperiment: the document is overwritten, whatever it has become.
UpdateExperiment(a) ==
    /\ experimenter[a].pc = "write"
    /\ experiment' = experimenter[a].doc
    /\ experimenter' = [experimenter EXCEPT ![a] = NoExperimentCall]
    /\ concluded' = IF experimenter[a].doc.status = "completed"
                    THEN experimenter[a].doc.winner ELSE concluded
    /\ UNCHANGED <<disputed, seen, experimentCalls>>

\* GetABExperimentResults for a user.
GetABExperimentResults(u) ==
    /\ experiment # NoExperiment
    /\ seen' = [seen EXCEPT ![u] =
                   @ \cup {AssignVariant(UserBucket[u], experiment.variants).key}]
    /\ UNCHANGED <<experiment, experimenter, disputed, concluded, experimentCalls>>

ExperimentNext ==
    \/ \E variants \in VariantLists, status \in {"draft", "running"} :
         CreateABExperiment(variants, status)
    \/ \E a \in Experimenters :
         \/ StartABExperiment(a)
         \/ PauseABExperiment(a)
         \/ \E winner \in {""} \cup Keys(experiment.variants) : ConcludeABExperiment(a, winner)
         \/ UpdateExperiment(a)
    \/ \E u \in DOMAIN UserBucket : GetABExperimentResults(u)

-----------------------------------------------------------------------------
\* ab_experiments.go: "the same user+experiment always gets the same variant", one
\* whose share the user's bucket falls into, through every start, pause and conclusion;
\* and unless two requests overlapped, an experiment once concluded stays concluded,
\* with its winner.
ExperimentsSafe ==
    /\ \A u \in DOMAIN UserBucket : \A k1, k2 \in seen[u] : k1 = k2
    /\ \A u \in DOMAIN UserBucket : \A k \in seen[u] :
         \E i \in DOMAIN experiment.variants :
            /\ experiment.variants[i].key = k
            /\ Share(SubSeq(experiment.variants, 1, i - 1)) <= UserBucket[u]
            /\ UserBucket[u] < Share(SubSeq(experiment.variants, 1, i))
    /\ ~disputed /\ concluded # "none" =>
         experiment.status = "completed" /\ experiment.winner = concluded
==============================================================================
