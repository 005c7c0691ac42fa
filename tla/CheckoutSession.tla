---------------------------- MODULE CheckoutSession ----------------------------
(***************************************************************************)
(* The built-in checkout plugin (internal/builtin/checkout): the checkout  *)
(* sessions and saved payment methods of one customer.  A request loads a  *)
(* document, works on its copy and writes the whole copy back; nothing is  *)
(* locked in between, and a confirmation calls CheckoutService, which      *)
(* creates a subscription, on the way.  Requests that are refused leave    *)
(* nothing behind and are not steps.  Prices and sources are left out: a   *)
(* confirmation whose sources do not add up is refused.                    *)
(***************************************************************************)
EXTENDS Integers, FiniteSets

CONSTANTS
    Sessions,       \* checkout sessions the customer opens
    Methods,        \* saved payment methods
    Tabs,           \* goroutines with a request of the customer
    MaxRequests     \* bound on the requests

ASSUME CheckoutAssumption == MaxRequests \in Nat /\ Sessions \cap Methods = {}

VARIABLES
    session,        \* documents of the sessions
    lapsed,         \* sessions past ExpiresAt
    opened,         \* what StartCheckout did for a session: no, started, error or orphan
    method,         \* saved methods: default, other or gone
    tab,            \* requests under way
    requests,       \* requests so far
    mixed           \* history: sessions and methods whose requests overlapped or died

checkoutVars == <<session, lapsed, opened, method, tab, requests, mixed>>

NoSession == [st |-> "none"]
NoRequest == [pc |-> "idle"]

CheckoutInit ==
    /\ session = [s \in Sessions |-> NoSession]
    /\ lapsed = {}
    /\ opened = [s \in Sessions |-> "no"]
    /\ method = [m \in Methods |-> "other"]
    /\ tab = [g \in Tabs |-> NoRequest]
    /\ requests = 0
    /\ mixed = {}

\* A request about document d begins; the requests it meets are marked.
Request(g, r, met) ==
    /\ tab[g] = NoRequest
    /\ requests < MaxRequests
    /\ requests' = requests + 1
    /\ tab' = [tab EXCEPT ![g] = r]
    /\ mixed' = IF \E o \in Tabs : tab[o] # NoRequest /\ tab[o].doc \in met
                THEN mixed \cup met ELSE mixed

Respond(g) == tab' = [tab EXCEPT ![g] = NoRequest]

-----------------------------------------------------------------------------
CreateSession(s) ==
    /\ session[s] = NoSession
    /\ session' = [session EXCEPT ![s] = [st |-> "pending", inv |-> FALSE, promo |-> FALSE]]
    /\ UNCHANGED <<lapsed, opened, method, tab, requests, mixed>>

Lapse(s) ==
    /\ session[s] # NoSession /\ s \notin lapsed
    /\ lapsed' = lapsed \cup {s}
    /\ UNCHANGED <<session, opened, method, tab, requests, mixed>>

\* loadSession and the handler's checks, with the copy as the handler leaves it.
LoadForConfirm(g, s) ==
    /\ session[s].st = "pending" /\ s \notin lapsed
    /\ Request(g, [pc |-> "start", doc |-> s, copy |-> session[s]], {s})
    /\ UNCHANGED <<session, lapsed, opened, method>>

LoadForCancel(g, s) ==
    /\ session[s].st \in {"pending", "processing"}
    /\ Request(g, [pc |-> "save", doc |-> s, copy |-> [session[s] EXCEPT !.st = "cancelled"]], {s})
    /\ UNCHANGED <<session, lapsed, opened, method>>

LoadForPromo(g, s) ==
    /\ session[s].st = "pending"
    /\ Request(g, [pc |-> "save", doc |-> s, copy |-> [session[s] EXCEPT !.promo = TRUE]], {s})
    /\ UNCHANGED <<session, lapsed, opened, method>>

\* Mutant: the error of StartCheckout is only logged.
ResultIgnored(g) ==
    {<<o, [tab[g].copy EXCEPT !.st = "completed", !.inv = TRUE]>> :
        o \in {opened[tab[g].doc], "started"}}

\* ConfirmSession calls StartCheckout.  It errs when the customer has a subscription,
\* the trial of an earlier call included, or before or after it has created one; it
\* succeeds with a payment page to visit, or without one.
Result(g) ==
    LET s == tab[g].doc
        done(st) == [tab[g].copy EXCEPT !.st = st, !.inv = TRUE]
        failed == [tab[g].copy EXCEPT !.st = "failed"]
    IN  IF \E x \in Sessions : opened[x] \in {"started", "orphan"}
        THEN {<<opened[s], failed>>}
        ELSE {<<"error", failed>>, <<"orphan", failed>>,
              <<"started", done("processing")>>, <<"started", done("completed")>>}

StartCheckout(g) ==
    /\ tab[g].pc = "start"
    /\ \E r \in Result(g) :
         /\ opened' = [opened EXCEPT ![tab[g].doc] = r[1]]
         /\ tab' = [tab EXCEPT ![g].pc = "save", ![g].copy = r[2]]
    /\ UNCHANGED <<session, lapsed, method, requests, mixed>>

SaveSession(g) ==
    /\ tab[g].pc = "save"
    /\ session' = [session EXCEPT ![tab[g].doc] = tab[g].copy]
    /\ Respond(g)
    /\ UNCHANGED <<lapsed, opened, method, requests, mixed>>

-----------------------------------------------------------------------------
\* SetDefaultMethod reads the target, lists the others, clears those that are
\* default one by one and sets the target.
LoadMethod(g, m) ==
    /\ method[m] # "gone"
    /\ Request(g, [pc |-> "list", doc |-> m, others |-> {}], Methods)
    /\ UNCHANGED <<session, lapsed, opened, method>>

ListMethods(g) ==
    /\ tab[g].pc = "list"
    /\ tab' = [tab EXCEPT ![g].pc = "clear",
                          ![g].others = {m \in Methods \ {tab[g].doc} : method[m] = "default"}]
    /\ UNCHANGED <<session, lapsed, opened, method, requests, mixed>>

\* UpdateDocument of a document that is gone fails.
UpdateMethod(m, flag) == method' = [method EXCEPT ![m] = IF @ = "gone" THEN @ ELSE flag]

ClearDefault(g) ==
    /\ tab[g].pc = "clear"
    /\ \E m \in tab[g].others :
         /\ UpdateMethod(m, "other")
         /\ tab' = [tab EXCEPT ![g].others = @ \ {m}]
    /\ UNCHANGED <<session, lapsed, opened, requests, mixed>>

SetDefaultMethod(g) ==
    /\ tab[g].pc = "clear" /\ tab[g].others = {}
    /\ UpdateMethod(tab[g].doc, "default")
    /\ Respond(g)
    /\ UNCHANGED <<session, lapsed, opened, requests, mixed>>

DeleteSavedMethod(m) ==
    /\ method[m] # "gone"
    /\ requests < MaxRequests
    /\ requests' = requests + 1
    /\ method' = [method EXCEPT ![m] = "gone"]
    /\ UNCHANGED <<session, lapsed, opened, tab, mixed>>

\* The pod dies, or the document store fails, in the middle of a request.
RequestDies(g) ==
    /\ tab[g] # NoRequest
    /\ Respond(g)
    /\ mixed' = mixed \cup {tab[g].doc} \cup (IF tab[g].doc \in Methods THEN Methods ELSE {})
    /\ UNCHANGED <<session, lapsed, opened, method, requests>>

SessionStep(g) ==
    \/ \E s \in Sessions : LoadForConfirm(g, s) \/ LoadForCancel(g, s) \/ LoadForPromo(g, s)
    \/ StartCheckout(g) \/ SaveSession(g)

MethodStep(g) ==
    \/ \E m \in Methods : LoadMethod(g, m)
    \/ ListMethods(g) \/ ClearDefault(g) \/ SetDefaultMethod(g)

CheckoutNext ==
    \/ \E s \in Sessions : CreateSession(s) \/ Lapse(s)
    \/ \E g \in Tabs : SessionStep(g) \/ MethodStep(g) \/ RequestDies(g)
    \/ \E m \in Methods : DeleteSavedMethod(m)

CheckoutSpec == CheckoutInit /\ [][CheckoutNext]_checkoutVars

-----------------------------------------------------------------------------
Unattended(d) == d \notin mixed /\ \A g \in Tabs : tab[g] # NoRequest => tab[g].doc # d

\* A session at rest says what became of its checkout: it names the invoice exactly if
\* StartCheckout succeeded, and is failed only if it did not.  The customer's other
\* sessions may take the one subscription at any time; requests that overlap on the
\* session itself, or die, void this (ConfirmSession holds no lock while it calls
\* StartCheckout), but even they never show a session under way or completed without
\* the invoice it is about.
SessionTellsCheckout ==
    \A s \in Sessions :
        /\ session[s] # NoSession /\ Unattended(s) =>
              /\ session[s].inv <=> opened[s] = "started"
              /\ session[s].st = "failed" => opened[s] # "started"
        /\ session[s].st \in {"processing", "completed"} =>
              session[s].inv /\ opened[s] = "started"

\* Requests that follow one another leave at most one default payment method.
OneDefaultMethod ==
    (\A m \in Methods : Unattended(m)) => Cardinality({m \in Methods : method[m] = "default"}) <= 1

\* The documents of a customer's checkout agree with one another, whole-document writes
\* or not (checkout/handler.go).
CheckoutConsistent == SessionTellsCheckout /\ OneDefaultMethod
=============================================================================
