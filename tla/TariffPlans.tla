----------------------------- MODULE TariffPlans -----------------------------
(***************************************************************************)
(* Tariffs and the billing plans derived from them (builtin/tariff).       *)
(* A tariff is a document of the plugin's store; every pricing period of   *)
(* it is sold as a billing plan of its own, whose id DerivePlanID computes *)
(* from the document id and the length of the period.  Handlers write the  *)
(* document and then bring the plans into line, plan by plan, in no        *)
(* transaction and with errors only logged.                                *)
(***************************************************************************)
EXTENDS Naturals, FiniteSets

CONSTANTS
    Tariffs,            \* document ids
    Editors,            \* goroutines that serve administrators
    Durations,          \* lengths of pricing periods, in days
    MaxEdits,           \* bound on requests
    MaxSyncFaults       \* bound on plan writes that fail

VARIABLES
    tariff,     \* the documents
    plan,       \* plan[t][d]: none, on (for sale) or off; d = 0 is the document's own id
    editor,     \* what each goroutine is doing
    drift,      \* tariffs whose last synchronisation was not whole
    tariffEdits, syncFaults

tariffVars == <<tariff, plan, editor, drift, tariffEdits, syncFaults>>

NoTariff == [active |-> FALSE, periods |-> {}, free |-> FALSE, deleted |-> TRUE]

\* TariffInput after validation.  A tariff without periods is sold at its own price,
\* which alone may be zero.
TariffInput ==
    {[active |-> a, periods |-> ps, free |-> f, deleted |-> FALSE] :
        a \in BOOLEAN, ps \in SUBSET Durations, f \in BOOLEAN}
    \ {[active |-> a, periods |-> ps, free |-> TRUE, deleted |-> FALSE] :
        a \in BOOLEAN, ps \in SUBSET Durations \ {{}}}

\* DerivePlanID, of every period of a tariff.
PlanKeys(input) == IF input.periods = {} THEN {0} ELSE input.periods

\* The plans deactivateOrphanedPlans looks for: the durations it lists, and the
\* document's own.
Candidates == {0} \cup (Durations \cap {1, 7, 14, 30, 60, 90, 120, 180, 270, 365, 730})

Stored(t) == ~tariff[t].deleted

Served == [pc |-> "idle"]

\* The goroutine is at work on tariff t.
WorksOn(e, t) == editor[e].pc # "idle" /\ t \in {editor[e].t} \cup DOMAIN editor[e].rest

\* At most one tariff has been stored and synchronised before.
TariffInit ==
    /\ \E t \in Tariffs, input \in {NoTariff} \cup {i \in TariffInput : i.active /\ ~i.free} :
         /\ tariff = [o \in Tariffs |-> IF o = t THEN input ELSE NoTariff]
         /\ plan = [o \in Tariffs |-> [d \in Durations \cup {0} |->
                      IF o = t /\ input.active /\ d \in PlanKeys(input) THEN "on" ELSE "none"]]
    /\ editor = [e \in Editors |-> Served]
    /\ drift = {}
    /\ tariffEdits = 0
    /\ syncFaults = 0

-----------------------------------------------------------------------------
\* A request on tariffs ts starts: it, and whoever is at work on them, is not alone.
Accept(e, ts, work) ==
    /\ editor[e].pc = "idle"
    /\ tariffEdits < MaxEdits
    /\ tariffEdits' = tariffEdits + 1
    /\ LET others == {o \in Editors \ {e} : \E t \in ts : WorksOn(o, t)} IN
       editor' = [o \in Editors |->
           IF o = e THEN [work EXCEPT !.alone = (others = {})]
           ELSE IF o \in others THEN [editor[o] EXCEPT !.alone = FALSE] ELSE editor[o]]
    /\ UNCHANGED syncFaults

\* syncTariffToPlan of one tariff with the handler's copy of it, and what comes after.
\* rest holds the copies of the tariffs that are to follow; alone: nobody else has been at
\* work on its tariffs since the request began; born: a plan was made for sale that should
\* not be.
Sync(t, input, rest, then) ==
    [pc |-> "get", t |-> t, input |-> input, rest |-> rest, then |-> then,
     todo |-> PlanKeys(input), key |-> 0, born |-> FALSE, alone |-> TRUE]

NoMore == [t \in {} |-> NoTariff]

\* CreateTariff stores the document and synchronises it.
CreateTariff(e, t, input) ==
    /\ ~Stored(t)
    /\ \A d \in DOMAIN plan[t] : plan[t][d] = "none"   \* document ids are never reused
    /\ Accept(e, {t}, Sync(t, input, NoMore, "answer"))
    /\ tariff' = [tariff EXCEPT ![t] = input]
    /\ UNCHANGED <<plan, drift>>

\* ImportTariffs and CloneTariff store documents, a clone an inactive one; neither
\* makes plans.
StoreOnly(e, t, input) ==
    /\ ~Stored(t)
    /\ \A d \in DOMAIN plan[t] : plan[t][d] = "none"
    /\ editor[e].pc = "idle"
    /\ tariffEdits < MaxEdits
    /\ tariffEdits' = tariffEdits + 1
    /\ tariff' = [tariff EXCEPT ![t] = input]
    /\ drift' = drift \cup {t}
    /\ UNCHANGED <<plan, editor, syncFaults>>

ImportTariffs(e, t, input) == StoreOnly(e, t, input)

CloneTariff(e, t, from) ==
    /\ Stored(from)
    /\ StoreOnly(e, t, [tariff[from] EXCEPT !.active = FALSE])

\* UpdateTariff, DeleteTariff and ArchiveTariff look the document up first.
LoadForUpdate(e, t, input) ==
    /\ Stored(t)
    /\ Accept(e, {t}, [Sync(t, input, NoMore, "answer") EXCEPT !.pc = "update"])
    /\ UNCHANGED <<tariff, plan, drift>>

LoadForDelete(e, t) ==
    /\ Stored(t)
    /\ Accept(e, {t}, Sync(t, [tariff[t] EXCEPT !.active = FALSE], NoMore, "delete"))
    /\ UNCHANGED <<tariff, plan, drift>>

LoadForArchive(e, t) ==
    /\ Stored(t)
    /\ Accept(e, {t}, [Sync(t, [tariff[t] EXCEPT !.active = FALSE], NoMore, "answer")
                         EXCEPT !.pc = "archive"])
    /\ UNCHANGED <<tariff, plan, drift>>

\* SyncAllTariffs lists the documents and goes through its copies.
SyncAllTariffs(e) ==
    LET listed == {t \in Tariffs : Stored(t)} IN
    /\ \E t \in listed :
         Accept(e, listed, Sync(t, tariff[t], [o \in listed \ {t} |-> tariff[o]], "answer"))
    /\ UNCHANGED <<tariff, plan, drift>>

-----------------------------------------------------------------------------
UpdateTariff(e) ==
    /\ editor[e].pc = "update"
    /\ LET t == editor[e].t IN
       IF Stored(t)
       THEN /\ tariff' = [tariff EXCEPT ![t] = editor[e].input]
            /\ editor' = [editor EXCEPT ![e].pc = "get"]
       ELSE /\ editor' = [editor EXCEPT ![e] = Served]
            /\ UNCHANGED tariff
    /\ UNCHANGED <<plan, drift, tariffEdits, syncFaults>>

\* The plans stay as they are.
ArchiveTariff(e) ==
    /\ editor[e].pc = "archive"
    /\ LET t == editor[e].t IN
       IF Stored(t) THEN /\ tariff' = [tariff EXCEPT ![t] = editor[e].input]
                         /\ drift' = drift \cup {t}
                    ELSE UNCHANGED <<tariff, drift>>
    /\ editor' = [editor EXCEPT ![e] = Served]
    /\ UNCHANGED <<plan, tariffEdits, syncFaults>>

\* planRepo.GetByID of one period's plan: an existing one is updated, a missing one
\* created.
GetPlan(e) ==
    /\ editor[e].pc = "get"
    /\ IF editor[e].todo = {}
       THEN editor' = [editor EXCEPT ![e].pc = "orphans",
                                     ![e].todo = Candidates \ PlanKeys(editor[e].input)]
       ELSE \E d \in editor[e].todo :
              editor' = [editor EXCEPT
                ![e].pc = IF plan[editor[e].t][d] = "none" THEN "create" ELSE "put",
                ![e].todo = @ \ {d},
                ![e].key = d]
    /\ UNCHANGED <<tariff, plan, drift, tariffEdits, syncFaults>>

Sale(active) == IF active THEN "on" ELSE "off"

PutPlan(e) ==
    /\ editor[e].pc = "put"
    /\ LET w == editor[e] IN
       /\ plan' = [plan EXCEPT ![w.t][w.key] = Sale(w.input.active)]
       /\ editor' = [editor EXCEPT ![e] = [w EXCEPT !.pc = "get"]]
    /\ UNCHANGED <<tariff, drift, tariffEdits, syncFaults>>

\* The rest of a handler after its synchronisation, whole or not.
Finish(e) ==
    LET w == editor[e] IN
    \/ /\ w.then = "delete"
       /\ editor' = [editor EXCEPT ![e].pc = "delete"]
    \/ \E t \in DOMAIN w.rest :
         editor' = [editor EXCEPT ![e] =
             [Sync(t, w.rest[t], [o \in DOMAIN w.rest \ {t} |-> w.rest[o]], "answer")
                EXCEPT !.alone = w.alone]]
    \/ /\ w.then = "answer" /\ DOMAIN w.rest = {}
       /\ editor' = [editor EXCEPT ![e] = Served]

\* NewPlan refuses a price of zero; otherwise the plan is for sale from the start,
\* whatever the tariff says.  A plan someone else has created meanwhile is an error.
CreatePlan(e) ==
    /\ editor[e].pc = "create"
    /\ LET w == editor[e] IN
       IF w.input.free \/ plan[w.t][w.key] # "none"
       THEN /\ drift' = drift \cup {w.t}
            /\ Finish(e)
            /\ UNCHANGED plan
       ELSE /\ plan' = [plan EXCEPT ![w.t][w.key] = "on"]
            /\ editor' = [editor EXCEPT ![e] =
                 [w EXCEPT !.pc = "get", !.born = @ \/ ~w.input.active]]
            /\ UNCHANGED drift
    /\ UNCHANGED <<tariff, tariffEdits, syncFaults>>

\* Mutant: the periods that were dropped stay for sale.
KeepOrphans(e) ==
    /\ editor[e].pc = "orphans"
    /\ Finish(e)
    /\ drift' = IF editor[e].alone /\ ~editor[e].born THEN drift \ {editor[e].t}
                                                      ELSE drift \cup {editor[e].t}
    /\ UNCHANGED <<tariff, plan, tariffEdits, syncFaults>>

\* deactivateOrphanedPlans, one candidate at a time; then the tariff is in line, if
\* nobody else was at work on it and no plan was born for sale.
DeactivateOrphanedPlans(e) ==
    /\ editor[e].pc = "orphans"
    /\ LET w == editor[e] IN
       IF w.todo = {}
       THEN /\ Finish(e)
            /\ drift' = IF w.alone /\ ~w.born THEN drift \ {w.t} ELSE drift \cup {w.t}
            /\ UNCHANGED plan
       ELSE \E d \in w.todo :
            /\ plan' = [plan EXCEPT ![w.t][d] = IF @ = "on" THEN "off" ELSE @]
            /\ editor' = [editor EXCEPT ![e].todo = @ \ {d}]
            /\ UNCHANGED drift
    /\ UNCHANGED <<tariff, tariffEdits, syncFaults>>

\* A read or write of a plan fails: the synchronisation ends there, with a line in the
\* log, and the handler goes on.
SyncFails(e) ==
    /\ editor[e].pc \in {"get", "put", "create", "orphans"}
    /\ syncFaults < MaxSyncFaults
    /\ syncFaults' = syncFaults + 1
    /\ drift' = drift \cup {editor[e].t}
    /\ Finish(e)
    /\ UNCHANGED <<tariff, plan, tariffEdits>>

DeleteTariff(e) ==
    /\ editor[e].pc = "delete"
    /\ tariff' = [tariff EXCEPT ![editor[e].t] = NoTariff]
    /\ editor' = [editor EXCEPT ![e] = Served]
    /\ UNCHANGED <<plan, drift, tariffEdits, syncFaults>>

TariffNext ==
    \E e \in Editors :
        \/ \E t \in Tariffs :
             \/ \E input \in TariffInput :
                  CreateTariff(e, t, input) \/ ImportTariffs(e, t, input)
                    \/ LoadForUpdate(e, t, input)
             \/ \E from \in Tariffs : CloneTariff(e, t, from)
             \/ LoadForDelete(e, t)
             \/ LoadForArchive(e, t)
        \/ SyncAllTariffs(e)
        \/ UpdateTariff(e)
        \/ ArchiveTariff(e)
        \/ GetPlan(e)
        \/ PutPlan(e)
        \/ CreatePlan(e)
        \/ DeactivateOrphanedPlans(e)
        \/ SyncFails(e)
        \/ DeleteTariff(e)

TariffSpec == TariffInit /\ [][TariffNext]_tariffVars

-----------------------------------------------------------------------------
OnSale(t) == {d \in DOMAIN plan[t] : plan[t][d] = "on"}

Offered(t) == IF tariff[t].active THEN PlanKeys(tariff[t]) ELSE {}

\* handler.go, syncTariffToPlan: "This ensures tariffs created in the plugin are visible
\* in the cabinet".  After a synchronisation that was whole and alone, through any
\* history of edits, failures and overlaps before it, every period the tariff offers is
\* for sale and nothing else is, but for periods of a length that
\* deactivateOrphanedPlans does not list.
PlansFollowTariff ==
    \A t \in Tariffs \ drift :
        (\A e \in Editors : ~WorksOn(e, t)) =>
            /\ Offered(t) \subseteq OnSale(t)
            /\ OnSale(t) \cap Candidates \subseteq Offered(t)
=============================================================================
