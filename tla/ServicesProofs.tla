---------------------------- MODULE ServicesProofs ----------------------------
(***************************************************************************)
(* Proofs about services that share no state: the entity locks, and in the *)
(* plugin runtime the hooks, the breaker of a hook, the pool of instances  *)
(* and the operations of an administrator; a customer's checkout, the      *)
(* ledger of the balance plugin, and the Telegram bots.  Each holds for    *)
(* any number of goroutines, plugins, runners, sessions, payment methods,  *)
(* ledger entries, shops and updates.                                      *)
(***************************************************************************)
EXTENDS EntityLocks, CheckoutSession, Balance, PluginHooks, PluginPool, PluginLifecycle,
        TelegramBots, FiniteSetTheorems, WellFoundedInduction, TLAPS

-----------------------------------------------------------------------------
\* EntityLocks.  Until the evictor hits a goroutine, everyone works with the object under
\* the key; an object is always held by one goroutine only.
LockInv ==
    /\ lock \in [LockThreads -> Nat]
    /\ lockPc \in [LockThreads -> {"idle", "loaded", "waiting", "holding"}]
    /\ created \in Nat
    /\ \A t \in LockThreads : ~raced /\ lockPc[t] # "idle" => lock[t] = entry
    /\ \A t, u \in LockThreads :
         lockPc[t] = "holding" /\ lockPc[u] = "holding" /\ lock[t] = lock[u] => t = u
    /\ entry \in Nat /\ NoLock \notin stale /\ (evict => entry # NoLock)
    /\ \A t \in LockThreads : lockPc[t] # "idle" => lock[t] # NoLock

LEMMA LockInitInv == LockInit => LockInv
  BY DEF LockInit, LockInv, NoLock

LEMMA LockStep == LockInv /\ [LockNext]_lockVars => LockInv'
<1> SUFFICES ASSUME LockInv, [LockNext]_lockVars PROVE LockInv'
  OBVIOUS
<1>1. ASSUME NEW t \in LockThreads, LoadOrStore(t) PROVE LockInv'
  <2>1. CASE entry # NoLock
    BY <1>1, <2>1 DEF LoadOrStore, LockInv
  <2>2. CASE entry = NoLock
    BY <1>1, <2>2 DEF LoadOrStore, LockInv, NoLock
  <2> QED BY <2>1, <2>2
<1>2. ASSUME NEW t \in LockThreads, Touch(t) PROVE LockInv'
  BY <1>2 DEF Touch, LockInv
<1>3. ASSUME NEW t \in LockThreads, Acquire(t) PROVE LockInv'
  BY <1>3 DEF Acquire, LockInv
<1>4. ASSUME NEW t \in LockThreads, Unlock(t) PROVE LockInv'
  BY <1>4 DEF Unlock, LockInv, NoLock
<1>5. ASSUME NEW l \in Locks, Age(l) PROVE LockInv'
  BY <1>5 DEF Age, LockInv, NoLock
<1>6. CASE FindStale
  BY <1>6 DEF FindStale, LockInv
<1>7. CASE DeleteEntry
  BY <1>7 DEF DeleteEntry, LockInv, NoLock
<1>8. CASE UNCHANGED lockVars
  BY <1>8 DEF lockVars, LockInv
<1> QED BY <1>1, <1>2, <1>3, <1>4, <1>5, <1>6, <1>7, <1>8 DEF LockNext

\* For any number of goroutines, two hold locks of the entity at once only if the evictor
\* deleted the entry while one of them used its object.
THEOREM EventsAreSerial == LockSpec => []SerialUnlessEvicted
<1>1. LockInv => SerialUnlessEvicted
  BY DEF LockInv, SerialUnlessEvicted
<1> QED BY LockInitInv, LockStep, <1>1, PTL DEF LockSpec

-----------------------------------------------------------------------------
\* PluginHooks.  A message that is acked stays served, dead-lettered or dropped.
AsyncInv == attempt \in Nat /\ AsyncHookSettled

LEMMA AsyncStep == AsyncInv /\ [AsyncNext]_asyncVars => AsyncInv'
<1> SUFFICES ASSUME AsyncInv, [AsyncNext]_asyncVars PROVE AsyncInv'
  OBVIOUS
<1> USE AsyncAssumption DEF AsyncInv, AsyncHookSettled
<1>1. CASE Publish \/ PublishError \/ RequestEnds
  BY <1>1 DEF Publish, PublishError, RequestEnds
<1>2. CASE ConsumeAsync \/ \E p \in AsyncPlugins : CallPlugin(p)
  BY <1>2 DEF ConsumeAsync, CallPlugin
<1>3. CASE AckHandled
  BY <1>3 DEF AckHandled, AllHandled
<1>4. CASE NackForRetry
  BY <1>4 DEF NackForRetry
<1>5. CASE SendPluginToDLQ
  BY <1>5 DEF SendPluginToDLQ
<1>6. CASE RestartConsumer \/ Redeliver
  BY <1>6 DEF RestartConsumer, Redeliver
<1>7. CASE UNCHANGED asyncVars
  BY <1>7 DEF asyncVars
<1> QED BY <1>1, <1>2, <1>3, <1>4, <1>5, <1>6, <1>7 DEF AsyncNext

\* For any set of plugins and any limit of attempts, PluginAsyncConsumer acks a message that
\* every plugin handled or that it dead-lettered, unless the dead letter was refused.
THEOREM AsyncHooksAreSettled == AsyncSpec => []AsyncHookSettled
<1>1. AsyncInit => AsyncInv
  BY AsyncAssumption DEF AsyncInit, AsyncInv, AsyncHookSettled
<1>2. AsyncInv => AsyncHookSettled
  BY DEF AsyncInv
<1> QED BY <1>1, AsyncStep, <1>2, PTL DEF AsyncSpec

-----------------------------------------------------------------------------
\* CheckoutSession.
Statuses == {"pending", "processing", "completed", "failed", "cancelled"}
SessionDocs == [st : Statuses, inv : BOOLEAN, promo : BOOLEAN]
SessionRequests == [pc : {"start", "save"}, doc : Sessions, copy : SessionDocs]
ListRequests == [pc : {"list", "clear"}, doc : Methods, others : SUBSET Methods]

CheckoutTypeOK ==
    /\ session \in [Sessions -> {NoSession} \cup SessionDocs]
    /\ opened \in [Sessions -> {"no", "error", "orphan", "started"}]
    /\ method \in [Methods -> {"default", "other", "gone"}]
    /\ tab \in [Tabs -> {NoRequest} \cup SessionRequests \cup ListRequests]

\* The requests for a document, and what a copy of a session may say.
AtDoc(g, d) == tab[g] # NoRequest /\ tab[g].doc = d
Tells(copy, s) ==
    /\ copy.inv <=> opened[s] = "started"
    /\ copy.st = "failed" => opened[s] # "started"
Backed(copy, s) ==
    /\ copy.st = "pending" => ~copy.inv
    /\ copy.st \in {"processing", "completed"} => copy.inv /\ opened[s] = "started"

\* Requests that share a document have marked it, and those that share a method all methods.
MarkedInv ==
    /\ \A d \in Sessions : \A g, h \in Tabs : AtDoc(g, d) /\ AtDoc(h, d) => g = h \/ d \in mixed
    /\ \A g, h \in Tabs : \A d, e \in Methods : AtDoc(g, d) /\ AtDoc(h, e) => g = h \/ Methods \subseteq mixed

\* A document, or the copy of the one request that works on it, tells what StartCheckout did.
SessionInv ==
    /\ \A s \in Sessions :
         /\ session[s] = NoSession => opened[s] = "no" /\ \A g \in Tabs : ~AtDoc(g, s)
         /\ session[s] # NoSession => Backed(session[s], s)
         /\ session[s] # NoSession /\ Unattended(s) => Tells(session[s], s)
    /\ \A g \in Tabs, s \in Sessions : AtDoc(g, s) =>
         /\ Backed(tab[g].copy, s)
         /\ s \notin mixed => Tells(tab[g].copy, s)
         /\ tab[g].pc = "start" => tab[g].copy.st = "pending"

\* At most one method is the default, but for those a request is about to clear and the one
\* it is about to set.
MethodInv ==
    Methods \cap mixed = {} =>
        /\ \A m, n \in Methods : method[m] = "default" /\ method[n] = "default" =>
             m = n \/ \E g \in Tabs, d \in Methods : AtDoc(g, d) /\ tab[g].pc = "clear"
        /\ \A g \in Tabs, d \in Methods : AtDoc(g, d) /\ tab[g].pc = "clear" =>
             \A m \in Methods : method[m] = "default" => m = d \/ m \in tab[g].others

CheckoutInv == CheckoutTypeOK /\ MarkedInv /\ SessionInv /\ MethodInv

LEMMA RequestRecords ==
    ASSUME NEW x \in {NoRequest} \cup SessionRequests \cup ListRequests
    PROVE  /\ x.pc \in {"start", "save"} => x \in SessionRequests
           /\ x.pc \in {"list", "clear"} => x \in ListRequests
           /\ x # NoRequest => x \in SessionRequests \cup ListRequests
           /\ x # NoRequest => x.pc # "idle"
  BY DEF NoRequest, SessionRequests, ListRequests

LEMMA SessionRecords ==
    ASSUME CheckoutTypeOK, NEW s \in Sessions
    PROVE  /\ session[s] \in {NoSession} \cup SessionDocs
           /\ session[s] # NoSession => session[s] \in SessionDocs
           /\ session[s].st \in Statuses => session[s] # NoSession
  BY DEF CheckoutTypeOK, NoSession, Statuses

\* Only the request of g changes.
OnlyTab(g) == \A h \in Tabs : h # g => tab'[h] = tab[h]

LEMMA RequestChanges ==
    ASSUME CheckoutTypeOK, NEW g \in Tabs, NEW r, NEW met, Request(g, r, met)
    PROVE  OnlyTab(g) /\ tab'[g] = r /\ tab[g] = NoRequest
  BY DEF CheckoutTypeOK, Request, OnlyTab

LEMMA RespondChanges ==
    ASSUME CheckoutTypeOK, NEW g \in Tabs, Respond(g)
    PROVE  OnlyTab(g) /\ tab'[g] = NoRequest
  BY DEF CheckoutTypeOK, Respond, OnlyTab

LEMMA TabTyped ==
    ASSUME CheckoutTypeOK, NEW g \in Tabs,
           NEW r \in {NoRequest} \cup SessionRequests \cup ListRequests, tab' = [tab EXCEPT ![g] = r]
    PROVE  tab' \in [Tabs -> {NoRequest} \cup SessionRequests \cup ListRequests]
  BY DEF CheckoutTypeOK

\* The copy a handler makes of a session's document.
LEMMA CopyTyped ==
    ASSUME NEW x \in SessionDocs, NEW st \in Statuses
    PROVE  /\ [x EXCEPT !.st = st] \in SessionDocs
           /\ [x EXCEPT !.promo = TRUE] \in SessionDocs
           /\ [x EXCEPT !.st = st, !.inv = TRUE] \in SessionDocs
  BY DEF SessionDocs

-----------------------------------------------------------------------------
\* The requests for documents after a request begins, goes on or ends.
LEMMA MarkedByRequest ==
    ASSUME CheckoutTypeOK, MarkedInv, NEW g \in Tabs, NEW r, NEW met, Request(g, r, met), r.doc \in met,
           \/ r.doc \in Sessions /\ met = {r.doc}
           \/ r.doc \in Methods /\ met = Methods
    PROVE  MarkedInv'
<1>1. OnlyTab(g) /\ tab'[g] = r /\ tab[g] = NoRequest
  BY RequestChanges
<1>2. mixed \subseteq mixed'
  BY DEF Request
<1>3. ASSUME NEW h \in Tabs, h # g, NEW e \in met, AtDoc(h, e) PROVE met \subseteq mixed'
  BY <1>3 DEF Request, AtDoc
<1>4. \A h \in Tabs : \A d : h # g => (AtDoc(h, d)' <=> AtDoc(h, d))
  BY <1>1 DEF OnlyTab, AtDoc
<1>5. \A d : AtDoc(g, d)' => d = r.doc
  BY <1>1 DEF AtDoc
<1> QED BY <1>2, <1>3, <1>4, <1>5, CheckoutAssumption DEF MarkedInv

LEMMA MarkedByFewer ==
    ASSUME MarkedInv, mixed \subseteq mixed', \A h \in Tabs : \A d : AtDoc(h, d)' => AtDoc(h, d)
    PROVE  MarkedInv'
  BY DEF MarkedInv

\* What is said of the sessions does not depend on other documents.
LEMMA SessionByFrame ==
    ASSUME SessionInv, UNCHANGED <<session, opened>>, mixed \subseteq mixed',
           \A h \in Tabs : \A s \in Sessions : AtDoc(h, s)' <=> AtDoc(h, s),
           \A h \in Tabs : \A s \in Sessions : AtDoc(h, s) => tab'[h] = tab[h]
    PROVE  SessionInv'
  BY DEF SessionInv, Unattended, AtDoc, Tells, Backed

\* Nor does what is said of the methods.
LEMMA MethodByFrame ==
    ASSUME MethodInv, UNCHANGED method, mixed \subseteq mixed',
           \A h \in Tabs : \A d \in Methods : AtDoc(h, d)' <=> AtDoc(h, d),
           \A h \in Tabs : \A d \in Methods : AtDoc(h, d) => tab'[h] = tab[h]
    PROVE  MethodInv'
<1> SUFFICES ASSUME Methods \cap mixed' = {} PROVE MethodInv'
  BY DEF MethodInv
<1>1. Methods \cap mixed = {}
  OBVIOUS
<1> QED BY <1>1 DEF MethodInv

-----------------------------------------------------------------------------
\* A request about session s loads its document.
LEMMA LoadKeeps ==
    ASSUME CheckoutInv, NEW g \in Tabs, NEW s \in Sessions, NEW r \in SessionRequests,
           Request(g, r, {s}), r.doc = s, session[s] # NoSession, Backed(r.copy, s),
           Tells(session[s], s) => Tells(r.copy, s), r.pc = "start" => r.copy.st = "pending",
           UNCHANGED <<session, lapsed, opened, method>>
    PROVE  CheckoutInv'
<1>0. CheckoutTypeOK /\ MarkedInv /\ SessionInv /\ MethodInv
  BY DEF CheckoutInv
<1>1. OnlyTab(g) /\ tab'[g] = r /\ tab[g] = NoRequest
  BY <1>0, RequestChanges
<1>2. mixed \subseteq mixed' /\ tab' = [tab EXCEPT ![g] = r]
  BY DEF Request
<1>3. \A h \in Tabs : \A d : h # g => (AtDoc(h, d)' <=> AtDoc(h, d))
  BY <1>1 DEF OnlyTab, AtDoc
<1>4. \A d : ~AtDoc(g, d) /\ (AtDoc(g, d)' => d = s)
  BY <1>1 DEF AtDoc
<1>5. CheckoutTypeOK'
  BY <1>0, <1>2, TabTyped DEF CheckoutTypeOK
<1>6. MarkedInv'
  BY <1>0, MarkedByRequest
<1>7. SessionInv'
  <2>1. s \notin mixed' => s \notin mixed /\ \A h \in Tabs : ~AtDoc(h, s)
    BY DEF Request, AtDoc
  <2>2. s \notin mixed' => Unattended(s)
    BY <2>1 DEF Unattended, AtDoc
  <2>3. s \notin mixed' => Tells(r.copy, s)
    BY <1>0, <2>2 DEF SessionInv
  <2>4. \A x \in Sessions : Unattended(x)' => Unattended(x)
    BY <1>1, <1>2 DEF Unattended, OnlyTab
  <2>5. \A h \in Tabs, x \in Sessions : AtDoc(h, x)' =>
          /\ Backed(tab'[h].copy, x)
          /\ x \notin mixed' => Tells(tab'[h].copy, x)
          /\ tab'[h].pc = "start" => tab'[h].copy.st = "pending"
    BY <1>0, <1>1, <1>2, <1>3, <1>4, <2>3 DEF SessionInv, OnlyTab
  <2> QED BY <1>0, <1>3, <1>4, <2>4, <2>5 DEF SessionInv, Tells, Backed
<1>8. MethodInv'
  <2>1. \A h \in Tabs : \A d \in Methods : AtDoc(h, d)' <=> AtDoc(h, d)
    BY <1>3, <1>4, CheckoutAssumption
  <2>2. \A h \in Tabs : \A d \in Methods : AtDoc(h, d) => tab'[h] = tab[h]
    BY <1>1, <1>4 DEF OnlyTab
  <2> QED BY <1>0, <1>2, <2>1, <2>2, MethodByFrame
<1> QED BY <1>5, <1>6, <1>7, <1>8 DEF CheckoutInv

LEMMA LoadForConfirmKeeps ==
    ASSUME CheckoutInv, NEW g \in Tabs, NEW s \in Sessions, LoadForConfirm(g, s)
    PROVE  CheckoutInv'
<1> DEFINE r == [pc |-> "start", doc |-> s, copy |-> session[s]]
<1>1. session[s] \in SessionDocs /\ session[s] # NoSession
  BY SessionRecords DEF LoadForConfirm, CheckoutInv, Statuses
<1>2. r \in SessionRequests /\ r.doc = s /\ r.copy = session[s] /\ r.copy.st = "pending"
  BY <1>1 DEF SessionRequests, LoadForConfirm
<1>3. Backed(r.copy, s)
  BY <1>1, <1>2 DEF CheckoutInv, SessionInv
<1>4. Request(g, r, {s}) /\ UNCHANGED <<session, lapsed, opened, method>>
  BY DEF LoadForConfirm
<1> HIDE DEF r
<1> QED BY <1>1, <1>2, <1>3, <1>4, LoadKeeps

LEMMA LoadForCancelKeeps ==
    ASSUME CheckoutInv, NEW g \in Tabs, NEW s \in Sessions, LoadForCancel(g, s)
    PROVE  CheckoutInv'
<1> DEFINE x == [session[s] EXCEPT !.st = "cancelled"]
           r == [pc |-> "save", doc |-> s, copy |-> x]
<1>1. session[s] \in SessionDocs /\ session[s] # NoSession
  BY SessionRecords DEF LoadForCancel, CheckoutInv, Statuses
<1>2. x \in SessionDocs
  BY <1>1, CopyTyped DEF Statuses
<1>3. x.st = "cancelled" /\ x.inv = session[s].inv
  BY <1>1 DEF SessionDocs
<1>4. Request(g, r, {s}) /\ UNCHANGED <<session, lapsed, opened, method>>
  BY DEF LoadForCancel
<1> HIDE DEF x
<1>5. r \in SessionRequests /\ r.doc = s /\ r.copy = x /\ r.pc = "save"
  BY <1>2 DEF SessionRequests
<1>6. Backed(r.copy, s) /\ (Tells(session[s], s) => Tells(r.copy, s))
  BY <1>3, <1>5 DEF Backed, Tells
<1> HIDE DEF r
<1> QED BY <1>1, <1>4, <1>5, <1>6, LoadKeeps

LEMMA LoadForPromoKeeps ==
    ASSUME CheckoutInv, NEW g \in Tabs, NEW s \in Sessions, LoadForPromo(g, s)
    PROVE  CheckoutInv'
<1> DEFINE x == [session[s] EXCEPT !.promo = TRUE]
           r == [pc |-> "save", doc |-> s, copy |-> x]
<1>1. session[s] \in SessionDocs /\ session[s] # NoSession
  BY SessionRecords DEF LoadForPromo, CheckoutInv, Statuses
<1>2. x \in SessionDocs
  BY <1>1, CopyTyped DEF Statuses
<1>3. x.st = session[s].st /\ x.inv = session[s].inv
  BY <1>1 DEF SessionDocs
<1>4. Request(g, r, {s}) /\ UNCHANGED <<session, lapsed, opened, method>>
  BY DEF LoadForPromo
<1> HIDE DEF x
<1>5. r \in SessionRequests /\ r.doc = s /\ r.copy = x /\ r.pc = "save"
  BY <1>2 DEF SessionRequests
<1>6. Backed(session[s], s)
  BY <1>1 DEF CheckoutInv, SessionInv
<1>7. Backed(r.copy, s) /\ (Tells(session[s], s) => Tells(r.copy, s))
  BY <1>3, <1>5, <1>6 DEF Backed, Tells
<1> HIDE DEF r
<1> QED BY <1>1, <1>4, <1>5, <1>7, LoadKeeps

\* Result: what StartCheckout may make of a pending copy.
LEMMA ResultTells ==
    ASSUME CheckoutTypeOK, NEW g \in Tabs, NEW s \in Sessions, tab[g].doc = s,
           tab[g].copy \in SessionDocs, tab[g].copy.st = "pending", ~tab[g].copy.inv,
           NEW p \in Result(g)
    PROVE  /\ p[1] \in {"no", "error", "orphan", "started"}
           /\ p[2] \in SessionDocs
           /\ opened[s] = "started" => p[1] = "started"
           /\ \/ p[1] = "started" /\ p[2].inv /\ p[2].st \in {"processing", "completed"}
              \/ p[1] # "started" /\ ~p[2].inv /\ p[2].st = "failed"
              \/ p[1] = "started" /\ opened[s] = "started" /\ ~p[2].inv /\ p[2].st = "failed"
<1> DEFINE c == tab[g].copy
           failed == [c EXCEPT !.st = "failed"]
           done(st) == [c EXCEPT !.st = st, !.inv = TRUE]
<1>0. c \in SessionDocs /\ ~c.inv
  OBVIOUS
<1>1. failed \in SessionDocs /\ ~failed.inv /\ failed.st = "failed"
  <2> HIDE DEF c
  <2> QED BY <1>0 DEF SessionDocs, Statuses
<1>2. ASSUME NEW st \in {"processing", "completed"}
      PROVE  done(st) \in SessionDocs /\ done(st).inv /\ done(st).st = st
  <2>1. st \in Statuses
    BY DEF Statuses
  <2> HIDE DEF c
  <2> QED BY <1>0, <2>1 DEF SessionDocs
<1>3. opened[s] \in {"no", "error", "orphan", "started"}
  BY DEF CheckoutTypeOK
<1>4. CASE \E x \in Sessions : opened[x] \in {"started", "orphan"}
  <2>1. p = <<opened[s], failed>>
    BY <1>4 DEF Result
  <2>2. p[1] = opened[s] /\ p[2] = failed
    BY <2>1
  <2> HIDE DEF failed
  <2> QED BY <1>1, <1>3, <2>2
<1>5. CASE ~\E x \in Sessions : opened[x] \in {"started", "orphan"}
  <2>1. p \in {<<"error", failed>>, <<"orphan", failed>>, <<"started", done("processing")>>,
               <<"started", done("completed")>>}
    BY <1>5 DEF Result
  <2>2. \/ p[1] \in {"error", "orphan"} /\ p[2] = failed
        \/ \E st \in {"processing", "completed"} : p[1] = "started" /\ p[2] = done(st)
    BY <2>1
  <2>3. opened[s] # "started"
    BY <1>5
  <2> HIDE DEF failed, done
  <2> QED BY <1>1, <1>2, <2>2, <2>3
<1> QED BY <1>4, <1>5

LEMMA StartCheckoutKeeps ==
    ASSUME CheckoutInv, NEW g \in Tabs, StartCheckout(g)
    PROVE  CheckoutInv'
<1>0. CheckoutTypeOK /\ MarkedInv /\ SessionInv /\ MethodInv
  BY DEF CheckoutInv
<1>1. tab[g] \in SessionRequests /\ tab[g].pc = "start" /\ tab[g] # NoRequest
  BY <1>0, RequestRecords DEF StartCheckout, CheckoutTypeOK, NoRequest
<1>2. PICK s \in Sessions : s = tab[g].doc
  BY <1>1 DEF SessionRequests
<1>3. tab[g].copy \in SessionDocs /\ AtDoc(g, s)
  BY <1>1, <1>2 DEF SessionRequests, AtDoc
<1>4. tab[g].copy.st = "pending" /\ Backed(tab[g].copy, s) /\ (s \notin mixed => Tells(tab[g].copy, s))
  BY <1>0, <1>1, <1>3 DEF SessionInv
<1>5. ~tab[g].copy.inv /\ (s \notin mixed => opened[s] # "started")
  BY <1>3, <1>4 DEF Backed, Tells, SessionDocs
<1>6. PICK p \in Result(g) :
         /\ opened' = [opened EXCEPT ![s] = p[1]]
         /\ tab' = [tab EXCEPT ![g].pc = "save", ![g].copy = p[2]]
  BY <1>2 DEF StartCheckout
<1>7. /\ p[1] \in {"no", "error", "orphan", "started"}
      /\ p[2] \in SessionDocs
      /\ opened[s] = "started" => p[1] = "started"
      /\ \/ p[1] = "started" /\ p[2].inv /\ p[2].st \in {"processing", "completed"}
         \/ p[1] # "started" /\ ~p[2].inv /\ p[2].st = "failed"
         \/ p[1] = "started" /\ opened[s] = "started" /\ ~p[2].inv /\ p[2].st = "failed"
  BY <1>0, <1>2, <1>3, <1>4, <1>5, ResultTells
<1> DEFINE r == [pc |-> "save", doc |-> s, copy |-> p[2]]
<1>8. r \in SessionRequests /\ r.doc = s /\ r.pc = "save" /\ r.copy = p[2]
  BY <1>7 DEF SessionRequests
<1>9. tab' = [tab EXCEPT ![g] = r]
  <2>1. [tab[g] EXCEPT !.pc = "save", !.copy = p[2]] = r
    <3>1. DOMAIN tab[g] = {"pc", "doc", "copy"}
      BY <1>1 DEF SessionRequests
    <3>2. [tab[g] EXCEPT !.pc = "save"] = [x \in {"pc", "doc", "copy"} |-> IF x = "pc" THEN "save" ELSE tab[g][x]]
      BY <1>1, <3>1 DEF SessionRequests
    <3>3. r = [x \in {"pc", "doc", "copy"} |-> IF x = "copy" THEN p[2] ELSE IF x = "pc" THEN "save" ELSE tab[g][x]]
      BY <1>1, <1>2, <3>1 DEF SessionRequests
    <3> QED BY <3>1, <3>2, <3>3
  <2>2. tab' = [tab EXCEPT ![g] = [tab[g] EXCEPT !.pc = "save", !.copy = p[2]]]
    BY <1>0, <1>6 DEF CheckoutTypeOK
  <2> QED BY <2>1, <2>2
<1> HIDE DEF r
<1>10. OnlyTab(g) /\ tab'[g] = r /\ r # NoRequest
  BY <1>0, <1>8, <1>9 DEF OnlyTab, CheckoutTypeOK, NoRequest
<1>11. \A h \in Tabs : \A d : AtDoc(h, d)' <=> AtDoc(h, d)
  BY <1>1, <1>2, <1>8, <1>10 DEF AtDoc, OnlyTab
<1>12. UNCHANGED <<session, lapsed, method, requests, mixed>>
  BY DEF StartCheckout
<1>13. opened'[s] = p[1] /\ \A x \in Sessions : x # s => opened'[x] = opened[x]
  BY <1>0, <1>6 DEF CheckoutTypeOK
<1>14. CheckoutTypeOK'
  <2>1. opened' \in [Sessions -> {"no", "error", "orphan", "started"}]
    BY <1>0, <1>6, <1>7 DEF CheckoutTypeOK
  <2> QED BY <1>0, <1>8, <1>9, <1>12, <2>1, TabTyped DEF CheckoutTypeOK
<1>15. MarkedInv'
  BY <1>0, <1>11, <1>12, MarkedByFewer
<1>16. SessionInv'
  <2>1. \A x \in Sessions : Unattended(x)' => Unattended(x) /\ x # s
    BY <1>2, <1>8, <1>10, <1>12, <1>1 DEF Unattended, OnlyTab
  <2>2. \A x \in Sessions : \A copy : Backed(copy, x) => Backed(copy, x)'
    BY <1>7, <1>13 DEF Backed
  <2>3. \A x \in Sessions : \A copy : x # s /\ Tells(copy, x) => Tells(copy, x)'
    BY <1>13 DEF Tells
  <2>4. \A x \in Sessions :
          /\ session'[x] = NoSession => opened'[x] = "no" /\ \A h \in Tabs : ~AtDoc(h, x)'
          /\ session'[x] # NoSession => Backed(session[x], x)'
          /\ session'[x] # NoSession /\ Unattended(x)' => Tells(session[x], x)'
    BY <1>0, <1>3, <1>11, <1>12, <1>13, <2>1, <2>2, <2>3 DEF SessionInv
  <2>5. \A h \in Tabs, x \in Sessions : AtDoc(h, x) /\ h # g /\ x \notin mixed => x # s
    BY <1>0, <1>3 DEF MarkedInv
  <2>6. \A h \in Tabs, x \in Sessions : AtDoc(h, x) /\ h # g =>
          /\ Backed(tab[h].copy, x)'
          /\ x \notin mixed' => Tells(tab[h].copy, x)'
          /\ tab'[h].pc = "start" => tab'[h].copy.st = "pending"
    BY <1>0, <1>10, <1>12, <2>2, <2>3, <2>5 DEF SessionInv, OnlyTab
  <2>7. Backed(p[2], s)' /\ (s \notin mixed' => Tells(p[2], s)')
    BY <1>5, <1>7, <1>12, <1>13 DEF Backed, Tells
  <2> QED BY <1>10, <1>8, <1>11, <1>2, <1>3, <1>12, <2>4, <2>6, <2>7 DEF SessionInv, OnlyTab, AtDoc, Backed, Tells
<1>17. MethodInv'
  <2>1. \A h \in Tabs : \A d \in Methods : AtDoc(h, d) => tab'[h] = tab[h]
    BY <1>2, <1>10, CheckoutAssumption DEF OnlyTab, AtDoc
  <2> QED BY <1>0, <1>11, <1>12, <2>1, MethodByFrame
<1> QED BY <1>14, <1>15, <1>16, <1>17 DEF CheckoutInv

LEMMA SaveSessionKeeps ==
    ASSUME CheckoutInv, NEW g \in Tabs, SaveSession(g)
    PROVE  CheckoutInv'
<1>0. CheckoutTypeOK /\ MarkedInv /\ SessionInv /\ MethodInv
  BY DEF CheckoutInv
<1>1. tab[g] \in SessionRequests /\ tab[g] # NoRequest
  BY <1>0, RequestRecords DEF SaveSession, CheckoutTypeOK, NoRequest
<1>2. PICK s \in Sessions : s = tab[g].doc
  BY <1>1 DEF SessionRequests
<1>3. tab[g].copy \in SessionDocs /\ AtDoc(g, s) /\ tab[g].copy # NoSession
  BY <1>1, <1>2 DEF SessionRequests, AtDoc, SessionDocs, NoSession, Statuses
<1>4. OnlyTab(g) /\ tab'[g] = NoRequest /\ tab' = [tab EXCEPT ![g] = NoRequest]
  BY <1>0, RespondChanges DEF SaveSession, Respond
<1>5. UNCHANGED <<lapsed, opened, method, requests, mixed>>
  BY DEF SaveSession
<1>6. session'[s] = tab[g].copy /\ \A x \in Sessions : x # s => session'[x] = session[x]
  BY <1>0, <1>2 DEF SaveSession, CheckoutTypeOK
<1>7. CheckoutTypeOK'
  <2>1. session' \in [Sessions -> {NoSession} \cup SessionDocs]
    BY <1>0, <1>2, <1>3 DEF SaveSession, CheckoutTypeOK
  <2> QED BY <1>0, <1>4, <1>5, <2>1, TabTyped DEF CheckoutTypeOK
<1>8. \A h \in Tabs : \A d : AtDoc(h, d)' <=> h # g /\ AtDoc(h, d)
  BY <1>4 DEF AtDoc, OnlyTab
<1>9. MarkedInv'
  BY <1>0, <1>5, <1>8, MarkedByFewer
<1>10. SessionInv'
  <2>1. \A x \in Sessions : x # s /\ Unattended(x)' => Unattended(x)
    BY <1>2, <1>4, <1>5 DEF Unattended, OnlyTab
  <2>2. \A x \in Sessions : \A copy : (Backed(copy, x)' <=> Backed(copy, x)) /\ (Tells(copy, x)' <=> Tells(copy, x))
    BY <1>5 DEF Backed, Tells
  <2>3. Unattended(s)' => s \notin mixed
    BY <1>5 DEF Unattended
  <2>4. Backed(tab[g].copy, s) /\ (s \notin mixed => Tells(tab[g].copy, s))
    BY <1>0, <1>3 DEF SessionInv
  <2>5. \A x \in Sessions :
          /\ session'[x] = NoSession => opened'[x] = "no" /\ \A h \in Tabs : ~AtDoc(h, x)'
          /\ session'[x] # NoSession => Backed(session'[x], x)
          /\ session'[x] # NoSession /\ Unattended(x)' => Tells(session'[x], x)
    BY <1>0, <1>3, <1>5, <1>6, <1>8, <2>1, <2>3, <2>4 DEF SessionInv
  <2>6. \A h \in Tabs, x \in Sessions : AtDoc(h, x)' =>
          /\ Backed(tab'[h].copy, x)
          /\ x \notin mixed' => Tells(tab'[h].copy, x)
          /\ tab'[h].pc = "start" => tab'[h].copy.st = "pending"
    BY <1>0, <1>4, <1>5, <1>8 DEF SessionInv, OnlyTab
  <2> QED BY <1>5, <2>5, <2>6 DEF SessionInv, Backed, Tells
<1>11. MethodInv'
  <2>1. \A h \in Tabs : \A d \in Methods : AtDoc(h, d)' <=> AtDoc(h, d)
    BY <1>2, <1>8, CheckoutAssumption DEF AtDoc
  <2>2. \A h \in Tabs : \A d \in Methods : AtDoc(h, d) => tab'[h] = tab[h]
    BY <1>2, <1>4, CheckoutAssumption DEF OnlyTab, AtDoc
  <2> QED BY <1>0, <1>5, <2>1, <2>2, MethodByFrame
<1> QED BY <1>7, <1>9, <1>10, <1>11 DEF CheckoutInv

LEMMA CreateSessionKeeps ==
    ASSUME CheckoutInv, NEW s \in Sessions, CreateSession(s)
    PROVE  CheckoutInv'
<1> DEFINE x == [st |-> "pending", inv |-> FALSE, promo |-> FALSE]
<1>0. CheckoutTypeOK /\ MarkedInv /\ SessionInv /\ MethodInv
  BY DEF CheckoutInv
<1>1. x \in SessionDocs /\ x # NoSession /\ x.st = "pending" /\ ~x.inv
  BY DEF SessionDocs, NoSession, Statuses
<1>2. session' = [session EXCEPT ![s] = x] /\ session[s] = NoSession
  BY DEF CreateSession
<1>3. UNCHANGED <<lapsed, opened, method, tab, requests, mixed>>
  BY DEF CreateSession
<1> HIDE DEF x
<1>4. CheckoutTypeOK'
  BY <1>0, <1>1, <1>2, <1>3 DEF CheckoutTypeOK
<1>5. MarkedInv' /\ MethodInv'
  BY <1>0, <1>3 DEF MarkedInv, MethodInv, AtDoc
<1>6. SessionInv'
  <2>1. session'[s] = x /\ \A y \in Sessions : y # s => session'[y] = session[y]
    BY <1>0, <1>2 DEF CheckoutTypeOK
  <2>2. Backed(x, s) /\ Tells(x, s) /\ \A h \in Tabs : ~AtDoc(h, s)
    BY <1>0, <1>1, <1>2 DEF SessionInv, Backed, Tells
  <2> QED BY <1>0, <1>1, <1>3, <2>1, <2>2 DEF SessionInv, Backed, Tells, AtDoc, Unattended
<1> QED BY <1>4, <1>5, <1>6 DEF CheckoutInv

-----------------------------------------------------------------------------
\* What a request about a method makes of its record.
LEMMA ListRecords ==
    ASSUME NEW x \in ListRequests, NEW S \in SUBSET Methods
    PROVE  /\ [x EXCEPT !.pc = "clear", !.others = S] \in ListRequests
           /\ [x EXCEPT !.others = S] \in ListRequests
           /\ [x EXCEPT !.pc = "clear", !.others = S].pc = "clear"
           /\ [x EXCEPT !.pc = "clear", !.others = S].doc = x.doc
           /\ [x EXCEPT !.pc = "clear", !.others = S].others = S
           /\ [x EXCEPT !.others = S].pc = x.pc
           /\ [x EXCEPT !.others = S].doc = x.doc
           /\ [x EXCEPT !.others = S].others = S
  BY DEF ListRequests

\* A step of a request about a method leaves the sessions alone.
LEMMA MethodStepKeeps ==
    ASSUME CheckoutInv, NEW g \in Tabs, NEW d \in Methods, AtDoc(g, d), OnlyTab(g),
           NEW r \in {NoRequest} \cup ListRequests, tab' = [tab EXCEPT ![g] = r],
           r = NoRequest \/ r.doc = d, UNCHANGED <<session, opened>>, mixed \subseteq mixed',
           method' \in [Methods -> {"default", "other", "gone"}], MethodInv'
    PROVE  CheckoutInv'
<1>0. CheckoutTypeOK /\ MarkedInv /\ SessionInv
  BY DEF CheckoutInv
<1>1. tab'[g] = r
  BY <1>0 DEF CheckoutTypeOK
<1>2. CheckoutTypeOK'
  BY <1>0, TabTyped DEF CheckoutTypeOK
<1>3. \A h \in Tabs : \A e : AtDoc(h, e)' => AtDoc(h, e)
  BY <1>1 DEF AtDoc, OnlyTab
<1>4. \A h \in Tabs : \A s \in Sessions : AtDoc(h, s)' <=> AtDoc(h, s)
  BY <1>1, CheckoutAssumption DEF AtDoc, OnlyTab
<1>5. \A h \in Tabs : \A s \in Sessions : AtDoc(h, s) => tab'[h] = tab[h]
  BY CheckoutAssumption DEF AtDoc, OnlyTab
<1>6. MarkedInv' /\ SessionInv'
  BY <1>0, <1>3, <1>4, <1>5, MarkedByFewer, SessionByFrame
<1> QED BY <1>2, <1>6 DEF CheckoutInv

\* Where no request about a method overlapped, the one under way is the only one.
LEMMA AloneOnMethods ==
    ASSUME CheckoutInv, Methods \cap mixed = {}, NEW g \in Tabs, NEW d \in Methods, AtDoc(g, d),
           NEW h \in Tabs, NEW e \in Methods, AtDoc(h, e)
    PROVE  g = h /\ d = e
  BY DEF CheckoutInv, MarkedInv, AtDoc

LEMMA LoadMethodKeeps ==
    ASSUME CheckoutInv, NEW g \in Tabs, NEW m \in Methods, LoadMethod(g, m)
    PROVE  CheckoutInv'
<1> DEFINE r == [pc |-> "list", doc |-> m, others |-> {}]
<1>0. CheckoutTypeOK /\ MarkedInv /\ SessionInv /\ MethodInv
  BY DEF CheckoutInv
<1>1. r \in ListRequests /\ r.doc = m /\ r.pc = "list"
  BY DEF ListRequests
<1>2. Request(g, r, Methods) /\ UNCHANGED <<session, lapsed, opened, method>>
  BY DEF LoadMethod
<1> HIDE DEF r
<1>3. OnlyTab(g) /\ tab'[g] = r /\ tab[g] = NoRequest
  BY <1>0, <1>2, RequestChanges
<1>4. mixed \subseteq mixed' /\ tab' = [tab EXCEPT ![g] = r]
  BY <1>2 DEF Request
<1>5. CheckoutTypeOK'
  BY <1>0, <1>1, <1>2, <1>4, TabTyped DEF CheckoutTypeOK
<1>6. MarkedInv'
  BY <1>0, <1>1, <1>2, MarkedByRequest
<1>7. \A h \in Tabs : \A s \in Sessions : AtDoc(h, s)' <=> AtDoc(h, s)
  BY <1>1, <1>3, CheckoutAssumption DEF AtDoc, OnlyTab
<1>8. \A h \in Tabs : \A s \in Sessions : AtDoc(h, s) => tab'[h] = tab[h]
  BY <1>3 DEF AtDoc, OnlyTab
<1>9. SessionInv'
  BY <1>0, <1>2, <1>4, <1>7, <1>8, SessionByFrame
<1>10. MethodInv'
  <2> SUFFICES ASSUME Methods \cap mixed' = {} PROVE MethodInv'
    BY DEF MethodInv
  <2>1. \A h \in Tabs, d \in Methods : ~AtDoc(h, d)
    BY <1>2 DEF Request, AtDoc
  <2>2. Methods \cap mixed = {}
    BY <1>4
  <2>3. \A h \in Tabs, d \in Methods : AtDoc(h, d)' => tab'[h].pc # "clear"
    BY <1>1, <1>3, <2>1 DEF AtDoc, OnlyTab
  <2> QED BY <1>0, <1>2, <2>1, <2>2, <2>3 DEF MethodInv
<1> QED BY <1>5, <1>6, <1>9, <1>10 DEF CheckoutInv

LEMMA ListMethodsKeeps ==
    ASSUME CheckoutInv, NEW g \in Tabs, ListMethods(g)
    PROVE  CheckoutInv'
<1> DEFINE S == {m \in Methods \ {tab[g].doc} : method[m] = "default"}
           r == [tab[g] EXCEPT !.pc = "clear", !.others = S]
<1>0. CheckoutTypeOK /\ MarkedInv /\ SessionInv /\ MethodInv
  BY DEF CheckoutInv
<1>1. tab[g] \in ListRequests /\ tab[g].pc = "list" /\ tab[g] # NoRequest
  BY <1>0, RequestRecords DEF ListMethods, CheckoutTypeOK, NoRequest
<1>2. PICK d \in Methods : d = tab[g].doc
  BY <1>1 DEF ListRequests
<1>3. AtDoc(g, d)
  BY <1>1, <1>2 DEF AtDoc
<1>4. r \in ListRequests /\ r.pc = "clear" /\ r.doc = d /\ r.others = S
  <2>1. S \in SUBSET Methods
    OBVIOUS
  <2>2. PICK x \in ListRequests : x = tab[g]
    BY <1>1
  <2> HIDE DEF S
  <2>3. r = [x EXCEPT !.pc = "clear", !.others = S]
    BY <2>2
  <2> HIDE DEF r
  <2>4. /\ [x EXCEPT !.pc = "clear", !.others = S] \in ListRequests
        /\ [x EXCEPT !.pc = "clear", !.others = S].pc = "clear"
        /\ [x EXCEPT !.pc = "clear", !.others = S].doc = x.doc
        /\ [x EXCEPT !.pc = "clear", !.others = S].others = S
    BY <2>1, ListRecords
  <2>5. x.doc = d
    BY <1>2, <2>2
  <2> QED BY <2>3, <2>4, <2>5
<1>5. tab' = [tab EXCEPT ![g] = r]
  BY <1>0 DEF ListMethods, CheckoutTypeOK
<1>6. UNCHANGED <<session, lapsed, opened, method, requests, mixed>>
  BY DEF ListMethods
<1> HIDE DEF r
<1>7. OnlyTab(g) /\ tab'[g] = r /\ r # NoRequest
  BY <1>0, <1>4, <1>5 DEF OnlyTab, CheckoutTypeOK, NoRequest
<1>8. MethodInv'
  <2> SUFFICES ASSUME Methods \cap mixed = {} PROVE MethodInv'
    BY <1>6 DEF MethodInv
  <2>1. \A h \in Tabs, e \in Methods : AtDoc(h, e)' => h = g /\ e = d
    BY <1>3, <1>4, <1>7, AloneOnMethods DEF AtDoc, OnlyTab
  <2>2. AtDoc(g, d)'
    BY <1>4, <1>7 DEF AtDoc
  <2> QED BY <1>2, <1>4, <1>6, <1>7, <2>1, <2>2 DEF MethodInv
<1> QED BY <1>0, <1>3, <1>4, <1>5, <1>6, <1>7, <1>8, MethodStepKeeps DEF CheckoutTypeOK

LEMMA ClearDefaultKeeps ==
    ASSUME CheckoutInv, NEW g \in Tabs, ClearDefault(g)
    PROVE  CheckoutInv'
<1>0. CheckoutTypeOK /\ MarkedInv /\ SessionInv /\ MethodInv
  BY DEF CheckoutInv
<1>1. tab[g] \in ListRequests /\ tab[g].pc = "clear" /\ tab[g] # NoRequest
  BY <1>0, RequestRecords DEF ClearDefault, CheckoutTypeOK, NoRequest
<1>2. PICK d \in Methods : d = tab[g].doc
  BY <1>1 DEF ListRequests
<1>3. AtDoc(g, d) /\ tab[g].others \subseteq Methods
  BY <1>1, <1>2 DEF AtDoc, ListRequests
<1>4. PICK m \in tab[g].others :
         /\ UpdateMethod(m, "other")
         /\ tab' = [tab EXCEPT ![g].others = @ \ {m}]
  BY DEF ClearDefault
<1> DEFINE S == tab[g].others \ {m}
           r == [tab[g] EXCEPT !.others = S]
<1>5. r \in ListRequests /\ r.pc = "clear" /\ r.doc = d /\ r.others = S
  BY <1>1, <1>2, <1>3, ListRecords
<1>6. tab' = [tab EXCEPT ![g] = r]
  BY <1>0, <1>4 DEF CheckoutTypeOK
<1>7. UNCHANGED <<session, lapsed, opened, requests, mixed>>
  BY DEF ClearDefault
<1> HIDE DEF r
<1>8. OnlyTab(g) /\ tab'[g] = r /\ r # NoRequest
  BY <1>0, <1>5, <1>6 DEF OnlyTab, CheckoutTypeOK, NoRequest
<1>9. /\ method' \in [Methods -> {"default", "other", "gone"}]
      /\ method'[m] # "default" /\ \A e \in Methods : e # m => method'[e] = method[e]
  BY <1>0, <1>3, <1>4 DEF UpdateMethod, CheckoutTypeOK
<1>10. MethodInv'
  <2> SUFFICES ASSUME Methods \cap mixed = {} PROVE MethodInv'
    BY <1>7 DEF MethodInv
  <2>1. \A h \in Tabs, e \in Methods : AtDoc(h, e)' => h = g /\ e = d
    BY <1>3, <1>5, <1>8, AloneOnMethods DEF AtDoc, OnlyTab
  <2>2. AtDoc(g, d)'
    BY <1>5, <1>8 DEF AtDoc
  <2>3. \A e \in Methods : method[e] = "default" => e = d \/ e \in tab[g].others
    BY <1>0, <1>1, <1>3 DEF MethodInv
  <2> QED BY <1>5, <1>8, <1>9, <2>1, <2>2, <2>3 DEF MethodInv
<1> QED BY <1>3, <1>5, <1>6, <1>7, <1>8, <1>9, <1>10, MethodStepKeeps

LEMMA SetDefaultKeeps ==
    ASSUME CheckoutInv, NEW g \in Tabs, SetDefaultMethod(g)
    PROVE  CheckoutInv'
<1>0. CheckoutTypeOK /\ MarkedInv /\ SessionInv /\ MethodInv
  BY DEF CheckoutInv
<1>1. tab[g] \in ListRequests /\ tab[g].pc = "clear" /\ tab[g] # NoRequest /\ tab[g].others = {}
  BY <1>0, RequestRecords DEF SetDefaultMethod, CheckoutTypeOK, NoRequest
<1>2. PICK d \in Methods : d = tab[g].doc
  BY <1>1 DEF ListRequests
<1>3. AtDoc(g, d)
  BY <1>1, <1>2 DEF AtDoc
<1>4. OnlyTab(g) /\ tab'[g] = NoRequest /\ tab' = [tab EXCEPT ![g] = NoRequest]
  BY <1>0, RespondChanges DEF SetDefaultMethod, Respond
<1>5. UNCHANGED <<session, lapsed, opened, requests, mixed>>
  BY DEF SetDefaultMethod
<1>6. /\ method' \in [Methods -> {"default", "other", "gone"}]
      /\ \A e \in Methods : e # d => method'[e] = method[e]
  BY <1>0, <1>2 DEF SetDefaultMethod, UpdateMethod, CheckoutTypeOK
<1>7. MethodInv'
  <2> SUFFICES ASSUME Methods \cap mixed = {} PROVE MethodInv'
    BY <1>5 DEF MethodInv
  <2>1. \A h \in Tabs, e \in Methods : ~AtDoc(h, e)'
    BY <1>3, <1>4, AloneOnMethods DEF AtDoc, OnlyTab
  <2>2. \A e \in Methods : method[e] = "default" => e = d
    BY <1>0, <1>1, <1>3 DEF MethodInv
  <2> QED BY <1>6, <2>1, <2>2 DEF MethodInv
<1> QED BY <1>3, <1>4, <1>5, <1>6, <1>7, MethodStepKeeps

LEMMA DeleteMethodKeeps ==
    ASSUME CheckoutInv, NEW m \in Methods, DeleteSavedMethod(m)
    PROVE  CheckoutInv'
<1>0. CheckoutTypeOK /\ MarkedInv /\ SessionInv /\ MethodInv
  BY DEF CheckoutInv
<1>1. UNCHANGED <<session, lapsed, opened, tab, mixed>>
  BY DEF DeleteSavedMethod
<1>2. /\ method' \in [Methods -> {"default", "other", "gone"}]
      /\ \A e \in Methods : method'[e] = "default" => method[e] = "default"
  BY <1>0 DEF DeleteSavedMethod, CheckoutTypeOK
<1>3. CheckoutTypeOK' /\ MarkedInv'
  BY <1>0, <1>1, <1>2 DEF CheckoutTypeOK, MarkedInv, AtDoc
<1>4. SessionInv'
  BY <1>0, <1>1, SessionByFrame DEF AtDoc
<1>5. MethodInv'
  BY <1>0, <1>1, <1>2 DEF MethodInv, AtDoc
<1> QED BY <1>3, <1>4, <1>5 DEF CheckoutInv

LEMMA RequestDiesKeeps ==
    ASSUME CheckoutInv, NEW g \in Tabs, RequestDies(g)
    PROVE  CheckoutInv'
<1>0. CheckoutTypeOK /\ MarkedInv /\ SessionInv /\ MethodInv
  BY DEF CheckoutInv
<1>1. OnlyTab(g) /\ tab'[g] = NoRequest /\ tab' = [tab EXCEPT ![g] = NoRequest] /\ tab[g] # NoRequest
  BY <1>0, RespondChanges DEF RequestDies, Respond
<1>2. UNCHANGED <<session, lapsed, opened, method, requests>> /\ mixed \subseteq mixed'
  BY DEF RequestDies
<1>3. /\ tab[g].doc \in mixed'
      /\ tab[g].doc \in Methods => Methods \subseteq mixed'
  BY DEF RequestDies
<1>4. \A h \in Tabs : \A d : AtDoc(h, d)' <=> h # g /\ AtDoc(h, d)
  BY <1>1 DEF AtDoc, OnlyTab
<1>5. CheckoutTypeOK'
  BY <1>0, <1>1, <1>2, TabTyped DEF CheckoutTypeOK
<1>6. MarkedInv'
  BY <1>0, <1>2, <1>4, MarkedByFewer
<1>7. SessionInv'
  <2>1. \A s \in Sessions : Unattended(s)' => Unattended(s)
    BY <1>1, <1>2, <1>3 DEF Unattended, OnlyTab
  <2>2. \A s \in Sessions : \A copy : (Backed(copy, s)' <=> Backed(copy, s)) /\ (Tells(copy, s)' <=> Tells(copy, s))
    BY <1>2 DEF Backed, Tells
  <2>3. \A s \in Sessions :
          /\ session'[s] = NoSession => opened'[s] = "no" /\ \A h \in Tabs : ~AtDoc(h, s)'
          /\ session'[s] # NoSession => Backed(session'[s], s)
          /\ session'[s] # NoSession /\ Unattended(s)' => Tells(session'[s], s)
    BY <1>0, <1>2, <1>4, <2>1 DEF SessionInv
  <2>4. \A h \in Tabs, s \in Sessions : AtDoc(h, s)' =>
          /\ Backed(tab'[h].copy, s)
          /\ s \notin mixed' => Tells(tab'[h].copy, s)
          /\ tab'[h].pc = "start" => tab'[h].copy.st = "pending"
    BY <1>0, <1>1, <1>2, <1>4 DEF SessionInv, OnlyTab
  <2> QED BY <1>2, <2>3, <2>4 DEF SessionInv, Backed, Tells
<1>8. MethodInv'
  <2>1. CASE tab[g].doc \in Methods
    BY <1>3, <2>1 DEF MethodInv
  <2>2. CASE tab[g].doc \notin Methods
    <3>1. \A h \in Tabs : \A d \in Methods : AtDoc(h, d)' <=> AtDoc(h, d)
      BY <1>4, <2>2 DEF AtDoc
    <3>2. \A h \in Tabs : \A d \in Methods : AtDoc(h, d) => tab'[h] = tab[h]
      BY <1>1, <2>2 DEF AtDoc, OnlyTab
    <3> QED BY <1>0, <1>2, <3>1, <3>2, MethodByFrame
  <2> QED BY <2>1, <2>2
<1> QED BY <1>5, <1>6, <1>7, <1>8 DEF CheckoutInv

LEMMA CheckoutStep == CheckoutInv /\ [CheckoutNext]_checkoutVars => CheckoutInv'
<1> SUFFICES ASSUME CheckoutInv, [CheckoutNext]_checkoutVars PROVE CheckoutInv'
  OBVIOUS
<1>1. ASSUME NEW s \in Sessions, Lapse(s) PROVE CheckoutInv'
  BY <1>1 DEF Lapse, CheckoutInv, CheckoutTypeOK, MarkedInv, SessionInv, MethodInv, AtDoc, Unattended,
              Tells, Backed
<1>2. CASE UNCHANGED checkoutVars
  BY <1>2 DEF checkoutVars, CheckoutInv, CheckoutTypeOK, MarkedInv, SessionInv, MethodInv, AtDoc,
              Unattended, Tells, Backed
<1>3. ASSUME NEW g \in Tabs, SessionStep(g) PROVE CheckoutInv'
  BY <1>3, LoadForConfirmKeeps, LoadForCancelKeeps, LoadForPromoKeeps, StartCheckoutKeeps,
     SaveSessionKeeps DEF SessionStep
<1>4. ASSUME NEW g \in Tabs, MethodStep(g) PROVE CheckoutInv'
  BY <1>4, LoadMethodKeeps, ListMethodsKeeps, ClearDefaultKeeps, SetDefaultKeeps DEF MethodStep
<1> QED BY <1>1, <1>2, <1>3, <1>4, CreateSessionKeeps, DeleteMethodKeeps, RequestDiesKeeps
        DEF CheckoutNext

LEMMA CheckoutInitInv == CheckoutInit => CheckoutInv
<1> SUFFICES ASSUME CheckoutInit PROVE CheckoutInv
  OBVIOUS
<1>1. CheckoutTypeOK
  BY DEF CheckoutInit, CheckoutTypeOK
<1>2. \A g \in Tabs : \A d : ~AtDoc(g, d)
  BY DEF CheckoutInit, AtDoc
<1>3. MarkedInv
  BY <1>2 DEF MarkedInv
<1>4. SessionInv
  BY <1>2 DEF CheckoutInit, SessionInv
<1>5. MethodInv
  BY <1>2 DEF CheckoutInit, MethodInv
<1> QED BY <1>1, <1>3, <1>4, <1>5 DEF CheckoutInv

LEMMA CheckoutInvTells == CheckoutInv => CheckoutConsistent
<1> SUFFICES ASSUME CheckoutInv PROVE CheckoutConsistent
  OBVIOUS
<1>1. SessionTellsCheckout
  <2>1. \A s \in Sessions : session[s].st \in {"processing", "completed"} => session[s] # NoSession
    BY DEF NoSession
  <2> QED BY <2>1 DEF CheckoutInv, SessionInv, SessionTellsCheckout, Tells, Backed
<1>2. OneDefaultMethod
  <2> SUFFICES ASSUME \A m \in Methods : Unattended(m)
               PROVE  Cardinality({m \in Methods : method[m] = "default"}) <= 1
    BY DEF OneDefaultMethod
  <2> DEFINE D == {m \in Methods : method[m] = "default"}
  <2>1. \A m, n \in D : m = n
    BY DEF CheckoutInv, MethodInv, Unattended, AtDoc
  <2>2. CASE D = {}
    BY <2>2, FS_EmptySet
  <2>3. CASE D # {}
    <3>1. PICK m \in D : D = {m}
      BY <2>1, <2>3
    <3>2. Cardinality(D) = 1
      BY <3>1, FS_Singleton
    <3> QED BY <3>2
  <2> QED BY <2>2, <2>3
<1> QED BY <1>1, <1>2 DEF CheckoutConsistent

\* The documents of a customer's checkout agree, whole-document writes or not: a session at
\* rest says what StartCheckout did, none is shown under way or completed without its invoice,
\* and requests that follow one another leave at most one default payment method, for any
\* number of tabs, sessions and methods.
THEOREM CheckoutIsConsistent == CheckoutSpec => []CheckoutConsistent
  BY CheckoutInitInv, CheckoutStep, CheckoutInvTells, PTL DEF CheckoutSpec

-----------------------------------------------------------------------------
\* PluginHooks.  HalfOpenHasTester is inductive by itself: a call leaves the calls under way
\* only by writing the state, or after it read a state other than half-open in the same step.

\* Every goroutine's step stays among those of a call.
THEOREM BreakerTypeCorrect == BreakerSpec => []BreakerTypeOK
<1>1. BreakerInit => BreakerTypeOK
  BY BreakerAssumption DEF BreakerInit, BreakerTypeOK
<1>2. BreakerTypeOK /\ [BreakerNext]_breakerVars => BreakerTypeOK'
  <2> SUFFICES ASSUME BreakerTypeOK, [BreakerNext]_breakerVars PROVE BreakerTypeOK'
    OBVIOUS
  <2>1. CASE UNCHANGED breakerVars
    BY <2>1 DEF BreakerTypeOK, breakerVars
  <2>2. CASE ResetTimeout
    BY <2>2 DEF ResetTimeout, BreakerTypeOK
  <2>3. ASSUME NEW c \in HookCallers, Allow(c) PROVE BreakerTypeOK'
    <3>1. tests' \in 0 .. HalfOpenMaxCalls + 1
      BY <2>3, BreakerAssumption DEF Allow, Capped, BreakerTypeOK
    <3>2. caller' = caller \/ caller' = [caller EXCEPT ![c] = "call"]
             \/ caller' = [caller EXCEPT ![c] = "swap"]
      BY <2>3 DEF Allow, Proceed
    <3> QED BY <2>3, <3>1, <3>2 DEF Allow, BreakerTypeOK
  <2>4. ASSUME NEW c \in HookCallers, AllowSwap(c) \/ AllowRestart(c) \/ CallEnds(c)
        PROVE  BreakerTypeOK'
    BY <2>4, BreakerAssumption DEF AllowSwap, AllowRestart, CallEnds, Proceed, BreakerTypeOK
  <2>5. ASSUME NEW c \in HookCallers, RecordFailure(c) \/ ReadState(c) \/ Trip(c)
        PROVE  BreakerTypeOK'
    <3>1. CASE RecordFailure(c)
      <4>1. failures' \in 0 .. FailureThreshold
        BY <3>1, BreakerAssumption DEF RecordFailure, Capped, BreakerTypeOK
      <4>2. caller' = [caller EXCEPT ![c] = "many"] \/ caller' = [caller EXCEPT ![c] = "few"]
        BY <3>1 DEF RecordFailure, Proceed
      <4> QED BY <3>1, <4>1, <4>2 DEF RecordFailure, BreakerTypeOK
    <3>2. CASE ReadState(c)
      <4>1. caller' = [caller EXCEPT ![c] = "trip"] \/ caller' = [caller EXCEPT ![c] = "idle"]
        BY <3>2 DEF ReadState, Proceed
      <4> QED BY <3>2, <4>1 DEF ReadState, BreakerTypeOK
    <3>3. CASE Trip(c)
      BY <3>3 DEF Trip, Proceed, BreakerTypeOK
    <3> QED BY <2>5, <3>1, <3>2, <3>3
  <2>6. ASSUME NEW c \in HookCallers, RecordSuccess(c) \/ CloseBreaker(c) PROVE BreakerTypeOK'
    BY <2>6, BreakerAssumption DEF RecordSuccess, CloseBreaker, Proceed, BreakerTypeOK
  <2> QED BY <2>1, <2>2, <2>3, <2>4, <2>5, <2>6 DEF BreakerNext
<1> QED BY <1>1, <1>2, PTL DEF BreakerSpec

\* A half-open breaker has a call under way whose outcome will close it or open it again:
\* no interleaving of the atomic accesses of any number of calls leaves it half-open for good.
THEOREM HalfOpenIsTested == BreakerSpec => []HalfOpenHasTester
<1>1. BreakerInit => HalfOpenHasTester
  BY DEF BreakerInit, HalfOpenHasTester
<1>2. BreakerTypeOK /\ HalfOpenHasTester /\ [BreakerNext]_breakerVars => HalfOpenHasTester'
  <2> SUFFICES ASSUME BreakerTypeOK, HalfOpenHasTester, [BreakerNext]_breakerVars,
                      breakerState' = "half-open"
               PROVE  \E t \in HookCallers : caller'[t] \notin {"idle", "swap"}
    BY DEF HalfOpenHasTester
  <2>1. CASE UNCHANGED breakerVars
    BY <2>1 DEF HalfOpenHasTester, breakerVars
  <2>2. CASE ResetTimeout
    BY <2>2 DEF ResetTimeout, HalfOpenHasTester
  \* The call that finds the breaker open makes it half-open and tests it itself.
  <2>3. ASSUME NEW c \in HookCallers, AllowSwap(c), breakerState = "open"
        PROVE  \E t \in HookCallers : caller'[t] \notin {"idle", "swap"}
    <3>1. caller'[c] = "restart"
      BY <2>3 DEF AllowSwap, Proceed, BreakerTypeOK
    <3> QED BY <3>1
  \* The steps that leave the state alone leave the tester among the calls under way.
  <2>4. ASSUME NEW c \in HookCallers, breakerState = "half-open",
               Allow(c) \/ AllowSwap(c) \/ AllowRestart(c) \/ CallEnds(c) \/ RecordFailure(c)
                 \/ ReadState(c) \/ RecordSuccess(c)
        PROVE  \E t \in HookCallers : caller'[t] \notin {"idle", "swap"}
    <3>1. PICK t \in HookCallers : caller[t] \notin {"idle", "swap"}
      BY <2>4 DEF HalfOpenHasTester
    <3>2. CASE t # c
      <4>1. caller'[t] = caller[t]
        BY <2>4, <3>2 DEF Allow, AllowSwap, AllowRestart, CallEnds, RecordFailure, ReadState,
           RecordSuccess, Proceed, BreakerTypeOK
      <4> QED BY <3>1, <4>1
    <3>3. CASE t = c
      <4>1. caller'[c] \notin {"idle", "swap"}
        BY <2>4, <3>1, <3>3 DEF Allow, AllowSwap, AllowRestart, CallEnds, RecordFailure, ReadState,
           RecordSuccess, Proceed, AtStep, BreakerTypeOK
      <4> QED BY <4>1
    <3> QED BY <3>1, <3>2, <3>3
  \* The others decide the state.
  <2>5. ASSUME NEW c \in HookCallers, Trip(c) \/ CloseBreaker(c) PROVE FALSE
    BY <2>5 DEF Trip, CloseBreaker
  <2>6. ASSUME NEW c \in HookCallers,
               Allow(c) \/ AllowRestart(c) \/ CallEnds(c) \/ RecordFailure(c) \/ ReadState(c)
                 \/ RecordSuccess(c)
        PROVE  breakerState = "half-open"
    BY <2>6 DEF Allow, AllowRestart, CallEnds, RecordFailure, ReadState, RecordSuccess
  <2>7. ASSUME NEW c \in HookCallers, AllowSwap(c), breakerState # "open"
        PROVE  breakerState = "half-open"
    BY <2>7 DEF AllowSwap
  <2> QED BY <2>1, <2>2, <2>3, <2>4, <2>5, <2>6, <2>7 DEF BreakerNext
<1> QED BY <1>1, <1>2, BreakerTypeCorrect, PTL DEF BreakerSpec

-----------------------------------------------------------------------------
\* PluginPool.
Labels == {"new", "wait", "recheck", "count", "call", "release", "released", "send", "signal",
           "close", "done"}
InCall == {"call", "release"}
Calls(S) == {c \in HookCalls : hook[c].pc \in S}

PoolTypeOK ==
    /\ hook \in [HookCalls -> [pc : Labels, runner : BOOLEAN, remaining : Int]]
    /\ idle \in Nat /\ filling \in Nat /\ replacing \in Nat /\ lost \in Nat
    /\ active \in Int
    /\ draining \in BOOLEAN /\ drained \in BOOLEAN /\ closed \in BOOLEAN

\* Before the drain every runner and every call is accounted for.
BeforeDrain ==
    /\ ~drained /\ ~closed /\ ~rushed /\ panics = {}
    /\ idle + filling + replacing + lost + Cardinality(Calls(Holding)) = PoolSize
    /\ active = Cardinality(Calls(InCall))
    /\ \A c \in HookCalls : hook[c].pc # "close" /\ (hook[c].pc \in Holding => hook[c].runner)

\* A drain that began with no call in a window: calls only end, each leaves with a smaller
\* count than the ones before it, and the one that counts nothing closes the channel.
DuringDrain ==
    /\ panics = {}
    /\ active = Cardinality(Calls(InCall))
    /\ drained => active = 0
    /\ closed /\ patience => active = 0
    /\ \A c \in HookCalls :
         /\ hook[c].pc \in {"new", "call", "release", "released", "signal", "close", "done"}
         /\ hook[c].pc \in InCall \cup {"released"} => hook[c].runner
         /\ hook[c].pc \in {"released", "signal", "close"} => hook[c].remaining >= active
         /\ hook[c].pc = "close" => ~drained /\ hook[c].remaining <= 0
    /\ \A c, d \in HookCalls :
         /\ hook[c].pc \in {"released", "signal", "close"}
         /\ hook[d].pc \in {"released", "signal", "close"}
         /\ hook[c].remaining = hook[d].remaining
         => c = d

PoolInv ==
    /\ PoolTypeOK
    /\ ~draining => BeforeDrain
    /\ draining /\ ~rushed => DuringDrain

\* How many calls there are at the labels of S after one call moves.
LEMMA CallsCounted ==
    ASSUME NEW S
    PROVE  IsFiniteSet(Calls(S)) /\ Cardinality(Calls(S)) \in Nat
  BY PoolAssumption, FS_Subset, FS_CardinalityType DEF Calls

LEMMA CallsMove ==
    ASSUME NEW S, NEW c \in HookCalls, \A d \in HookCalls : d # c => hook'[d] = hook[d]
    PROVE  /\ hook[c].pc \in S /\ hook'[c].pc \in S => Cardinality(Calls(S)') = Cardinality(Calls(S))
           /\ hook[c].pc \notin S /\ hook'[c].pc \notin S => Cardinality(Calls(S)') = Cardinality(Calls(S))
           /\ hook[c].pc \notin S /\ hook'[c].pc \in S => Cardinality(Calls(S)') = Cardinality(Calls(S)) + 1
           /\ hook[c].pc \in S /\ hook'[c].pc \notin S => Cardinality(Calls(S)') = Cardinality(Calls(S)) - 1
<1>1. IsFiniteSet(Calls(S)) /\ Cardinality(Calls(S)) \in Nat
  BY CallsCounted
<1>2. (hook[c].pc \in S <=> hook'[c].pc \in S) => Calls(S)' = Calls(S)
  BY DEF Calls
<1>3. CASE hook[c].pc \notin S /\ hook'[c].pc \in S
  <2>1. Calls(S)' = Calls(S) \cup {c} /\ c \notin Calls(S)
    BY <1>3 DEF Calls
  <2> QED BY <1>1, <1>3, <2>1, FS_AddElement
<1>4. CASE hook[c].pc \in S /\ hook'[c].pc \notin S
  <2>1. Calls(S)' = Calls(S) \ {c} /\ c \in Calls(S)
    BY <1>4 DEF Calls
  <2> QED BY <1>1, <1>4, <2>1, FS_RemoveElement
<1> QED BY <1>2, <1>3, <1>4

\* The call of c goes to label l; it counts runners and calls by W and A.
Moves(c, l, r, m) ==
    /\ \A d \in HookCalls : d # c => hook'[d] = hook[d]
    /\ hook'[c].pc = l /\ hook'[c].runner = r /\ hook'[c].remaining = m
    /\ hook' \in [HookCalls -> [pc : Labels, runner : BOOLEAN, remaining : Int]]
W(l) == IF l \in Holding THEN 1 ELSE 0
A(l) == IF l \in InCall THEN 1 ELSE 0

LEMMA StepMoves ==
    ASSUME PoolTypeOK, NEW c \in HookCalls, NEW l \in Labels, Step(c, l)
    PROVE  Moves(c, l, hook[c].runner, hook[c].remaining)
<1> DEFINE R == [pc : Labels, runner : BOOLEAN, remaining : Int]
           x == [hook[c] EXCEPT !.pc = l]
<1>1. hook[c] \in R /\ hook \in [HookCalls -> R]
  BY DEF PoolTypeOK
<1>2. x \in R /\ x.pc = l /\ x.runner = hook[c].runner /\ x.remaining = hook[c].remaining
  BY <1>1
<1>3. hook' = [hook EXCEPT ![c] = x]
  BY <1>1 DEF Step
<1> HIDE DEF x, R
<1>4. hook' \in [HookCalls -> R] /\ hook'[c] = x /\ \A d \in HookCalls : d # c => hook'[d] = hook[d]
  BY <1>1, <1>2, <1>3
<1> QED BY <1>2, <1>4 DEF Moves, R

LEMMA CountMoves ==
    ASSUME PoolTypeOK, NEW c \in HookCalls, NEW l \in Labels, NEW m \in Int,
           hook' = [hook EXCEPT ![c].pc = l, ![c].remaining = m]
    PROVE  Moves(c, l, hook[c].runner, m)
<1> DEFINE R == [pc : Labels, runner : BOOLEAN, remaining : Int]
           x == [hook[c] EXCEPT !.pc = l, !.remaining = m]
<1>1. hook[c] \in R /\ hook \in [HookCalls -> R]
  BY DEF PoolTypeOK
<1>2. x \in R /\ x.pc = l /\ x.runner = hook[c].runner /\ x.remaining = m
  BY <1>1
<1>3. hook' = [hook EXCEPT ![c] = x]
  BY <1>1
<1> HIDE DEF x, R
<1>4. hook' \in [HookCalls -> R] /\ hook'[c] = x /\ \A d \in HookCalls : d # c => hook'[d] = hook[d]
  BY <1>1, <1>2, <1>3
<1> QED BY <1>2, <1>4 DEF Moves, R

LEMMA ReceiveMoves ==
    ASSUME PoolTypeOK, NEW c \in HookCalls, Receive(c)
    PROVE  Moves(c, "recheck", idle > 0, hook[c].remaining)
<1> DEFINE R == [pc : Labels, runner : BOOLEAN, remaining : Int]
           x == [hook[c] EXCEPT !.pc = "recheck", !.runner = (idle > 0)]
<1>1. hook[c] \in R /\ hook \in [HookCalls -> R] /\ (idle > 0) \in BOOLEAN
  BY DEF PoolTypeOK
<1>2. x \in R /\ x.pc = "recheck" /\ x.runner = (idle > 0) /\ x.remaining = hook[c].remaining
  BY <1>1 DEF Labels
<1>3. hook' = [hook EXCEPT ![c] = x]
  BY <1>1 DEF Receive
<1> HIDE DEF x, R
<1>4. hook' \in [HookCalls -> R] /\ hook'[c] = x /\ \A d \in HookCalls : d # c => hook'[d] = hook[d]
  BY <1>1, <1>2, <1>3
<1> QED BY <1>2, <1>4 DEF Moves, R

\* A move of a call while the pool does not drain.
LEMMA BeforeByMove ==
    ASSUME PoolTypeOK, PoolTypeOK', BeforeDrain, NEW c \in HookCalls, NEW l, NEW r, NEW m, Moves(c, l, r, m),
           l # "close", l \in Holding => r,
           UNCHANGED <<drained, closed, rushed, panics>>,
           idle' + filling' + replacing' + lost' + W(l)
             = idle + filling + replacing + lost + W(hook[c].pc),
           active' = active + A(l) - A(hook[c].pc)
    PROVE  BeforeDrain'
<1> DEFINE H == Cardinality(Calls(Holding))
           C == Cardinality(Calls(InCall))
<1>0. H \in Nat /\ C \in Nat
  BY CallsCounted
<1>1. H' = H + W(l) - W(hook[c].pc)
  BY <1>0, CallsMove DEF Moves, W
<1>2. C' = C + A(l) - A(hook[c].pc)
  BY <1>0, CallsMove DEF Moves, A
<1>3. W(l) \in Int /\ W(hook[c].pc) \in Int /\ A(l) \in Int /\ A(hook[c].pc) \in Int
  BY DEF W, A
<1>4. idle + filling + replacing + lost + H = PoolSize /\ active = C
  BY DEF BeforeDrain
<1>5. H' = Cardinality(Calls(Holding)') /\ C' = Cardinality(Calls(InCall)')
  OBVIOUS
<1> HIDE DEF H, C
<1>9. /\ idle \in Int /\ filling \in Int /\ replacing \in Int /\ lost \in Int /\ active \in Int
      /\ idle' \in Int /\ filling' \in Int /\ replacing' \in Int /\ lost' \in Int
  BY DEF PoolTypeOK
<1>6. idle' + filling' + replacing' + lost' + H' = PoolSize
  <2> DEFINE total == idle + filling + replacing + lost
  <2>1. total \in Int /\ total' \in Int
    BY <1>9
  <2>2. total' + W(l) = total + W(hook[c].pc) /\ total + H = PoolSize
    BY <1>4
  <2> HIDE DEF total
  <2>3. total' + H' = PoolSize
    BY <1>0, <1>1, <1>3, <2>1, <2>2
  <2> QED BY <2>3 DEF total
<1>7. active' = C'
  BY <1>0, <1>2, <1>3, <1>4, <1>9
<1>8. \A d \in HookCalls : hook'[d].pc # "close" /\ (hook'[d].pc \in Holding => hook'[d].runner)
  BY DEF BeforeDrain, Moves
<1> QED BY <1>5, <1>6, <1>7, <1>8 DEF BeforeDrain, H, C

\* A move of a call while the pool drains.
LEMMA DuringByMove ==
    ASSUME PoolTypeOK, PoolTypeOK', DuringDrain, NEW c \in HookCalls, NEW l, NEW r, NEW m, Moves(c, l, r, m),
           l \in {"release", "released", "signal", "close", "done"},
           l \in {"release", "released"} => r,
           l \in {"released", "signal", "close"} =>
              /\ m >= active'
              /\ \/ m = active' /\ active' < active
                 \/ m = hook[c].remaining /\ hook[c].pc \in {"released", "signal"} /\ active' = active,
           l = "close" => ~drained /\ m <= 0,
           UNCHANGED <<closed, patience, panics>>,
           drained' => drained \/ (hook[c].pc = "close" /\ l = "done"),
           active' = active + A(l) - A(hook[c].pc), active' <= active
    PROVE  DuringDrain'
<1> DEFINE C == Cardinality(Calls(InCall))
<1>0. C \in Nat /\ active = C
  BY CallsCounted DEF DuringDrain
<1>1. C' = C + A(l) - A(hook[c].pc)
  BY <1>0, CallsMove DEF Moves, A
<1>2. C' \in Nat
  BY CallsCounted, PoolAssumption, FS_Subset, FS_CardinalityType DEF Calls
<1>3. C' = Cardinality(Calls(InCall)')
  OBVIOUS
<1> HIDE DEF C
<1>4. active' = C' /\ active' <= active
  BY <1>0, <1>1
<1>5. active >= 0 /\ active' >= 0 /\ active \in Int /\ active' \in Int
  BY <1>0, <1>2, <1>4
<1>6. (active = 0 => active' = 0) /\ (hook[c].pc = "close" => active = 0)
  BY <1>4, <1>5 DEF DuringDrain, PoolTypeOK
<1>7. \A d \in HookCalls : hook[d].remaining \in Int
  BY DEF PoolTypeOK
<1>8. (drained' => active' = 0) /\ (closed' /\ patience' => active' = 0)
  BY <1>6 DEF DuringDrain
<1>9. ASSUME NEW d \in HookCalls
      PROVE  /\ hook'[d].pc \in {"new", "call", "release", "released", "signal", "close", "done"}
             /\ hook'[d].pc \in InCall \cup {"released"} => hook'[d].runner
             /\ hook'[d].pc \in {"released", "signal", "close"} => hook'[d].remaining >= active'
             /\ hook'[d].pc = "close" => ~drained' /\ hook'[d].remaining <= 0
  <2>1. CASE d = c
    BY <2>1 DEF Moves, InCall
  <2>2. CASE d # c
    <3>1. hook'[d] = hook[d]
      BY <2>2 DEF Moves
    <3>2. hook[d].pc = "close" /\ hook[c].pc = "close" => hook[d].remaining = hook[c].remaining
      BY <1>5, <1>6, <1>7 DEF DuringDrain
    <3>3. hook[d].pc = "close" => ~drained'
      BY <2>2, <3>2 DEF DuringDrain
    <3> QED BY <1>4, <1>5, <1>7, <3>1, <3>3 DEF DuringDrain
  <2> QED BY <2>1, <2>2
<1>10. ASSUME NEW d \in HookCalls, NEW e \in HookCalls,
              hook'[d].pc \in {"released", "signal", "close"},
              hook'[e].pc \in {"released", "signal", "close"},
              hook'[d].remaining = hook'[e].remaining
       PROVE  d = e
  <2> SUFFICES ASSUME d # e PROVE FALSE
    OBVIOUS
  <2>1. \A f \in HookCalls : f # c /\ hook'[f].pc \in {"released", "signal", "close"} =>
          hook'[f] = hook[f] /\ hook[f].remaining >= active
    BY DEF Moves, DuringDrain
  <2>2. CASE d # c /\ e # c
    BY <1>10, <2>1, <2>2 DEF DuringDrain
  <2>3. CASE d = c
    BY <1>5, <1>7, <1>10, <2>1, <2>3 DEF DuringDrain, Moves
  <2>4. CASE e = c
    BY <1>5, <1>7, <1>10, <2>1, <2>4 DEF DuringDrain, Moves
  <2> QED BY <2>2, <2>3, <2>4
<1>11. panics' = {} /\ active' = Cardinality(Calls(InCall)')
  BY <1>3, <1>4 DEF DuringDrain
<1> QED BY <1>8, <1>9, <1>10, <1>11 DEF DuringDrain

LEMMA Weights ==
    /\ \A l \in {"recheck", "count", "call", "release", "released", "send"} : W(l) = 1
    /\ \A l \in {"new", "wait", "signal", "close", "done"} : W(l) = 0
    /\ \A l \in {"call", "release"} : A(l) = 1
    /\ \A l \in {"new", "wait", "recheck", "count", "released", "send", "signal", "close", "done"} : A(l) = 0
  BY DEF W, A, Holding, InCall

\* A step of a call keeps the types if it keeps those of what it changes.
LEMMA TypeByMove ==
    ASSUME PoolTypeOK, NEW c \in HookCalls, NEW l, NEW r, NEW m, Moves(c, l, r, m),
           idle' \in Nat, UNCHANGED filling, replacing' \in Nat, lost' \in Nat, active' \in Int,
           UNCHANGED <<draining, closed>>, drained' \in BOOLEAN
    PROVE  PoolTypeOK'
  BY DEF PoolTypeOK, Moves

\* Before a drain a call may move from any label to any but that of the close.
LEMMA PlainMove ==
    ASSUME PoolInv, NEW c \in HookCalls, NEW l, Moves(c, l, hook[c].runner, hook[c].remaining),
           UNCHANGED <<idle, filling, replacing, lost, active, draining, drained, closed, rushed, panics>>,
           ~draining => l # "close" /\ W(l) = W(hook[c].pc) /\ A(l) = A(hook[c].pc),
           draining /\ ~rushed => DuringDrain'
    PROVE  PoolInv'
<1>1. PoolTypeOK'
  BY TypeByMove DEF PoolInv, PoolTypeOK
<1>2. ASSUME ~draining PROVE BeforeDrain'
  <2>1. BeforeDrain /\ PoolTypeOK
    BY <1>2 DEF PoolInv
  <2>2. l \in Holding => hook[c].runner
    BY <1>2, <2>1 DEF W, BeforeDrain
  <2>3. W(l) \in Int /\ A(l) \in Int /\ active \in Int
    BY DEF W, A, PoolInv, PoolTypeOK
  <2>4. active' = active + A(l) - A(hook[c].pc)
    BY <1>2, <2>3
  <2> QED BY <1>1, <1>2, <2>1, <2>2, <2>4, BeforeByMove
<1> QED BY <1>1, <1>2 DEF PoolInv

\* Labels that no call has during a drain that disturbs nobody.
LEMMA NotInWindow ==
    ASSUME PoolInv, draining, ~rushed, NEW c \in HookCalls
    PROVE  hook[c].pc \notin {"wait", "recheck", "count", "send"}
  BY DEF PoolInv, DuringDrain

LEMMA FastPathKeeps ==
    ASSUME PoolInv, NEW c \in HookCalls, FastPathCheck(c)
    PROVE  PoolInv'
<1>1. PICK l \in Labels : l = IF draining THEN "done" ELSE "wait"
  BY DEF Labels
<1>2. Moves(c, l, hook[c].runner, hook[c].remaining)
  BY <1>1, StepMoves DEF FastPathCheck, PoolInv
<1>3. /\ UNCHANGED <<idle, filling, replacing, lost, active, draining, drained, closed, rushed, patience, panics>>
      /\ hook[c].pc = "new"
  BY DEF FastPathCheck, channelVars, At
<1>4. ~draining => W(l) = W(hook[c].pc) /\ A(l) = A(hook[c].pc) /\ l # "close"
  BY <1>1, <1>3, Weights
<1>5. ASSUME draining, ~rushed PROVE DuringDrain'
  <2>1. active' = active + A(l) - A(hook[c].pc) /\ active' <= active
    BY <1>1, <1>3, <1>5, Weights DEF PoolInv, PoolTypeOK
  <2>2. PoolTypeOK'
    BY <1>2, <1>3, TypeByMove DEF PoolInv, PoolTypeOK
  <2> QED BY <1>1, <1>2, <1>3, <1>5, <2>1, <2>2, DuringByMove DEF PoolInv
<1> QED BY <1>2, <1>3, <1>4, <1>5, PlainMove

LEMMA ReceiveKeeps ==
    ASSUME PoolInv, NEW c \in HookCalls, Receive(c)
    PROVE  PoolInv'
<1>1. Moves(c, "recheck", idle > 0, hook[c].remaining)
  BY ReceiveMoves DEF PoolInv
<1>2. /\ UNCHANGED <<filling, replacing, lost, active, draining, drained, closed, rushed, panics>>
      /\ hook[c].pc = "wait" /\ (idle > 0 \/ closed) /\ idle' = IF idle > 0 THEN idle - 1 ELSE 0
  BY DEF Receive, channelVars, At
<1>3. idle \in Nat /\ idle' \in Nat
  BY <1>2 DEF PoolInv, PoolTypeOK
<1>4. PoolTypeOK'
  BY <1>1, <1>2, <1>3, TypeByMove DEF PoolInv, PoolTypeOK
<1>5. ASSUME ~draining PROVE BeforeDrain'
  <2>1. BeforeDrain /\ PoolTypeOK
    BY <1>5 DEF PoolInv
  <2>2. idle > 0 /\ idle' = idle - 1
    BY <1>2, <2>1 DEF BeforeDrain
  <2>3. idle' + filling' + replacing' + lost' + W("recheck")
          = idle + filling + replacing + lost + W(hook[c].pc)
    BY <1>2, <1>3, <2>2, Weights DEF PoolInv, PoolTypeOK
  <2>4. active' = active + A("recheck") - A(hook[c].pc)
    BY <1>2, Weights DEF PoolInv, PoolTypeOK
  <2> QED BY <1>1, <1>2, <1>4, <2>1, <2>2, <2>3, <2>4, BeforeByMove
<1> QED BY <1>2, <1>4, <1>5, NotInWindow DEF PoolInv

\* A call that ends without a runner of its own.
LEMMA AcquireTimeoutKeeps ==
    ASSUME PoolInv, NEW c \in HookCalls, AcquireTimeout(c)
    PROVE  PoolInv'
<1>1. Moves(c, "done", hook[c].runner, hook[c].remaining)
  BY StepMoves DEF AcquireTimeout, PoolInv, Labels
<1>2. /\ UNCHANGED <<idle, filling, replacing, lost, active, draining, drained, closed, rushed, panics>>
      /\ hook[c].pc = "wait"
  BY DEF AcquireTimeout, At
<1>3. W("done") = W(hook[c].pc) /\ A("done") = A(hook[c].pc)
  BY <1>2, Weights
<1> QED BY <1>1, <1>2, <1>3, NotInWindow, PlainMove

LEMMA DoubleCheckKeeps ==
    ASSUME PoolInv, NEW c \in HookCalls, DoubleCheck(c)
    PROVE  PoolInv'
<1>1. PICK l \in Labels : l = IF draining THEN "release" ELSE "count"
  BY DEF Labels
<1>2. Moves(c, l, hook[c].runner, hook[c].remaining)
  BY <1>1, StepMoves DEF DoubleCheck, PoolInv
<1>3. /\ UNCHANGED <<idle, filling, replacing, lost, active, draining, drained, closed, rushed, panics>>
      /\ hook[c].pc = "recheck"
  BY DEF DoubleCheck, channelVars, At
<1>4. ~draining => W(l) = W(hook[c].pc) /\ A(l) = A(hook[c].pc) /\ l # "close"
  BY <1>1, <1>3, Weights
<1> QED BY <1>2, <1>3, <1>4, NotInWindow, PlainMove

LEMMA ReplacementFailsKeeps ==
    ASSUME PoolInv, NEW c \in HookCalls, ReplacementFails(c)
    PROVE  PoolInv'
<1>1. Moves(c, "done", hook[c].runner, hook[c].remaining)
  BY StepMoves DEF ReplacementFails, PoolInv, Labels
<1>2. /\ UNCHANGED <<idle, filling, replacing, active, draining, drained, closed, rushed, panics>>
      /\ hook[c].pc = "count" /\ lost' = lost + 1
  BY DEF ReplacementFails, At
<1>3. PoolTypeOK'
  BY <1>1, <1>2, TypeByMove DEF PoolInv, PoolTypeOK
<1>4. ASSUME ~draining PROVE BeforeDrain'
  <2>1. idle' + filling' + replacing' + lost' + W("done")
          = idle + filling + replacing + lost + W(hook[c].pc)
    BY <1>2, Weights DEF PoolInv, PoolTypeOK
  <2>2. active' = active + A("done") - A(hook[c].pc)
    BY <1>2, Weights DEF PoolInv, PoolTypeOK
  <2>3. "done" \notin Holding
    BY DEF Holding
  <2> QED BY <1>1, <1>2, <1>3, <1>4, <2>1, <2>2, <2>3, BeforeByMove DEF PoolInv
<1> QED BY <1>2, <1>3, <1>4, NotInWindow DEF PoolInv

LEMMA CountActiveKeeps ==
    ASSUME PoolInv, NEW c \in HookCalls, CountActive(c)
    PROVE  PoolInv'
<1>1. Moves(c, "call", hook[c].runner, hook[c].remaining)
  BY StepMoves DEF CountActive, PoolInv, Labels
<1>2. /\ UNCHANGED <<idle, filling, replacing, lost, draining, drained, closed, rushed, panics>>
      /\ hook[c].pc = "count" /\ active' = active + 1
  BY DEF CountActive, channelVars, At
<1>3. PoolTypeOK'
  BY <1>1, <1>2, TypeByMove DEF PoolInv, PoolTypeOK
<1>4. ASSUME ~draining PROVE BeforeDrain'
  <2>1. idle' + filling' + replacing' + lost' + W("call")
          = idle + filling + replacing + lost + W(hook[c].pc)
    BY <1>2, Weights DEF PoolInv, PoolTypeOK
  <2>2. active' = active + A("call") - A(hook[c].pc)
    BY <1>2, Weights DEF PoolInv, PoolTypeOK
  <2>3. hook[c].runner
    BY <1>2, <1>4 DEF PoolInv, BeforeDrain, Holding
  <2> QED BY <1>1, <1>2, <1>3, <1>4, <2>1, <2>2, <2>3, BeforeByMove DEF PoolInv
<1> QED BY <1>2, <1>3, <1>4, NotInWindow DEF PoolInv

LEMMA CallReturnsKeeps ==
    ASSUME PoolInv, NEW c \in HookCalls, CallReturns(c)
    PROVE  PoolInv'
<1>1. Moves(c, "release", hook[c].runner, hook[c].remaining)
  BY StepMoves DEF CallReturns, PoolInv, Labels
<1>2. /\ UNCHANGED <<idle, filling, replacing, lost, active, draining, drained, closed, rushed, patience, panics>>
      /\ hook[c].pc = "call"
  BY DEF CallReturns, channelVars, At
<1>3. W("release") = W(hook[c].pc) /\ A("release") = A(hook[c].pc)
  BY <1>2, Weights
<1>4. ASSUME draining, ~rushed PROVE DuringDrain'
  <2>1. active' = active + A("release") - A(hook[c].pc) /\ active' <= active
    BY <1>2, Weights DEF PoolInv, PoolTypeOK
  <2>2. PoolTypeOK'
    BY <1>1, <1>2, TypeByMove DEF PoolInv, PoolTypeOK
  <2>3. DuringDrain /\ PoolTypeOK /\ hook[c].runner
    BY <1>2, <1>4 DEF PoolInv, DuringDrain, InCall
  <2>4. PICK m \in Int : m = hook[c].remaining
    BY <2>3 DEF PoolTypeOK
  <2>5. Moves(c, "release", TRUE, m)
    BY <1>1, <2>3, <2>4 DEF Moves, PoolTypeOK
  <2> QED BY <1>2, <2>1, <2>2, <2>3, <2>5, DuringByMove
<1> QED BY <1>1, <1>2, <1>3, <1>4, PlainMove

LEMMA DiscardKeeps ==
    ASSUME PoolInv, NEW c \in HookCalls, Discard(c)
    PROVE  PoolInv'
<1>0. active \in Int /\ active - 1 \in Int
  BY DEF PoolInv, PoolTypeOK
<1>1. Moves(c, "signal", hook[c].runner, active - 1)
  BY <1>0, CountMoves DEF Discard, PoolInv, Labels
<1>2. /\ UNCHANGED <<idle, filling, lost, draining, drained, closed, rushed, patience, panics>>
      /\ hook[c].pc = "call" /\ active' = active - 1 /\ replacing' = replacing + 1
  BY DEF Discard, At
<1>3. PoolTypeOK'
  BY <1>1, <1>2, TypeByMove DEF PoolInv, PoolTypeOK
<1>4. active' = active + A("signal") - A(hook[c].pc) /\ active' < active
  BY <1>0, <1>2, Weights
<1>5. ASSUME ~draining PROVE BeforeDrain'
  <2>1. idle' + filling' + replacing' + lost' + W("signal")
          = idle + filling + replacing + lost + W(hook[c].pc)
    BY <1>2, Weights DEF PoolInv, PoolTypeOK
  <2>2. "signal" \notin Holding
    BY DEF Holding
  <2> QED BY <1>1, <1>2, <1>3, <1>4, <1>5, <2>1, <2>2, BeforeByMove DEF PoolInv
<1>6. ASSUME draining, ~rushed PROVE DuringDrain'
  BY <1>0, <1>1, <1>2, <1>3, <1>4, <1>6, DuringByMove DEF PoolInv
<1> QED BY <1>2, <1>3, <1>5, <1>6 DEF PoolInv

LEMMA ReleaseKeeps ==
    ASSUME PoolInv, NEW c \in HookCalls, Release(c)
    PROVE  PoolInv'
<1>0. active \in Int /\ active - 1 \in Int
  BY DEF PoolInv, PoolTypeOK
<1>1. Moves(c, "released", hook[c].runner, active - 1)
  BY <1>0, CountMoves DEF Release, PoolInv, Labels
<1>2. /\ UNCHANGED <<idle, filling, replacing, lost, draining, drained, closed, rushed, patience, panics>>
      /\ hook[c].pc = "release" /\ active' = active - 1
  BY DEF Release, At, channelVars
<1>3. PoolTypeOK'
  BY <1>1, <1>2, TypeByMove DEF PoolInv, PoolTypeOK
<1>4. active' = active + A("released") - A(hook[c].pc) /\ active' < active
  BY <1>0, <1>2, Weights
<1>5. ASSUME ~draining PROVE BeforeDrain'
  <2>1. idle' + filling' + replacing' + lost' + W("released")
          = idle + filling + replacing + lost + W(hook[c].pc)
    BY <1>2, Weights DEF PoolInv, PoolTypeOK
  <2>2. hook[c].runner
    BY <1>2, <1>5 DEF PoolInv, BeforeDrain, Holding
  <2> QED BY <1>1, <1>2, <1>3, <1>4, <1>5, <2>1, <2>2, BeforeByMove DEF PoolInv
<1>6. ASSUME draining, ~rushed PROVE DuringDrain'
  <2>1. DuringDrain /\ PoolTypeOK /\ hook[c].runner
    BY <1>2, <1>6 DEF PoolInv, DuringDrain, InCall
  <2>2. active' >= active' /\ active' <= active
    BY <1>0, <1>2
  <2> QED BY <1>1, <1>2, <1>3, <1>4, <2>1, <2>2, DuringByMove
<1> QED BY <1>2, <1>3, <1>5, <1>6 DEF PoolInv

LEMMA CheckDrainingKeeps ==
    ASSUME PoolInv, NEW c \in HookCalls, CheckDraining(c)
    PROVE  PoolInv'
<1>1. PICK l \in Labels : l = IF ~draining THEN "send" ELSE IF hook[c].runner THEN "signal" ELSE "done"
  BY DEF Labels
<1>2. Moves(c, l, hook[c].runner, hook[c].remaining)
  BY <1>1, StepMoves DEF CheckDraining, PoolInv
<1>3. /\ UNCHANGED <<idle, filling, replacing, lost, active, draining, drained, closed, rushed, patience>>
      /\ hook[c].pc = "released"
      /\ (draining /\ ~hook[c].runner) \/ UNCHANGED panics
  BY DEF CheckDraining, channelVars, At
<1>4. PoolTypeOK'
  BY <1>2, <1>3, TypeByMove DEF PoolInv, PoolTypeOK
<1>5. W("released") = 1 /\ W("send") = 1 /\ A("released") = 0 /\ A("send") = 0 /\ A("signal") = 0
  BY Weights
<1>6. ASSUME ~draining PROVE BeforeDrain'
  <2>1. BeforeDrain /\ PoolTypeOK /\ hook[c].runner /\ l = "send"
    BY <1>1, <1>3, <1>6 DEF PoolInv, BeforeDrain, Holding
  <2>2. active' = active + A(l) - A(hook[c].pc)
    BY <1>3, <1>5, <2>1 DEF PoolTypeOK
  <2>3. idle' + filling' + replacing' + lost' + W(l) = idle + filling + replacing + lost + W(hook[c].pc)
    BY <1>3, <1>5, <2>1
  <2>4. UNCHANGED panics
    BY <1>3, <1>6
  <2> QED BY <1>2, <1>3, <1>4, <2>1, <2>2, <2>3, <2>4, BeforeByMove
<1>7. ASSUME draining, ~rushed PROVE DuringDrain'
  <2>1. DuringDrain /\ PoolTypeOK /\ hook[c].runner
    BY <1>3, <1>7 DEF PoolInv, DuringDrain, InCall
  <2>2. l = "signal" /\ UNCHANGED panics
    BY <1>1, <1>3, <1>7, <2>1
  <2>3. PICK m \in Int : m = hook[c].remaining
    BY <2>1 DEF PoolTypeOK
  <2>4. Moves(c, "signal", TRUE, m)
    BY <1>2, <2>1, <2>2, <2>3 DEF Moves, PoolTypeOK
  <2>5. active' = active + A("signal") - A(hook[c].pc) /\ active' <= active /\ m >= active'
    BY <1>3, <1>5, <2>1, <2>3 DEF PoolTypeOK, DuringDrain
  <2> QED BY <1>3, <1>4, <2>1, <2>2, <2>3, <2>4, <2>5, DuringByMove
<1> QED BY <1>3, <1>4, <1>6, <1>7 DEF PoolInv

LEMMA ExhaustedKeeps ==
    ASSUME PoolInv, NEW c \in HookCalls, Exhausted(c)
    PROVE  PoolInv'
<1>1. Moves(c, "done", hook[c].runner, hook[c].remaining)
  BY StepMoves DEF Exhausted, PoolInv, Labels
<1>2. /\ UNCHANGED <<idle, filling, lost, active, draining, drained, closed, rushed, panics>>
      /\ hook[c].pc = "send" /\ replacing' = replacing + 1
  BY DEF Exhausted, At
<1>3. PoolTypeOK'
  BY <1>1, <1>2, TypeByMove DEF PoolInv, PoolTypeOK
<1>4. ASSUME ~draining PROVE BeforeDrain'
  <2>1. idle' + filling' + replacing' + lost' + W("done")
          = idle + filling + replacing + lost + W(hook[c].pc)
    BY <1>2, Weights DEF PoolInv, PoolTypeOK
  <2>2. active' = active + A("done") - A(hook[c].pc)
    BY <1>2, Weights DEF PoolInv, PoolTypeOK
  <2>3. "done" \notin Holding
    BY DEF Holding
  <2> QED BY <1>1, <1>2, <1>3, <1>4, <2>1, <2>2, <2>3, BeforeByMove DEF PoolInv
<1> QED BY <1>2, <1>3, <1>4, NotInWindow DEF PoolInv

LEMMA SendKeeps ==
    ASSUME PoolInv, NEW c \in HookCalls, Send(c)
    PROVE  PoolInv'
<1>1. Moves(c, "done", hook[c].runner, hook[c].remaining)
  BY StepMoves DEF Send, PoolInv, Labels
<1>2. /\ UNCHANGED <<filling, replacing, lost, active, draining, drained, closed, rushed, patience>>
      /\ hook[c].pc = "send"
      /\ idle' = IF closed THEN idle ELSE idle + 1
      /\ closed \/ UNCHANGED panics
  BY DEF Send, channelVars, At
<1>3. PoolTypeOK'
  BY <1>1, <1>2, TypeByMove DEF PoolInv, PoolTypeOK
<1>4. ASSUME ~draining PROVE BeforeDrain'
  <2>0. BeforeDrain /\ PoolTypeOK /\ idle' = idle + 1 /\ UNCHANGED panics
    BY <1>2, <1>4 DEF PoolInv, BeforeDrain
  <2>1. idle' + filling' + replacing' + lost' + W("done")
          = idle + filling + replacing + lost + W(hook[c].pc)
    BY <1>2, <2>0, Weights DEF PoolTypeOK
  <2>2. active' = active + A("done") - A(hook[c].pc)
    BY <1>2, <2>0, Weights DEF PoolTypeOK
  <2>3. "done" \notin Holding
    BY DEF Holding
  <2> QED BY <1>1, <1>2, <1>3, <2>0, <2>1, <2>2, <2>3, BeforeByMove
<1> QED BY <1>2, <1>3, <1>4, NotInWindow DEF PoolInv

LEMMA SignalKeeps ==
    ASSUME PoolInv, NEW c \in HookCalls, Signal(c)
    PROVE  PoolInv'
<1>1. PICK l \in Labels : l = IF draining /\ hook[c].remaining <= 0 /\ ~drained THEN "close" ELSE "done"
  BY DEF Labels
<1>2. Moves(c, l, hook[c].runner, hook[c].remaining)
  BY <1>1, StepMoves DEF Signal, PoolInv
<1>3. /\ UNCHANGED <<idle, filling, replacing, lost, active, draining, drained, closed, rushed, patience, panics>>
      /\ hook[c].pc = "signal"
  BY DEF Signal, channelVars, At
<1>4. ~draining => W(l) = W(hook[c].pc) /\ A(l) = A(hook[c].pc) /\ l # "close"
  BY <1>1, <1>3, Weights
<1>5. ASSUME draining, ~rushed PROVE DuringDrain'
  <2>1. DuringDrain /\ PoolTypeOK
    BY <1>5 DEF PoolInv
  <2>2. PoolTypeOK'
    BY <1>2, <1>3, TypeByMove DEF PoolInv, PoolTypeOK
  <2>3. PICK m \in Int : m = hook[c].remaining
    BY <2>1 DEF PoolTypeOK
  <2>4. PICK r \in BOOLEAN : r = hook[c].runner
    BY <2>1 DEF PoolTypeOK
  <2>5. Moves(c, l, r, m)
    BY <1>2, <2>3, <2>4
  <2>6. active' = active + A(l) - A(hook[c].pc) /\ active' <= active /\ m >= active'
    BY <1>1, <1>3, <2>1, <2>3, Weights DEF PoolTypeOK, DuringDrain
  <2>7. l \in {"close", "done"} /\ (l = "close" => ~drained /\ m <= 0)
    BY <1>1, <2>3
  <2> QED BY <1>3, <2>1, <2>2, <2>3, <2>5, <2>6, <2>7, DuringByMove
<1> QED BY <1>2, <1>3, <1>4, <1>5, PlainMove

LEMMA CloseDrainedKeeps ==
    ASSUME PoolInv, NEW c \in HookCalls, CloseDrained(c)
    PROVE  PoolInv'
<1>1. Moves(c, "done", hook[c].runner, hook[c].remaining)
  BY StepMoves DEF CloseDrained, PoolInv, Labels
<1>2. /\ UNCHANGED <<idle, filling, replacing, lost, active, draining, closed, rushed, patience>>
      /\ hook[c].pc = "close" /\ drained' = TRUE /\ (drained \/ UNCHANGED panics)
  BY DEF CloseDrained, At
<1>3. PoolTypeOK'
  BY <1>1, <1>2, TypeByMove DEF PoolInv, PoolTypeOK
<1>4. draining
  BY <1>2 DEF PoolInv, BeforeDrain
<1>5. ASSUME ~rushed PROVE DuringDrain'
  <2>1. DuringDrain /\ PoolTypeOK
    BY <1>4, <1>5 DEF PoolInv
  <2>2. UNCHANGED panics
    BY <1>2, <2>1 DEF DuringDrain
  <2>3. active' = active + A("done") - A(hook[c].pc) /\ active' <= active
    BY <1>2, <2>1, Weights DEF PoolTypeOK
  <2> QED BY <1>1, <1>2, <1>3, <2>1, <2>2, <2>3, DuringByMove
<1> QED BY <1>2, <1>3, <1>4, <1>5 DEF PoolInv

LEMMA ReplaceInstanceKeeps ==
    ASSUME PoolInv, ReplaceInstance
    PROVE  PoolInv'
<1>1. /\ UNCHANGED <<filling, active, draining, drained, closed, hook, rushed, patience, panics>>
      /\ replacing > 0 /\ replacing' = replacing - 1
  BY DEF ReplaceInstance
<1>2. idle \in Nat /\ lost \in Nat /\ replacing \in Nat /\ filling \in Nat /\ PoolSize \in Nat
  BY PoolAssumption DEF PoolInv, PoolTypeOK
<1>3. idle' \in Nat /\ lost' \in Nat
  BY <1>2 DEF ReplaceInstance, AddRunner
<1>4. PoolTypeOK'
  BY <1>1, <1>2, <1>3 DEF PoolInv, PoolTypeOK
<1>5. \A S : Calls(S)' = Calls(S)
  BY <1>1 DEF Calls
<1>6. ASSUME ~draining PROVE BeforeDrain'
  <2>1. BeforeDrain /\ Cardinality(Calls(Holding)) \in Nat
    BY <1>6, CallsCounted DEF PoolInv
  <2>2. idle # PoolSize
    BY <1>1, <1>2, <2>1 DEF BeforeDrain
  <2>3. \/ idle' = idle + 1 /\ lost' = lost
        \/ idle' = idle /\ lost' = lost + 1
    BY <1>6, <2>2 DEF ReplaceInstance, AddRunner
  <2>4. idle' + filling' + replacing' + lost' = idle + filling + replacing + lost
    BY <1>1, <1>2, <2>3
  <2> QED BY <1>1, <1>5, <2>1, <2>4 DEF BeforeDrain
<1>7. ASSUME draining, ~rushed PROVE DuringDrain'
  BY <1>1, <1>5, <1>7 DEF PoolInv, DuringDrain
<1> QED BY <1>1, <1>4, <1>6, <1>7 DEF PoolInv

LEMMA BackgroundFillKeeps ==
    ASSUME PoolInv, BackgroundFill
    PROVE  PoolInv'
<1>1. /\ UNCHANGED <<replacing, active, draining, drained, closed, hook, rushed, patience, panics>>
      /\ filling > 0
  BY DEF BackgroundFill
<1>2. idle \in Nat /\ lost \in Nat /\ replacing \in Nat /\ filling \in Nat /\ PoolSize \in Nat
  BY PoolAssumption DEF PoolInv, PoolTypeOK
<1>3. idle' \in Nat /\ lost' \in Nat /\ filling' \in Nat
  BY <1>1, <1>2 DEF BackgroundFill, AddRunner
<1>4. PoolTypeOK'
  BY <1>1, <1>2, <1>3 DEF PoolInv, PoolTypeOK
<1>5. \A S : Calls(S)' = Calls(S)
  BY <1>1 DEF Calls
<1>6. ASSUME ~draining PROVE BeforeDrain'
  <2>1. BeforeDrain /\ Cardinality(Calls(Holding)) \in Nat
    BY <1>6, CallsCounted DEF PoolInv
  <2>2. idle # PoolSize
    BY <1>1, <1>2, <2>1 DEF BeforeDrain
  <2>3. \/ idle' = idle + 1 /\ lost' = lost /\ filling' = filling - 1
        \/ idle' = idle /\ lost' = lost + filling /\ filling' = 0
    BY <1>6, <2>2 DEF BackgroundFill, AddRunner
  <2>4. idle' + filling' + replacing' + lost' = idle + filling + replacing + lost
    BY <1>1, <1>2, <2>3
  <2> QED BY <1>1, <1>5, <2>1, <2>4 DEF BeforeDrain
<1>7. ASSUME draining, ~rushed PROVE DuringDrain'
  BY <1>1, <1>5, <1>7 DEF PoolInv, DuringDrain
<1> QED BY <1>1, <1>4, <1>6, <1>7 DEF PoolInv

LEMMA StartDrainKeeps ==
    ASSUME PoolInv, StartDrain
    PROVE  PoolInv'
<1>1. /\ UNCHANGED <<idle, filling, replacing, lost, active, closed, hook, patience, panics>>
      /\ ~draining /\ draining' = TRUE /\ drained' = (active <= 0)
      /\ rushed' = \E c \in HookCalls : hook[c].pc \in Windows
  BY DEF StartDrain
<1>2. BeforeDrain /\ PoolTypeOK
  BY <1>1 DEF PoolInv
<1>3. PoolTypeOK'
  BY <1>1, <1>2 DEF PoolTypeOK
<1>4. ASSUME ~rushed' PROVE DuringDrain'
  <2>1. \A S : Calls(S)' = Calls(S)
    BY <1>1 DEF Calls
  <2>2. active = Cardinality(Calls(InCall)) /\ active \in Nat /\ panics = {} /\ ~closed
    BY <1>2, CallsCounted DEF BeforeDrain
  <2>3. \A c \in HookCalls : /\ hook[c].pc \in {"new", "call", "release", "done"}
                             /\ hook[c].pc \in InCall => hook[c].runner
    BY <1>1, <1>2, <1>4 DEF BeforeDrain, PoolTypeOK, Labels, Windows, Holding, InCall
  <2>4. active' = Cardinality(Calls(InCall)')
    BY <1>1, <2>1, <2>2
  <2>5. drained' => active' = 0
    <3>1. drained' => active <= 0
      BY <1>1
    <3>2. active' = active
      BY <1>1
    <3> QED BY <2>2, <3>1, <3>2
  <2>6. \A c \in HookCalls : /\ hook'[c].pc \in {"new", "call", "release", "done"}
                             /\ hook'[c].pc \in InCall => hook'[c].runner
    BY <1>1, <2>3
  <2>7. \A c \in HookCalls : hook'[c].pc \notin {"released", "signal", "close"}
    BY <2>6
  <2>8. panics' = {} /\ ~closed'
    BY <1>1, <2>2
  <2> QED BY <2>4, <2>5, <2>6, <2>7, <2>8 DEF DuringDrain
<1> QED BY <1>1, <1>3, <1>4 DEF PoolInv

LEMMA FinishDrainKeeps ==
    ASSUME PoolInv, FinishDrain
    PROVE  PoolInv'
<1>1. /\ UNCHANGED <<filling, replacing, lost, active, draining, drained, hook, rushed, panics>>
      /\ draining /\ closed' = TRUE /\ idle' = 0 /\ (drained \/ ~patience')
  BY DEF FinishDrain
<1>2. PoolTypeOK'
  BY <1>1 DEF PoolInv, PoolTypeOK
<1>3. \A S : Calls(S)' = Calls(S)
  BY <1>1 DEF Calls
<1>4. ASSUME ~rushed PROVE DuringDrain'
  BY <1>1, <1>3, <1>4 DEF PoolInv, DuringDrain
<1> QED BY <1>1, <1>2, <1>4 DEF PoolInv

\* The pool begins with all of its runners idle or on the way, and no call.
LEMMA PoolBegins == PoolInit => PoolInv
<1> SUFFICES ASSUME PoolInit PROVE PoolInv
  OBVIOUS
<1>1. idle \in Nat /\ filling \in Nat /\ idle + filling = PoolSize
  BY PoolAssumption DEF PoolInit
<1>2. \A c \in HookCalls : hook[c].pc = "new"
  BY DEF PoolInit
<1>3. hook \in [HookCalls -> [pc : Labels, runner : BOOLEAN, remaining : Int]]
  BY DEF PoolInit, Labels
<1>4. Calls(Holding) = {} /\ Calls(InCall) = {}
  BY <1>2 DEF Calls, Holding, InCall
<1>5. Cardinality(Calls(Holding)) = 0 /\ Cardinality(Calls(InCall)) = 0
  BY <1>4, FS_EmptySet
<1>6. PoolTypeOK
  <2>1. /\ replacing = 0 /\ lost = 0 /\ active = 0
        /\ draining = FALSE /\ drained = FALSE /\ closed = FALSE
    BY DEF PoolInit
  <2>2. replacing \in Nat /\ lost \in Nat /\ active \in Int
    BY <2>1
  <2>3. draining \in BOOLEAN /\ drained \in BOOLEAN /\ closed \in BOOLEAN
    BY <2>1
  <2> QED BY <1>1, <1>3, <2>2, <2>3 DEF PoolTypeOK
<1>7. idle + filling + replacing + lost + Cardinality(Calls(Holding)) = PoolSize
  BY <1>1, <1>5 DEF PoolInit
<1>8. \A c \in HookCalls : hook[c].pc # "close" /\ hook[c].pc \notin Holding
  BY <1>2 DEF Holding
<1> QED BY <1>5, <1>6, <1>7, <1>8 DEF PoolInv, BeforeDrain, PoolInit

LEMMA PoolSteps == PoolInv /\ [PoolNext]_poolVars => PoolInv'
<1> SUFFICES ASSUME PoolInv, [PoolNext]_poolVars PROVE PoolInv'
  OBVIOUS
<1>1. ASSUME NEW c \in HookCalls, PoolCall(c) PROVE PoolInv'
  BY <1>1, FastPathKeeps, ReceiveKeeps, AcquireTimeoutKeeps, DoubleCheckKeeps, ReplacementFailsKeeps,
     CountActiveKeeps, CallReturnsKeeps, DiscardKeeps, ReleaseKeeps, CheckDrainingKeeps,
     ExhaustedKeeps, SendKeeps, SignalKeeps, CloseDrainedKeeps DEF PoolCall
<1>2. ASSUME UNCHANGED poolVars PROVE PoolInv'
  <2>1. \A S : Calls(S)' = Calls(S)
    BY <1>2 DEF poolVars, Calls
  <2>2. PoolTypeOK'
    BY <1>2 DEF poolVars, PoolInv, PoolTypeOK
  <2>3. BeforeDrain' <=> BeforeDrain
    BY <1>2, <2>1 DEF poolVars, BeforeDrain
  <2>4. DuringDrain' <=> DuringDrain
    BY <1>2, <2>1 DEF poolVars, DuringDrain
  <2> QED BY <1>2, <2>2, <2>3, <2>4 DEF poolVars, PoolInv
<1> QED BY <1>1, <1>2, ReplaceInstanceKeeps, BackgroundFillKeeps, StartDrainKeeps, FinishDrainKeeps
        DEF PoolNext

LEMMA PoolInvIsQuiet == PoolInv => QuietDrain
<1> SUFFICES ASSUME PoolInv PROVE QuietDrain
  OBVIOUS
<1>1. ASSUME ~draining
      PROVE  /\ idle + filling + replacing + lost
                  + Cardinality({c \in HookCalls : hook[c].pc \in Holding}) = PoolSize
             /\ active = Cardinality({c \in HookCalls : hook[c].pc \in {"call", "release"}})
  BY <1>1 DEF PoolInv, BeforeDrain, Calls, InCall
<1>2. ASSUME ~rushed PROVE panics = {}
  BY <1>2 DEF PoolInv, PoolTypeOK, BeforeDrain, DuringDrain
<1>3. ASSUME ~rushed, closed, patience, NEW c \in HookCalls
      PROVE  hook[c].pc \notin {"call", "release"}
  <2>1. Cardinality(Calls(InCall)) = 0
    BY <1>3 DEF PoolInv, PoolTypeOK, BeforeDrain, DuringDrain
  <2>2. Calls(InCall) = {}
    BY <2>1, CallsCounted, FS_EmptySet
  <2> QED BY <2>2 DEF Calls, InCall
<1> QED BY <1>1, <1>2, <1>3 DEF QuietDrain

\* A drain that begins with no call between the two looks of Acquire at the flag, nor between
\* Release and its signal, waits for the calls that run and panics nowhere (PluginPool).
THEOREM DrainsAreQuiet == PoolSpec => []QuietDrain
<1>1. PoolSpec => []PoolInv
  BY PoolBegins, PoolSteps, PTL DEF PoolSpec
<1> QED BY <1>1, PoolInvIsQuiet, PTL

-----------------------------------------------------------------------------
\* PluginHooks.  One synchronous dispatch.
\* The chain goes through its copy in order of priority, and back in reverse.
Descending(s) == \A i, j \in DOMAIN s : i < j => s[i] > s[j]
Ascending(s) == \A i, j \in DOMAIN s : i < j => s[i] < s[j]

ChainTypeOK ==
    /\ hooked \subseteq Plugins
    /\ chain \in [pc : {"none", "chain", "undo", "done"}, mode : {"safe", "sync"},
                  todo : SUBSET Plugins, executed : Seq(Plugins),
                  result : {"ok", "refused", "failed", "rollback"}, left : Seq(Plugins),
                  undone : Seq(Plugins), failed : SUBSET Plugins, gone : SUBSET Plugins]

\* While plugins run, none is left to be undone, and those that ran precede the others.
Advancing ==
    /\ chain.left = <<>> /\ chain.undone = <<>> /\ chain.failed = {} /\ chain.result = "ok"
    /\ Ascending(chain.executed)
    /\ \A i \in DOMAIN chain.executed : \A q \in chain.todo : chain.executed[i] < q

\* While they are compensated, those left are the first that ran; the others are settled.
Unwinding ==
    /\ Ascending(chain.executed)
    /\ Len(chain.left) <= Len(chain.executed)
    /\ \A i \in DOMAIN chain.left : chain.left[i] = chain.executed[i]
    /\ \A i \in DOMAIN chain.executed :
         i > Len(chain.left) /\ chain.executed[i] \in Undoing =>
            chain.executed[i] \in Seen(chain.undone) \cup chain.failed \cup chain.gone
    /\ Seen(chain.undone) \cup chain.failed \subseteq Seen(chain.executed)
    /\ Descending(chain.undone)
    /\ \A i \in DOMAIN chain.left, j \in DOMAIN chain.undone : chain.left[i] < chain.undone[j]

ChainInv ==
    /\ ChainTypeOK
    /\ chain.pc = "chain" => Advancing
    /\ chain.pc = "undo" => Unwinding
    /\ FailureIsCompensated

LEMMA ChainBegins == ChainInit => ChainInv
  BY DEF ChainInit, ChainInv, ChainTypeOK, FailureIsCompensated, NoDispatch, Plugins

LEMMA DispatchKeeps == ASSUME ChainInv, NEW mode \in {"safe", "sync"}, Dispatch(mode) PROVE ChainInv'
<1>1. chain' = [pc |-> "chain", mode |-> mode, todo |-> hooked, executed |-> <<>>, result |-> "ok",
               left |-> <<>>, undone |-> <<>>, failed |-> {}, gone |-> {}] /\ hooked' = hooked
  BY DEF Dispatch, NoDispatch
<1> QED BY <1>1 DEF ChainInv, ChainTypeOK, Advancing, Ascending, FailureIsCompensated

\* A plugin runs, is passed over, or ends the chain.
LEMMA TurnKeeps ==
  ASSUME ChainInv, NEW p \in Plugins,
         StepRefused(p) \/ StepContinues(p) \/ StepFails(p) \/ StepRollsBack(p)
  PROVE  ChainInv'
<1> USE DEF ChainInv, ChainTypeOK, FailureIsCompensated
<1>1. CASE StepRefused(p)
  <2>1. CASE chain.mode = "safe"
    BY <1>1, <2>1 DEF StepRefused, Turn, Advancing
  <2>2. CASE chain.mode # "safe"
    BY <1>1, <2>2 DEF StepRefused, Turn, Advancing
  <2> QED BY <2>1, <2>2
<1>2. CASE StepContinues(p)
  <2> PICK ex \in Seq(Plugins) : ex = chain.executed
    OBVIOUS
  <2> PICK td \in SUBSET Plugins : td = chain.todo
    OBVIOUS
  <2>1. /\ chain.pc = "chain" /\ p \in td /\ (\A q \in td : p <= q) /\ Advancing
        /\ hooked' = hooked /\ chain' = [chain EXCEPT !.todo = td \ {p}, !.executed = Append(ex, p)]
    BY <1>2 DEF StepContinues, Turn
  <2>2. /\ Ascending(ex) /\ \A i \in DOMAIN ex : \A q \in td : ex[i] < q
    BY <2>1 DEF Advancing
  <2>3. /\ Append(ex, p) \in Seq(Plugins) /\ DOMAIN Append(ex, p) = 1 .. Len(ex) + 1
        /\ (\A i \in DOMAIN ex : Append(ex, p)[i] = ex[i]) /\ Append(ex, p)[Len(ex) + 1] = p
    OBVIOUS
  <2>4. Ascending(Append(ex, p))
    <3> SUFFICES ASSUME NEW i \in DOMAIN Append(ex, p), NEW j \in DOMAIN Append(ex, p), i < j
                 PROVE  Append(ex, p)[i] < Append(ex, p)[j]
      BY DEF Ascending
    <3>1. i \in DOMAIN ex /\ (j \in DOMAIN ex \/ j = Len(ex) + 1)
      BY <2>3
    <3> QED BY <3>1, <2>1, <2>2, <2>3 DEF Ascending
  <2>5. \A i \in DOMAIN Append(ex, p) : \A q \in td \ {p} : Append(ex, p)[i] < q
    <3> SUFFICES ASSUME NEW i \in DOMAIN Append(ex, p), NEW q \in td \ {p}
                 PROVE  Append(ex, p)[i] < q
      OBVIOUS
    <3>1. CASE i \in DOMAIN ex
      BY <3>1, <2>2, <2>3
    <3>2. CASE i = Len(ex) + 1
      <4>1. p <= q /\ p # q /\ p \in Int /\ q \in Int
        BY <2>1 DEF Plugins
      <4> QED BY <3>2, <4>1, <2>3
    <3> QED BY <3>1, <3>2, <2>3
  <2>6. chain'.executed = Append(ex, p) /\ chain'.todo = td \ {p}
    BY <2>1
  <2>7. Advancing'
    <3>1. chain'.left = <<>> /\ chain'.undone = <<>> /\ chain'.failed = {} /\ chain'.result = "ok"
      BY <2>1 DEF Advancing
    <3> QED BY <2>4, <2>5, <2>6, <3>1 DEF Advancing, Ascending
  <2>8. ChainTypeOK' /\ chain'.pc = "chain"
    BY <2>1, <2>3
  <2> QED BY <2>7, <2>8
<1>3. CASE StepFails(p)
  <2>1. CASE chain.mode = "safe"
    <3>1. /\ Advancing /\ hooked' = hooked
          /\ chain' = [chain EXCEPT !.pc = "undo", !.result = "failed", !.left = chain.executed]
      BY <1>3, <2>1 DEF StepFails, Turn
    <3>2. Unwinding'
      BY <3>1 DEF Advancing, Unwinding, Ascending, Descending, Seen
    <3> QED BY <3>1, <3>2
  <2>2. CASE chain.mode # "safe"
    BY <1>3, <2>2 DEF StepFails, Turn
  <2> QED BY <2>1, <2>2
<1>4. CASE StepRollsBack(p)
  BY <1>4 DEF StepRollsBack, Turn
<1> QED BY <1>1, <1>2, <1>3, <1>4

\* The latest plugin that is left is settled: asked, reported, or passed over.
LEMMA CompensateKeeps ==
  ASSUME ChainInv, CompensateCall \/ CompensateSkip PROVE ChainInv'
<1> PICK ex \in Seq(Plugins) : ex = chain.executed
  BY DEF ChainInv, ChainTypeOK
<1> PICK lf \in Seq(Plugins) : lf = chain.left
  BY DEF ChainInv, ChainTypeOK
<1> PICK un \in Seq(Plugins) : un = chain.undone
  BY DEF ChainInv, ChainTypeOK
<1> DEFINE n == Len(lf)
           p == lf[n]
           lf1 == SubSeq(lf, 1, n - 1)
<1>1. /\ chain.pc = "undo" /\ lf # <<>> /\ Unwinding /\ ChainTypeOK
  BY DEF ChainInv, CompensateCall, CompensateSkip, Compensating
<1>2. /\ n \in Nat \ {0} /\ lf1 \in Seq(Plugins) /\ Len(lf1) = n - 1
      /\ \A i \in 1 .. n - 1 : lf1[i] = lf[i]
  BY <1>1
<1>3. /\ n <= Len(ex) /\ p \in Plugins /\ p = ex[n] /\ n \in DOMAIN ex
      /\ \A i \in DOMAIN lf : lf[i] = ex[i]
  BY <1>1, <1>2 DEF Unwinding
<1>4. /\ hooked' = hooked /\ chain'.pc = "undo" /\ chain'.executed = ex /\ chain'.left = lf1
      /\ \/ /\ chain'.undone = Append(un, p) /\ chain'.failed = chain.failed
            /\ chain'.gone = chain.gone
         \/ /\ chain'.undone = un /\ chain'.failed = chain.failed \cup {p}
            /\ chain'.gone = chain.gone
         \/ /\ chain'.undone = un /\ chain'.failed = chain.failed
            /\ p \notin hooked \cap Undoing
            /\ chain'.gone = chain.gone \cup ({p} \ hooked)
  BY <1>1 DEF CompensateCall, CompensateSkip, Latest, Earlier, ChainTypeOK
<1>5. ChainTypeOK'
  <2>1. Append(un, p) \in Seq(Plugins)
    BY <1>3
  <2>2. \/ chain' = [chain EXCEPT !.left = lf1, !.undone = Append(un, p)]
        \/ chain' = [chain EXCEPT !.left = lf1, !.failed = @ \cup {p}]
        \/ chain' = [chain EXCEPT !.left = lf1, !.gone = @ \cup ({p} \ hooked)]
    BY DEF CompensateCall, CompensateSkip, Latest, Earlier
  <2> HIDE DEF p, lf1
  <2>3. CASE chain' = [chain EXCEPT !.left = lf1, !.undone = Append(un, p)]
    BY <1>1, <1>2, <1>4, <2>1, <2>3 DEF ChainTypeOK
  <2>4. CASE chain' = [chain EXCEPT !.left = lf1, !.failed = @ \cup {p}]
    BY <1>1, <1>2, <1>3, <1>4, <2>4 DEF ChainTypeOK
  <2>5. CASE chain' = [chain EXCEPT !.left = lf1, !.gone = @ \cup ({p} \ hooked)]
    BY <1>1, <1>2, <1>3, <1>4, <2>5 DEF ChainTypeOK
  <2> QED BY <2>2, <2>3, <2>4, <2>5
<1>6. /\ Append(un, p) \in Seq(Plugins) /\ DOMAIN Append(un, p) = 1 .. Len(un) + 1
      /\ DOMAIN un = 1 .. Len(un) /\ Len(un) \in Nat
      /\ (\A i \in DOMAIN un : Append(un, p)[i] = un[i]) /\ Append(un, p)[Len(un) + 1] = p
      /\ Seen(Append(un, p)) = Seen(un) \cup {p}
  <2>1. /\ Append(un, p) \in Seq(Plugins) /\ DOMAIN Append(un, p) = 1 .. Len(un) + 1
        /\ DOMAIN un = 1 .. Len(un) /\ Len(un) \in Nat
        /\ (\A i \in DOMAIN un : Append(un, p)[i] = un[i]) /\ Append(un, p)[Len(un) + 1] = p
    BY <1>3
  <2> QED BY <2>1 DEF Seen
<1>7. /\ Ascending(ex) /\ Descending(un) /\ Seen(un) \cup chain.failed \subseteq Seen(ex)
      /\ \A i \in DOMAIN lf, j \in DOMAIN un : lf[i] < un[j]
      /\ \A i \in DOMAIN ex : i > n /\ ex[i] \in Undoing =>
            ex[i] \in Seen(un) \cup chain.failed \cup chain.gone
  BY <1>1 DEF Unwinding
<1> HIDE DEF lf1, p
<1>8. \A i \in DOMAIN ex : i > n - 1 /\ ex[i] \in Undoing =>
        ex[i] \in Seen(chain'.undone) \cup chain'.failed \cup chain'.gone
  <2> SUFFICES ASSUME NEW i \in DOMAIN ex, i > n - 1, ex[i] \in Undoing
               PROVE  ex[i] \in Seen(chain'.undone) \cup chain'.failed \cup chain'.gone
    OBVIOUS
  <2>1. CASE i > n
    BY <2>1, <1>4, <1>6, <1>7
  <2>2. CASE i = n
    BY <2>2, <1>3, <1>4, <1>6
  <2> QED BY <2>1, <2>2, <1>2
<1>9. Seen(chain'.undone) \cup chain'.failed \subseteq Seen(ex)
  <2>1. p \in Seen(ex)
    BY <1>3 DEF Seen
  <2> QED BY <2>1, <1>4, <1>6, <1>7
<1>10. Descending(chain'.undone)
  <2>1. Descending(Append(un, p))
    <3> SUFFICES ASSUME NEW i \in DOMAIN Append(un, p), NEW j \in DOMAIN Append(un, p), i < j
                 PROVE  Append(un, p)[i] > Append(un, p)[j]
      BY DEF Descending
    <3>1. i \in DOMAIN un /\ (j \in DOMAIN un \/ j = Len(un) + 1)
      BY <1>6
    <3>2. CASE j \in DOMAIN un
      BY <3>1, <3>2, <1>6, <1>7 DEF Descending
    <3>3. CASE j = Len(un) + 1
      <4>1. n \in DOMAIN lf /\ p = lf[n]
        BY <1>2 DEF p
      <4>2. p < un[i]
        BY <3>1, <4>1, <1>7
      <4>3. un[i] \in Int /\ p \in Int
        <5>1. un[i] \in Plugins /\ p \in Plugins
          BY <3>1, <1>3
        <5> QED BY <5>1, ChainAssumption DEF Plugins
      <4> QED BY <3>1, <3>3, <4>2, <4>3, <1>6
    <3> QED BY <3>1, <3>2, <3>3
  <2> QED BY <2>1, <1>4, <1>7
<1>11. \A i \in DOMAIN lf1, j \in DOMAIN chain'.undone : lf1[i] < chain'.undone[j]
  <2> SUFFICES ASSUME NEW i \in DOMAIN lf1, NEW j \in DOMAIN chain'.undone
               PROVE  lf1[i] < chain'.undone[j]
    OBVIOUS
  <2>1. i \in 1 .. n - 1 /\ lf1[i] = lf[i] /\ lf[i] = ex[i] /\ i \in DOMAIN ex /\ i < n
    BY <1>2, <1>3
  <2>2. ex[i] < ex[n]
    BY <2>1, <1>3, <1>7 DEF Ascending
  <2>3. CASE chain'.undone = un
    BY <2>1, <2>3, <1>7
  <2>4. CASE chain'.undone = Append(un, p) /\ j \in DOMAIN un
    BY <2>1, <2>4, <1>6, <1>7
  <2>5. CASE chain'.undone = Append(un, p) /\ j = Len(un) + 1
    BY <2>1, <2>2, <2>5, <1>3, <1>6
  <2> QED BY <2>3, <2>4, <2>5, <1>4, <1>6
<1>12. Unwinding'
  <2>1. Len(lf1) <= Len(ex) /\ \A i \in DOMAIN lf1 : lf1[i] = ex[i]
    BY <1>2, <1>3, <1>6
  <2>2. \A i \in DOMAIN ex : i > Len(lf1) /\ ex[i] \in Undoing =>
          ex[i] \in Seen(chain'.undone) \cup chain'.failed \cup chain'.gone
    BY <1>2, <1>8
  <2>3. chain'.executed = ex /\ chain'.left = lf1 /\ Ascending(ex)
    BY <1>4, <1>7
  <2>4. Ascending(chain.executed)' /\ Descending(chain.undone)'
    BY <2>3, <1>10 DEF Ascending, Descending
  <2>5. /\ Seen(chain.undone)' = Seen(chain'.undone) /\ Seen(chain.executed)' = Seen(ex)
    BY <2>3 DEF Seen
  <2> QED BY <2>1, <2>2, <2>3, <2>4, <2>5, <1>9, <1>11 DEF Unwinding
<1> QED BY <1>4, <1>5, <1>12 DEF ChainInv, FailureIsCompensated

\* Those that remain at the deadline are reported; when none remains, all are settled.
LEMMA UnwindingEnds ==
  ASSUME ChainInv, CompensateDeadline \/ CompensationEnds PROVE ChainInv'
<1>1. CASE CompensateDeadline
  <2>1. /\ chain.pc = "undo" /\ Unwinding /\ ChainTypeOK /\ hooked' = hooked
        /\ chain' = [chain EXCEPT !.left = <<>>, !.failed = @ \cup Seen(chain.left)]
    BY <1>1 DEF CompensateDeadline, Compensating, ChainInv
  <2>2. Seen(chain.left) \subseteq Seen(chain.executed) /\ Seen(chain.left) \subseteq Plugins
    BY <2>1, SMTT(30) DEF Unwinding, ChainTypeOK, Seen
  <2>3. /\ chain'.pc = "undo" /\ chain'.left = <<>> /\ chain'.executed = chain.executed
        /\ chain'.undone = chain.undone /\ chain'.gone = chain.gone
        /\ chain'.failed = chain.failed \cup Seen(chain.left)
    BY <2>1 DEF ChainTypeOK
  <2>4. \A i \in DOMAIN chain.executed : chain.executed[i] \in Undoing =>
          chain.executed[i] \in Seen(chain.undone) \cup chain'.failed \cup chain.gone
    <3> SUFFICES ASSUME NEW i \in DOMAIN chain.executed, chain.executed[i] \in Undoing
                 PROVE  chain.executed[i] \in Seen(chain.undone) \cup chain'.failed \cup chain.gone
      OBVIOUS
    <3>1. CASE i > Len(chain.left)
      BY <2>1, <2>3, <3>1 DEF Unwinding
    <3>2. CASE i \in DOMAIN chain.left
      BY <2>1, <2>3, <3>2 DEF Unwinding, ChainTypeOK, Seen
    <3> QED BY <3>1, <3>2, <2>1 DEF ChainTypeOK
  <2>5. /\ Ascending(chain.executed)' /\ Descending(chain.undone)'
        /\ Seen(chain.undone)' = Seen(chain.undone) /\ Seen(chain.executed)' = Seen(chain.executed)
        /\ Seen(chain.undone) \cup chain'.failed \subseteq Seen(chain.executed)
    BY <2>1, <2>2, <2>3 DEF Unwinding, Ascending, Descending, Seen
  <2>6. Unwinding'
    BY <2>1, <2>3, <2>4, <2>5 DEF Unwinding, ChainTypeOK
  <2>7. ChainTypeOK'
    <3>1. chain.failed \cup Seen(chain.left) \in SUBSET Plugins /\ <<>> \in Seq(Plugins)
      BY <2>1, <2>2 DEF ChainTypeOK
    <3> QED BY <2>1, <3>1 DEF ChainTypeOK
  <2> QED BY <2>3, <2>6, <2>7 DEF ChainInv, FailureIsCompensated
<1>2. CASE CompensationEnds
  <2>1. /\ chain.pc = "undo" /\ chain.left = <<>> /\ Unwinding /\ ChainTypeOK /\ hooked' = hooked
        /\ chain' = [chain EXCEPT !.pc = "done"]
    BY <1>2 DEF CompensationEnds, ChainInv
  <2>2. Seen(chain.executed) \cap Undoing \subseteq Seen(chain.undone) \cup chain.failed \cup chain.gone
    BY <2>1 DEF Unwinding, ChainTypeOK, Seen
  <2>3. ChainTypeOK' /\ chain'.pc = "done"
    BY <2>1 DEF ChainTypeOK
  <2>4. FailureIsCompensated'
    <3>1. /\ chain'.executed = chain.executed /\ chain'.undone = chain.undone
          /\ chain'.failed = chain.failed /\ chain'.gone = chain.gone
      BY <2>1 DEF ChainTypeOK
    <3>2. /\ Seen(chain.executed)' = Seen(chain.executed) /\ Seen(chain.undone)' = Seen(chain.undone)
      BY <3>1 DEF Seen
    <3> QED BY <2>1, <2>2, <3>1, <3>2 DEF FailureIsCompensated, Unwinding, Descending
  <2> QED BY <2>3, <2>4 DEF ChainInv
<1> QED BY <1>1, <1>2

LEMMA ChainStep == ChainInv /\ [ChainNext]_chainVars => ChainInv'
<1> SUFFICES ASSUME ChainInv, [ChainNext]_chainVars PROVE ChainInv'
  OBVIOUS
<1>1. CASE \E mode \in {"safe", "sync"} : Dispatch(mode)
  BY <1>1, DispatchKeeps
<1>2. CASE \E p \in Plugins : StepRefused(p) \/ StepContinues(p) \/ StepFails(p) \/ StepRollsBack(p)
  BY <1>2, TurnKeeps
<1>3. CASE ChainEnds
  BY <1>3 DEF ChainEnds, ChainInv, ChainTypeOK, Advancing, FailureIsCompensated
<1>4. CASE CompensateCall \/ CompensateSkip \/ CompensateDeadline \/ CompensationEnds
  BY <1>4, CompensateKeeps, UnwindingEnds
<1>5. CASE UNCHANGED chain /\ hooked' \subseteq Plugins
  BY <1>5 DEF ChainInv, ChainTypeOK, Advancing, Unwinding, Ascending, Descending, Seen,
              FailureIsCompensated
<1>6. CASE (\E p \in Plugins : Switch(p)) \/ UNCHANGED chainVars
  BY <1>5, <1>6 DEF Switch, chainVars, ChainInv, ChainTypeOK
<1> QED BY <1>1, <1>2, <1>3, <1>4, <1>6 DEF ChainNext

\* For a chain of any length, and plugins switched on and off meanwhile, a safe dispatch that
\* fails has asked every plugin that ran and can undo its work, the last first and each
\* once, or reports it, or found it gone; it asked no other.
THEOREM ChainsAreCompensated == ChainSpec => []FailureIsCompensated
<1>1. ChainInv => FailureIsCompensated
  BY DEF ChainInv
<1> QED BY ChainBegins, ChainStep, <1>1, PTL DEF ChainSpec

-----------------------------------------------------------------------------
\* Balance: an operation that no other overlaps leaves wallet and ledger in step.
LEMMA Least ==
  ASSUME NEW S \in SUBSET Nat, S # {}
  PROVE  \E x \in S : \A y \in S : x <= y
<1> DEFINE R == OpToRel(<, Nat)
<1>1. IsWellFoundedOn(R, Nat)
  BY NatLessThanWellFounded
<1>2. \A x, y \in Nat : y < x => <<y, x>> \in R
  BY DEF OpToRel
<1> HIDE DEF R
<1>3. PICK x \in S : \A y \in S : ~(<<y, x>> \in R)
  BY <1>1, WFMin
<1>4. \A y \in S : ~(y < x)
  BY <1>2, <1>3
<1> QED BY <1>3, <1>4

\* A running sum.
Sums(g, w, n) == g = [i \in 0 .. n |-> IF i = 0 THEN 0 ELSE g[i - 1] + w[i]]

LEMMA SumsExist ==
  ASSUME NEW w, NEW n \in Nat
  PROVE  \E g : Sums(g, w, n)
<1> PICK B : B = {m \in Nat : ~\E g : Sums(g, w, m)}
  OBVIOUS
<1>1. SUFFICES ASSUME B # {}
               PROVE  FALSE
  OBVIOUS
<1>2. PICK m \in B : \A k \in B : m <= k
  BY <1>1, Least
<1>3. CASE m = 0
  <2>1. PICK g : g = [i \in 0 .. 0 |-> 0]
    OBVIOUS
  <2>2. Sums(g, w, 0)
    BY <2>1 DEF Sums
  <2> QED BY <1>3, <2>2
<1>4. CASE m > 0
  <2>1. PICK g : Sums(g, w, m - 1)
    BY <1>2, <1>4
  <2>2. PICK h : h = [i \in 0 .. m |-> IF i = m THEN g[m - 1] + w[m] ELSE g[i]]
    OBVIOUS
  <2>3. Sums(h, w, m)
    BY <1>4, <2>1, <2>2 DEF Sums
  <2> QED BY <2>3
<1> QED BY <1>3, <1>4

LEMMA SumsAgree ==
  ASSUME NEW w, NEW v, NEW n \in Nat, NEW m \in Nat, NEW g, NEW h, Sums(g, w, n), Sums(h, v, m),
         n <= m, \A i \in 1 .. n : w[i] = v[i]
  PROVE  \A i \in 0 .. n : g[i] = h[i]
<1> PICK B : B = {i \in 0 .. n : g[i] # h[i]}
  OBVIOUS
<1>1. SUFFICES ASSUME B # {}
               PROVE  FALSE
  OBVIOUS
<1>2. PICK k \in B : \A i \in B : k <= i
  BY <1>1, Least
<1>3. CASE k = 0
  BY <1>3 DEF Sums
<1>4. CASE k > 0
  <2>1. g[k - 1] = h[k - 1]
    BY <1>2, <1>4
  <2> QED BY <1>4, <2>1 DEF Sums
<1> QED BY <1>3, <1>4

LEMMA SumIs ==
  ASSUME NEW w, NEW n \in Nat
  PROVE  \E g : Sums(g, w, n) /\ SumTo(w, n) = g[n]
<1>1. PICK g : g = CHOOSE f : Sums(f, w, n)
  OBVIOUS
<1>2. Sums(g, w, n)
  BY <1>1, SumsExist
<1>3. SumTo(w, n) = g[n]
  BY <1>1 DEF SumTo, Sums
<1> QED BY <1>2, <1>3

LEMMA SumZero == ASSUME NEW w PROVE SumTo(w, 0) = 0
<1>1. PICK g : Sums(g, w, 0) /\ SumTo(w, 0) = g[0]
  BY SumIs
<1> QED BY <1>1 DEF Sums

\* One more entry.
LEMMA SumGrows ==
  ASSUME NEW w, NEW v, NEW n \in Nat, \A i \in 1 .. n : w[i] = v[i]
  PROVE  SumTo(v, n + 1) = SumTo(w, n) + v[n + 1]
<1>1. PICK g : Sums(g, w, n) /\ SumTo(w, n) = g[n]
  BY SumIs
<1>2. PICK h : Sums(h, v, n + 1) /\ SumTo(v, n + 1) = h[n + 1]
  BY SumIs
<1>3. h[n + 1] = h[n] + v[n + 1]
  BY <1>2 DEF Sums
<1>4. g[n] = h[n]
  <2>1. n + 1 \in Nat /\ n <= n + 1 /\ n \in 0 .. n
    OBVIOUS
  <2>2. \A i \in 0 .. n : g[i] = h[i]
    BY <1>1, <1>2, <2>1, SumsAgree
  <2> QED BY <2>1, <2>2
<1> QED BY <1>1, <1>2, <1>3, <1>4

LEMMA SumInt ==
  ASSUME NEW w, NEW n \in Nat, \A i \in 1 .. n : w[i] \in Int
  PROVE  SumTo(w, n) \in Int
<1>1. PICK g : Sums(g, w, n) /\ SumTo(w, n) = g[n]
  BY SumIs
<1> PICK B : B = {i \in 0 .. n : g[i] \notin Int}
  OBVIOUS
<1>2. B = {}
  <2>1. SUFFICES ASSUME B # {}
                 PROVE  FALSE
    OBVIOUS
  <2>2. PICK k \in B : \A i \in B : k <= i
    BY <2>1, Least
  <2>3. CASE k = 0
    BY <1>1, <2>3 DEF Sums
  <2>4. CASE k > 0
    <3>1. g[k - 1] \in Int
      BY <2>2, <2>4
    <3> QED BY <1>1, <2>4, <3>1 DEF Sums
  <2> QED BY <2>3, <2>4
<1> QED BY <1>1, <1>2

Kinds == {"cashback", "consumption", "expire", "hold", "release", "adjust", "topup"}
LedgerEntries == [ref : Kinds \X Nat, amt : Int]
Wallets == [bal : Int, hold : Nat]
TopUps == {"none", "pending", "completed", "failed", "cancelled"}
Serving ==
    [pc : {"check_hold", "read_hold", "write_hold", "scan", "funds", "insert", "read_wallet",
           "write_wallet", "new_wallet"},
     entry : LedgerEntries, hold : Int, doc : Nat, wallet : Wallets, to : {"none"}]
Deciding == [pc : {"credit", "store"}, to : {"completed", "failed", "cancelled"}]
CallRecords == {Idle} \cup Serving \cup Deciding

BalanceTypeOK ==
    /\ ledger \in Seq(LedgerEntries) /\ wallets \in Seq(Wallets)
    /\ topup \in TopUps
    /\ call \in [Callers -> CallRecords]
    /\ calls \in Nat /\ disturbed \in BOOLEAN

\* The amount of an entry, where the service wrote it.
Counted(e) == IF ByService(e) THEN e.amt ELSE 0

LEMMA WrittenNone == Written(<< >>) = 0
<1>1. Len(<< >>) = 0
  OBVIOUS
<1> QED BY <1>1, SumZero DEF Written

LEMMA WrittenGrows ==
  ASSUME NEW L \in Seq(LedgerEntries), NEW e \in LedgerEntries
  PROVE  /\ Written(L) \in Int
         /\ Written(Append(L, e)) = Written(L) + Counted(e)
<1>1. PICK n : n = Len(L)
  OBVIOUS
<1>2. PICK M : M = Append(L, e)
  OBVIOUS
<1>3. PICK w : w = [i \in 1 .. Len(L) |-> Counted(L[i])]
  OBVIOUS
<1>4. PICK v : v = [i \in 1 .. Len(M) |-> Counted(M[i])]
  OBVIOUS
<1>5. n \in Nat /\ Len(M) = n + 1 /\ M[n + 1] = e /\ \A i \in 1 .. n : M[i] = L[i] /\ L[i] \in LedgerEntries
  BY <1>1, <1>2
<1>6. Written(L) = SumTo(w, n) /\ Written(M) = SumTo(v, n + 1)
  BY <1>1, <1>3, <1>4, <1>5 DEF Written, Counted
<1>7. /\ \A i \in 1 .. n : w[i] = Counted(L[i])
      /\ \A i \in 1 .. n + 1 : v[i] = Counted(M[i])
  BY <1>1, <1>3, <1>4, <1>5
<1>8. \A i \in 1 .. n : w[i] = v[i]
  BY <1>5, <1>7
<1>9. v[n + 1] = Counted(e)
  BY <1>5, <1>7
<1>10. \A c \in LedgerEntries : Counted(c) \in Int
  BY DEF Counted, LedgerEntries
<1>11. Written(L) \in Int
  BY <1>5, <1>6, <1>7, <1>10, SumInt
<1>12. SumTo(v, n + 1) = SumTo(w, n) + v[n + 1]
  BY <1>5, <1>8, SumGrows
<1> QED BY <1>2, <1>6, <1>9, <1>11, <1>12

Credited == \E i \in DOMAIN ledger : ledger[i].ref[1] = "topup"
Fresh(e) == \A i \in DOMAIN ledger : ledger[i].ref # e.ref
Owing == {"read_wallet", "write_wallet", "new_wallet"}

\* What the calls of one top-up leave true, however they overlap.
CreditInv ==
    /\ topup = "completed" => Credited
    /\ \A c \in Callers : /\ call[c].pc = "store" /\ call[c].to = "completed" => Credited
                          /\ call[c].pc = "credit" => call[c].to = "completed"

LedgerOK ==
    /\ \A i, j \in DOMAIN ledger : ledger[i].ref = ledger[j].ref => i = j
    /\ \A i \in DOMAIN ledger : ledger[i].ref[1] = "adjust" => ledger[i].ref[2] < i

\* What call r relies on while it is the only one.
CallOK(r) ==
    /\ IF r.pc \in Owing THEN WalletBalance + r.entry.amt = Written(ledger)
       ELSE WalletBalance = Written(ledger)
    /\ r \in Serving => ByService(r.entry)
    /\ r.pc \in {"read_hold", "write_hold"} => Available >= r.hold
    /\ r.pc \in {"funds", "insert"} => Fresh(r.entry)
    /\ r.pc \in {"insert"} \cup Owing /\ r.entry.amt < 0 => Available + r.entry.amt >= 0
    /\ r.pc \in {"write_hold", "write_wallet"} =>
         wallets # << >> /\ r.doc = Len(wallets) /\ r.wallet = Last(wallets)
    /\ r.pc = "new_wallet" => wallets = << >>
    /\ r.pc = "credit" => ~Credited
    /\ Credited => \/ topup \in {"completed", "failed", "cancelled"}
                   \/ r.pc = "store" /\ r.to = "completed"

Solo(c) == \A d \in Callers \ {c} : AtRest(d)
OneAtATime ==
    \/ (\A c \in Callers : AtRest(c)) /\ CallOK(Idle)
    \/ \E c \in Callers : Solo(c) /\ CallOK(call[c])

BalanceInv ==
    /\ BalanceTypeOK /\ CreditInv
    /\ ~disturbed => LedgerOK /\ Available >= 0 /\ OneAtATime

LEMMA Records ==
  /\ Idle \in CallRecords /\ Idle.pc = "idle" /\ Idle \notin Serving /\ Idle \notin Deciding
  /\ \A r \in Serving : r.pc \notin {"idle", "credit", "store"} /\ r # Idle /\ r \notin Deciding
  /\ \A r \in Deciding : r.pc \in {"credit", "store"} /\ r # Idle /\ r \notin Serving
<1>1. Idle.pc = "idle" /\ Idle \in CallRecords
  BY DEF Idle, CallRecords
<1>2. ASSUME NEW r \in Serving
      PROVE  r.pc \notin {"idle", "credit", "store"}
  BY DEF Serving
<1>3. ASSUME NEW r \in Deciding
      PROVE  r.pc \in {"credit", "store"}
  BY DEF Deciding
<1> QED BY <1>1, <1>2, <1>3

LEMMA Amounts ==
  ASSUME BalanceTypeOK
  PROVE  /\ WalletBalance \in Int /\ Available \in Int /\ Written(ledger) \in Int
         /\ wallets # << >> => /\ Len(wallets) \in 1 .. Len(wallets) /\ Last(wallets) \in Wallets
                               /\ Last(wallets) = wallets[Len(wallets)]
                               /\ WalletBalance = Last(wallets).bal
                               /\ Available = WalletBalance - Last(wallets).hold
         /\ wallets = << >> => WalletBalance = 0 /\ Available = 0
<1>1. Written(ledger) \in Int
  <2>1. \E e : e \in LedgerEntries
    <3>1. [ref |-> <<"hold", 0>>, amt |-> 0] \in LedgerEntries
      BY DEF LedgerEntries, Kinds
    <3> QED BY <3>1
  <2> QED BY <2>1, WrittenGrows DEF BalanceTypeOK
<1>2. ASSUME wallets # << >>
      PROVE  Len(wallets) \in 1 .. Len(wallets) /\ Last(wallets) \in Wallets /\ Last(wallets) = wallets[Len(wallets)]
  BY <1>2 DEF BalanceTypeOK, Last
<1>3. \A w \in Wallets : w.bal \in Int /\ w.hold \in Nat
  BY DEF Wallets
<1> QED BY <1>1, <1>2, <1>3 DEF WalletBalance, Available

LEMMA SoleCall ==
  ASSUME BalanceInv, ~disturbed, NEW c \in Callers
  PROVE  /\ ~AtRest(c) => Solo(c) /\ CallOK(call[c])
         /\ AtRest(c) /\ Solo(c) => CallOK(Idle)
BY DEF BalanceInv, OneAtATime, Solo, AtRest

LEMMA CallSteps ==
  ASSUME BalanceInv, NEW c \in Callers, NEW r \in CallRecords, call' = [call EXCEPT ![c] = r],
         ~disturbed' => ~disturbed /\ Solo(c),
         ledger' \in Seq(LedgerEntries), wallets' \in Seq(Wallets), topup' \in TopUps,
         calls' \in Nat, disturbed' \in BOOLEAN,
         Credited => Credited', topup' = "completed" => Credited',
         r.pc = "store" /\ r.to = "completed" => Credited', r.pc = "credit" => r.to = "completed",
         ~disturbed' => LedgerOK' /\ Available' >= 0 /\ CallOK(r)'
  PROVE  BalanceInv'
<1>1. call' \in [Callers -> CallRecords] /\ call'[c] = r /\ \A d \in Callers \ {c} : call'[d] = call[d]
  BY DEF BalanceInv, BalanceTypeOK
<1>2. BalanceTypeOK'
  BY <1>1 DEF BalanceTypeOK
<1>3. CreditInv'
  BY <1>1 DEF BalanceInv, CreditInv
<1>4. ASSUME ~disturbed'
      PROVE  OneAtATime'
  <2>1. \A d \in Callers \ {c} : AtRest(d)'
    BY <1>1, <1>4 DEF Solo, AtRest
  <2>2. PICK q : q = call'[c] /\ CallOK(q)'
    BY <1>1, <1>4
  <2> QED BY <2>1, <2>2 DEF OneAtATime, Solo
<1> QED BY <1>2, <1>3, <1>4 DEF BalanceInv

\* Documents and top-up stay.
LEMMA CallMoves ==
  ASSUME BalanceInv, NEW c \in Callers, ~AtRest(c), NEW r \in CallRecords, call' = [call EXCEPT ![c] = r],
         UNCHANGED <<ledger, wallets, topup, disturbed, calls>>,
         r.pc = "store" /\ r.to = "completed" => Credited, r.pc = "credit" => r.to = "completed",
         ~disturbed /\ CallOK(call[c]) => CallOK(r)
  PROVE  BalanceInv'
<1>1. ~disturbed' => ~disturbed /\ Solo(c) /\ CallOK(r)
  BY SoleCall
<1>2. Available' = Available /\ (Credited' <=> Credited) /\ (LedgerOK' <=> LedgerOK)
  BY DEF Available, Credited, LedgerOK
<1>3. CallOK(r)' <=> CallOK(r)
  BY <1>2 DEF CallOK, WalletBalance, Fresh
<1>4. /\ ledger' \in Seq(LedgerEntries) /\ wallets' \in Seq(Wallets) /\ topup' \in TopUps
      /\ calls' \in Nat /\ disturbed' \in BOOLEAN
  BY DEF BalanceInv, BalanceTypeOK
<1>5. topup' = "completed" => Credited'
  BY <1>2 DEF BalanceInv, CreditInv
<1>6. ~disturbed' => LedgerOK' /\ Available' >= 0
  BY <1>2 DEF BalanceInv
<1> QED BY <1>1, <1>2, <1>3, <1>4, <1>5, <1>6, CallSteps

ServingPcs == {"check_hold", "read_hold", "write_hold", "scan", "funds", "insert", "read_wallet",
               "write_wallet", "new_wallet"}

LEMMA Advanced ==
  ASSUME NEW q \in Serving, NEW p \in ServingPcs, NEW r, r = [q EXCEPT !.pc = p]
  PROVE  /\ r \in Serving /\ r.pc = p
         /\ r.entry = q.entry /\ r.hold = q.hold /\ r.doc = q.doc /\ r.wallet = q.wallet
BY DEF Serving, ServingPcs

LEMMA ServingFields ==
  ASSUME NEW q \in Serving
  PROVE  /\ q.pc \in ServingPcs /\ q.entry \in LedgerEntries /\ q.hold \in Int /\ q.doc \in Nat
         /\ q.wallet \in Wallets /\ q.entry.amt \in Int
BY DEF Serving, ServingPcs, LedgerEntries

\* A call at one of the service's points is one of its records.
LEMMA CallIs ==
  ASSUME BalanceInv, NEW c \in Callers
  PROVE  /\ call[c].pc \in ServingPcs => call[c] \in Serving
         /\ call[c].pc \in {"credit", "store"} => call[c] \in Deciding
         /\ call[c].pc # "idle" => ~AtRest(c)
         /\ AtRest(c) => call[c] = Idle
BY Records DEF BalanceInv, BalanceTypeOK, CallRecords, ServingPcs, AtRest

LEMMA ResolvedTop ==
  ASSUME BalanceInv, ~disturbed, NEW c \in Callers, CallOK(call[c]), call[c] \in Serving \cup {Idle}
  PROVE  Credited => topup \in {"completed", "failed", "cancelled"}
BY Records DEF CallOK

LEMMA WalletIs == \A b \in Int, n \in Nat : Wallet(b, n) \in Wallets /\ Wallet(b, n).bal = b /\ Wallet(b, n).hold = n
  BY DEF Wallet, Wallets

LEMMA EntryIs ==
  ASSUME NEW k \in Kinds, NEW n \in Nat, NEW a \in Int
  PROVE  /\ Entry(<<k, n>>, a) \in LedgerEntries /\ Entry(<<k, n>>, a).ref = <<k, n>>
         /\ Entry(<<k, n>>, a).amt = a
         /\ k \notin {"adjust", "topup"} => ByService(Entry(<<k, n>>, a))
<1>1. <<k, n>> \in Kinds \X Nat /\ <<k, n>>[1] = k
  OBVIOUS
<1> QED BY <1>1 DEF Entry, LedgerEntries, ByService

LEMMA WalletPut ==
  ASSUME NEW s \in Seq(Wallets), NEW d \in Nat, NEW w \in Wallets, NEW t, t = [s EXCEPT ![d] = w]
  PROVE  t \in Seq(Wallets)
<1>1. CASE d \in 1 .. Len(s)
  BY <1>1
<1>2. CASE d \notin 1 .. Len(s)
  <2>1. DOMAIN s = 1 .. Len(s)
    OBVIOUS
  <2>2. s = [i \in DOMAIN s |-> s[i]]
    OBVIOUS
  <2>3. t = s
    BY <1>2, <2>1, <2>2
  <2> QED BY <2>3
<1> QED BY <1>1, <1>2

LEMMA BeginKeeps ==
  ASSUME BalanceInv, NEW c \in Callers, NEW p \in {"scan", "check_hold", "read_hold"},
         NEW e \in LedgerEntries, ByService(e), NEW a \in Int, Begin(c, p, e, a),
         p = "read_hold" => a <= 0
  PROVE  BalanceInv'
<1>1. PICK r : r = [pc |-> p, entry |-> e, hold |-> a, doc |-> 0, wallet |-> Wallet(0, 0), to |-> "none"]
  OBVIOUS
<1>2. Wallet(0, 0) \in Wallets
  BY WalletIs
<1>3. r \in Serving /\ r.pc = p /\ r.entry = e /\ r.hold = a
  BY <1>1, <1>2 DEF Serving
<1>4. call' = [call EXCEPT ![c] = r] /\ UNCHANGED <<ledger, wallets, topup>> /\ calls' \in Nat
  <2>1. call' = [call EXCEPT ![c] = r] /\ UNCHANGED <<ledger, wallets, topup>> /\ calls' = calls + 1
    BY <1>1 DEF Begin
  <2> QED BY <2>1 DEF BalanceInv, BalanceTypeOK
<1>5. AtRest(c) /\ disturbed' = (disturbed \/ ~Solo(c))
  BY DEF Begin, AtRest, Solo
<1>6. disturbed' \in BOOLEAN /\ (~disturbed' => ~disturbed /\ Solo(c))
  BY <1>5 DEF BalanceInv, BalanceTypeOK
<1>7. /\ ledger' \in Seq(LedgerEntries) /\ wallets' \in Seq(Wallets) /\ topup' \in TopUps
      /\ Available' = Available /\ (Credited' <=> Credited) /\ (LedgerOK' <=> LedgerOK)
  BY <1>4 DEF Available, Credited, LedgerOK, BalanceInv, BalanceTypeOK
<1>8. CallOK(r)' <=> CallOK(r)
  BY <1>4, <1>7 DEF CallOK, WalletBalance, Fresh
<1>9. ASSUME ~disturbed'
      PROVE  CallOK(r)
  <2>1. CallOK(Idle)
    BY <1>5, <1>6, <1>9, SoleCall
  <2>2. WalletBalance = Written(ledger) /\ (Credited => topup \in {"completed", "failed", "cancelled"})
    BY <2>1, Records DEF CallOK, Owing
  <2>3. Available \in Int /\ Available >= 0
    BY <1>6, <1>9, Amounts DEF BalanceInv
  <2>4. r.pc \in {"scan", "check_hold", "read_hold"} /\ (r.pc = "read_hold" => r.hold <= 0)
    BY <1>3
  <2>5. ByService(r.entry)
    BY <1>3
  <2> QED BY <1>3, <2>2, <2>3, <2>4, <2>5 DEF CallOK, Owing
<1>10. topup' = "completed" => Credited'
  BY <1>4, <1>7 DEF BalanceInv, CreditInv
<1>11. ~disturbed' => LedgerOK' /\ Available' >= 0
  BY <1>6, <1>7 DEF BalanceInv
<1>12. r \in CallRecords /\ r.pc \notin {"store", "credit"}
  BY <1>3 DEF CallRecords
<1> QED BY <1>4, <1>6, <1>7, <1>8, <1>9, <1>10, <1>11, <1>12, CallSteps

LEMMA BeginStep ==
  ASSUME BalanceInv, NEW c \in Callers,
         OnInvoicePaid(c) \/ HandleCreateCharge(c) \/ ExpireBonus(c) \/ Hold(c) \/ ReleaseHold(c)
  PROVE  BalanceInv'
<1>1. Cashback \in Nat /\ Charge \in Nat
  BY BalanceAssumption
<1>2. CASE OnInvoicePaid(c)
  <2>1. Begin(c, "scan", Entry(<<"cashback", 0>>, Cashback), 0)
    BY <1>2 DEF OnInvoicePaid
  <2> QED BY <1>1, <2>1, EntryIs, BeginKeeps DEF Kinds
<1>3. CASE HandleCreateCharge(c)
  <2>1. Begin(c, "scan", Entry(<<"consumption", 0>>, -Charge), 0)
    BY <1>3 DEF HandleCreateCharge
  <2> QED BY <1>1, <2>1, EntryIs, BeginKeeps DEF Kinds
<1>4. CASE ExpireBonus(c)
  <2>1. PICK i \in DOMAIN ledger : Begin(c, "scan", Entry(<<"expire", i>>, -ledger[i].amt), 0)
    BY <1>4 DEF ExpireBonus
  <2>2. i \in Nat /\ -ledger[i].amt \in Int
    <3>1. i \in Nat /\ ledger[i] \in LedgerEntries
      BY DEF BalanceInv, BalanceTypeOK
    <3> QED BY <3>1 DEF LedgerEntries
  <2> QED BY <2>1, <2>2, EntryIs, BeginKeeps DEF Kinds
<1>5. CASE Hold(c)
  <2>1. Begin(c, "check_hold", Entry(<<"hold", 0>>, -Charge), Charge)
    BY <1>5 DEF Hold
  <2> QED BY <1>1, <2>1, EntryIs, BeginKeeps DEF Kinds
<1>6. CASE ReleaseHold(c)
  <2>1. Begin(c, "read_hold", Entry(<<"release", 0>>, Charge), -Charge)
    BY <1>6 DEF ReleaseHold
  <2> QED BY <1>1, <2>1, EntryIs, BeginKeeps DEF Kinds
<1> QED BY <1>2, <1>3, <1>4, <1>5, <1>6

\* A call of the service goes on to point p, or returns.
LEMMA GoesOn ==
  ASSUME BalanceInv, NEW c \in Callers, NEW q \in Serving, q = call[c], NEW p \in ServingPcs, Goto(c, p),
         UNCHANGED <<ledger, wallets, topup, disturbed>>,
         \A r \in Serving : /\ ~disturbed /\ CallOK(q) /\ r.pc = p /\ r.entry = q.entry /\ r.hold = q.hold
                            /\ r.doc = q.doc /\ r.wallet = q.wallet
                            => CallOK(r)
  PROVE  BalanceInv'
<1>1. PICK r : r = [q EXCEPT !.pc = p]
  OBVIOUS
<1>2. /\ r \in Serving /\ r.pc = p
      /\ r.entry = q.entry /\ r.hold = q.hold /\ r.doc = q.doc /\ r.wallet = q.wallet
  BY <1>1, Advanced
<1>3. call' = [call EXCEPT ![c] = r] /\ UNCHANGED calls
  BY <1>1 DEF Goto
<1>4. ~AtRest(c) /\ r \in CallRecords /\ r.pc \notin {"store", "credit"}
  BY <1>2, Records DEF AtRest, CallRecords
<1>5. ~disturbed /\ CallOK(call[c]) => CallOK(r)
  BY <1>2
<1> QED BY <1>3, <1>4, <1>5, CallMoves

LEMMA Returns ==
  ASSUME BalanceInv, NEW c \in Callers, NEW q \in Serving, q = call[c], Return(c),
         UNCHANGED <<ledger, wallets, topup, disturbed>>, q.pc \notin Owing
  PROVE  BalanceInv'
<1>1. call' = [call EXCEPT ![c] = Idle] /\ UNCHANGED calls
  BY DEF Return
<1>2. ~AtRest(c) /\ Idle \in CallRecords /\ Idle.pc \notin {"store", "credit"}
  BY Records DEF AtRest
<1>3. q.pc # "store"
  BY Records
<1>4. ~disturbed /\ CallOK(call[c]) => CallOK(Idle)
  BY <1>3, Records DEF CallOK, Owing
<1> QED BY <1>1, <1>2, <1>4, CallMoves

LEMMA CheckStep ==
  ASSUME BalanceInv, NEW c \in Callers, CheckHold(c) \/ Scan(c) \/ CheckFunds(c)
  PROVE  BalanceInv'
<1>1. PICK q : q = call[c]
  OBVIOUS
<1>2. /\ q \in Serving /\ q.pc \in {"check_hold", "scan", "funds"}
      /\ UNCHANGED <<ledger, wallets, topup, disturbed>>
  BY <1>1, CallIs DEF CheckHold, Scan, CheckFunds, ServingPcs
<1>3. CASE Return(c)
  BY <1>1, <1>2, <1>3, Returns DEF Owing
<1>4. /\ q.hold \in Int /\ q.entry.amt \in Int /\ Available \in Int /\ (~disturbed => Available >= 0)
  BY <1>2, ServingFields, Amounts DEF BalanceInv
<1>5. CASE q.pc = "check_hold" /\ ~(Available < q.hold) /\ Goto(c, "read_hold")
  <2>1. \A r \in Serving : CallOK(q) /\ r.pc = "read_hold" /\ r.entry = q.entry /\ r.hold = q.hold => CallOK(r)
    BY <1>2, <1>4, <1>5 DEF CallOK, Owing
  <2> QED BY <1>1, <1>2, <1>5, <2>1, GoesOn DEF ServingPcs
<1>6. CASE q.pc = "scan" /\ ~(\E i \in DOMAIN ledger : ledger[i].ref = q.entry.ref) /\ Goto(c, "funds")
  <2>1. \A r \in Serving : CallOK(q) /\ r.pc = "funds" /\ r.entry = q.entry => CallOK(r)
    BY <1>2, <1>6 DEF CallOK, Owing, Fresh
  <2> QED BY <1>1, <1>2, <1>6, <2>1, GoesOn DEF ServingPcs
<1>7. CASE q.pc = "funds" /\ ~(q.entry.amt < 0 /\ Available + q.entry.amt < 0) /\ Goto(c, "insert")
  <2>1. \A r \in Serving : CallOK(q) /\ r.pc = "insert" /\ r.entry = q.entry => CallOK(r)
    BY <1>2, <1>4, <1>7 DEF CallOK, Owing
  <2> QED BY <1>1, <1>2, <1>7, <2>1, GoesOn DEF ServingPcs
<1> QED BY <1>1, <1>3, <1>5, <1>6, <1>7 DEF CheckHold, Scan, CheckFunds

LEMMA ReadStep ==
  ASSUME BalanceInv, NEW c \in Callers, ReadWallet(c)
  PROVE  BalanceInv'
<1>1. PICK q : q = call[c]
  OBVIOUS
<1>2. /\ q \in Serving /\ q.pc \in {"read_hold", "read_wallet"}
      /\ UNCHANGED <<ledger, wallets, topup, disturbed>>
  BY <1>1, CallIs DEF ReadWallet, ServingPcs
<1>3. CASE wallets = << >> /\ q.pc = "read_hold" /\ Return(c)
  BY <1>1, <1>2, <1>3, Returns DEF Owing
<1>4. CASE wallets = << >> /\ q.pc = "read_wallet" /\ Goto(c, "new_wallet")
  <2>1. \A r \in Serving : CallOK(q) /\ r.pc = "new_wallet" /\ r.entry = q.entry => CallOK(r)
    BY <1>2, <1>4 DEF CallOK, Owing
  <2> QED BY <1>1, <1>2, <1>4, <2>1, GoesOn DEF ServingPcs
<1>5. CASE /\ wallets # << >>
           /\ call' = [call EXCEPT ![c].doc = Len(wallets), ![c].wallet = Last(wallets),
                ![c].pc = IF @ = "read_hold" THEN "write_hold" ELSE "write_wallet"]
           /\ UNCHANGED calls
  <2>1. PICK p : p = IF q.pc = "read_hold" THEN "write_hold" ELSE "write_wallet"
    OBVIOUS
  <2>2. PICK r : r = [q EXCEPT !.doc = Len(wallets), !.wallet = Last(wallets), !.pc = p]
    OBVIOUS
  <2>3. Len(wallets) \in Nat /\ Last(wallets) \in Wallets
    BY <1>5, Amounts DEF BalanceInv
  <2>4. /\ r \in Serving /\ r.pc = p /\ r.entry = q.entry /\ r.hold = q.hold
        /\ r.doc = Len(wallets) /\ r.wallet = Last(wallets)
    BY <1>2, <2>1, <2>2, <2>3 DEF Serving
  <2>5. call' = [call EXCEPT ![c] = r]
    BY <1>1, <1>5, <2>1, <2>2
  <2>6. CallOK(q) => CallOK(r)
    BY <1>2, <1>5, <2>1, <2>4 DEF CallOK, Owing
  <2>7. ~AtRest(c) /\ r \in CallRecords /\ r.pc \notin {"store", "credit"}
    BY <1>1, <1>2, <2>1, <2>4, Records DEF AtRest, CallRecords
  <2> QED BY <1>1, <1>2, <1>5, <2>5, <2>6, <2>7, CallMoves
<1> QED BY <1>1, <1>3, <1>4, <1>5 DEF ReadWallet

LEMMA HoldStep ==
  ASSUME BalanceInv, NEW c \in Callers, UpdateWalletHold(c)
  PROVE  BalanceInv'
<1>1. PICK q : q = call[c]
  OBVIOUS
<1>2. q \in Serving /\ q.pc = "write_hold" /\ UNCHANGED <<ledger, topup, disturbed, calls>>
  BY <1>1, CallIs DEF UpdateWalletHold, ServingPcs, Goto
<1>3. PICK r : r = [q EXCEPT !.pc = "scan"]
  OBVIOUS
<1>4. r \in Serving /\ r.pc = "scan" /\ r.entry = q.entry
  BY <1>2, <1>3, Advanced DEF ServingPcs
<1>5. call' = [call EXCEPT ![c] = r]
  BY <1>1, <1>3 DEF UpdateWalletHold, Goto
<1>6. PICK n : n = IF q.wallet.hold + q.hold < 0 THEN 0 ELSE q.wallet.hold + q.hold
  OBVIOUS
<1>7. q.hold \in Int /\ q.doc \in Nat /\ q.wallet.bal \in Int /\ q.wallet.hold \in Nat /\ n \in Nat
  BY <1>2, <1>6, ServingFields DEF Wallets
<1>8. PICK w : w = Wallet(q.wallet.bal, n)
  OBVIOUS
<1>9. w \in Wallets /\ w.bal = q.wallet.bal /\ w.hold = n
  BY <1>7, <1>8, WalletIs
<1>10. wallets' = [wallets EXCEPT ![q.doc] = w]
  BY <1>1, <1>6, <1>8 DEF UpdateWalletHold
<1>11. wallets' \in Seq(Wallets)
  <2>1. wallets \in Seq(Wallets)
    BY DEF BalanceInv, BalanceTypeOK
  <2> QED BY <1>7, <1>9, <1>10, <2>1, WalletPut
<1>12. Credited' <=> Credited
  BY <1>2 DEF Credited
<1>13. ASSUME ~disturbed'
       PROVE  Solo(c) /\ LedgerOK' /\ Available' >= 0 /\ CallOK(r)'
  <2>1. Solo(c) /\ CallOK(q) /\ LedgerOK /\ ~AtRest(c)
    BY <1>1, <1>2, <1>13, SoleCall, Records DEF BalanceInv, AtRest
  <2>2. LedgerOK'
    BY <1>2, <2>1 DEF LedgerOK
  <2>3. wallets # << >> /\ q.doc = Len(wallets) /\ q.wallet = Last(wallets) /\ Available >= q.hold
    BY <1>2, <2>1 DEF CallOK
  <2>4. /\ WalletBalance = q.wallet.bal /\ Available = q.wallet.bal - q.wallet.hold /\ Available \in Int
        /\ Available >= 0 /\ q.doc \in 1 .. Len(wallets)
    BY <1>2, <1>13, <2>3, Amounts DEF BalanceInv
  <2>5. wallets' # << >> /\ Len(wallets') = Len(wallets) /\ wallets'[Len(wallets')] = w
    BY <1>9, <1>10, <2>3, <2>4 DEF BalanceInv, BalanceTypeOK
  <2>6. WalletBalance' = q.wallet.bal /\ Available' = q.wallet.bal - n
    BY <1>9, <2>5 DEF WalletBalance, Available, Last
  <2>7. Available' >= 0
    BY <1>6, <1>7, <2>3, <2>4, <2>6
  <2>8. WalletBalance = Written(ledger) /\ (Credited => topup \in {"completed", "failed", "cancelled"})
    BY <1>2, <2>1 DEF CallOK, Owing
  <2>9. WalletBalance' = Written(ledger') /\ (Credited' => topup' \in {"completed", "failed", "cancelled"})
    BY <1>2, <1>12, <2>4, <2>6, <2>8
  <2>10. ByService(r.entry)
    BY <1>2, <1>4, <2>1 DEF CallOK
  <2>11. CallOK(r)'
    BY <1>4, <2>9, <2>10 DEF CallOK, Owing
  <2> QED BY <2>1, <2>2, <2>7, <2>11
<1>14. /\ ledger' \in Seq(LedgerEntries) /\ topup' \in TopUps /\ calls' \in Nat /\ disturbed' \in BOOLEAN
       /\ (topup' = "completed" => Credited') /\ r \in CallRecords /\ r.pc \notin {"store", "credit"}
  BY <1>2, <1>4, <1>12 DEF BalanceInv, BalanceTypeOK, CreditInv, CallRecords
<1>15. ~disturbed' => ~disturbed
  BY <1>2
<1> QED BY <1>5, <1>11, <1>12, <1>13, <1>14, <1>15, CallSteps

\* What a new entry does to the ledger.
LEMMA Appended ==
  ASSUME BalanceTypeOK, NEW e \in LedgerEntries, ledger' = Append(ledger, e)
  PROVE  /\ ledger' \in Seq(LedgerEntries) /\ Len(ledger') = Len(ledger) + 1 /\ ledger'[Len(ledger) + 1] = e
         /\ \A i \in DOMAIN ledger : i \in DOMAIN ledger' /\ ledger'[i] = ledger[i]
         /\ DOMAIN ledger' = DOMAIN ledger \cup {Len(ledger) + 1}
         /\ Len(ledger) + 1 \notin DOMAIN ledger /\ Len(ledger) \in Nat
         /\ Written(ledger)' = Written(ledger) + Counted(e)
         /\ Credited' <=> Credited \/ e.ref[1] = "topup"
<1>1. ledger \in Seq(LedgerEntries)
  BY DEF BalanceTypeOK
<1>2. /\ ledger' \in Seq(LedgerEntries) /\ Len(ledger') = Len(ledger) + 1 /\ ledger'[Len(ledger) + 1] = e
      /\ \A i \in DOMAIN ledger : i \in DOMAIN ledger' /\ ledger'[i] = ledger[i]
      /\ DOMAIN ledger' = DOMAIN ledger \cup {Len(ledger) + 1}
      /\ Len(ledger) + 1 \notin DOMAIN ledger /\ Len(ledger) \in Nat
  BY <1>1
<1>3. Written(ledger') = Written(ledger) + Counted(e)
  BY <1>1, WrittenGrows
<1>4. Credited' <=> Credited \/ e.ref[1] = "topup"
  BY <1>2 DEF Credited
<1> QED BY <1>2, <1>3, <1>4

LEMMA InsertStep ==
  ASSUME BalanceInv, NEW c \in Callers, InsertEntry(c)
  PROVE  BalanceInv'
<1>1. PICK q : q = call[c]
  OBVIOUS
<1>2. q \in Serving /\ q.pc = "insert" /\ UNCHANGED <<wallets, topup, disturbed, calls>>
  BY <1>1, CallIs DEF InsertEntry, ServingPcs, Goto
<1>3. PICK r : r = [q EXCEPT !.pc = "read_wallet"]
  OBVIOUS
<1>4. r \in Serving /\ r.pc = "read_wallet" /\ r.entry = q.entry
  BY <1>2, <1>3, Advanced DEF ServingPcs
<1>5. call' = [call EXCEPT ![c] = r] /\ ledger' = Append(ledger, q.entry)
  BY <1>1, <1>3 DEF InsertEntry, Goto
<1>6. PICK e \in LedgerEntries : e = q.entry
  BY <1>2, ServingFields
<1>7. /\ ledger' \in Seq(LedgerEntries) /\ Len(ledger') = Len(ledger) + 1 /\ ledger'[Len(ledger) + 1] = e
      /\ \A i \in DOMAIN ledger : i \in DOMAIN ledger' /\ ledger'[i] = ledger[i]
      /\ DOMAIN ledger' = DOMAIN ledger \cup {Len(ledger) + 1}
      /\ Len(ledger) + 1 \notin DOMAIN ledger /\ Len(ledger) \in Nat
      /\ Written(ledger)' = Written(ledger) + Counted(e)
      /\ Credited' <=> Credited \/ e.ref[1] = "topup"
  BY <1>5, <1>6, Appended DEF BalanceInv
<1>8. ASSUME ~disturbed'
      PROVE  Solo(c) /\ LedgerOK' /\ Available' >= 0 /\ CallOK(r)'
  <2>1. Solo(c) /\ CallOK(q) /\ LedgerOK /\ Available >= 0
    BY <1>1, <1>2, <1>8, SoleCall, Records DEF BalanceInv, AtRest
  <2>2. /\ ByService(e) /\ Fresh(e) /\ (e.amt < 0 => Available + e.amt >= 0) /\ WalletBalance = Written(ledger)
        /\ (Credited => topup \in {"completed", "failed", "cancelled"})
    BY <1>2, <1>6, <2>1 DEF CallOK, Owing
  <2>3. e.ref[1] \notin {"adjust", "topup"} /\ Counted(e) = e.amt
    BY <2>2 DEF ByService, Counted
  <2>4. LedgerOK'
    BY <1>7, <2>1, <2>2, <2>3 DEF LedgerOK, Fresh
  <2>5. Available' = Available /\ WalletBalance' = WalletBalance
    BY <1>2 DEF Available, WalletBalance
  <2>6. CallOK(r)'
    BY <1>2, <1>4, <1>6, <1>7, <2>2, <2>3, <2>5 DEF CallOK, Owing
  <2> QED BY <2>1, <2>4, <2>5, <2>6
<1>9. /\ wallets' \in Seq(Wallets) /\ topup' \in TopUps /\ calls' \in Nat /\ disturbed' \in BOOLEAN
      /\ (topup' = "completed" => Credited') /\ r \in CallRecords /\ r.pc \notin {"store", "credit"}
  BY <1>2, <1>4, <1>7 DEF BalanceInv, BalanceTypeOK, CreditInv, CallRecords
<1>10. (~disturbed' => ~disturbed) /\ (Credited => Credited')
  BY <1>2, <1>7
<1> QED BY <1>5, <1>7, <1>8, <1>9, <1>10, CallSteps

LEMMA UpdateStep ==
  ASSUME BalanceInv, NEW c \in Callers, UpdateWalletBalance(c)
  PROVE  BalanceInv'
<1>1. PICK q : q = call[c]
  OBVIOUS
<1>2. /\ q \in Serving /\ q.pc \in {"write_wallet", "new_wallet"} /\ UNCHANGED <<ledger, topup, disturbed, calls>>
      /\ call' = [call EXCEPT ![c] = Idle]
  BY <1>1, CallIs DEF UpdateWalletBalance, ServingPcs, Return
<1>3. PICK amt : amt = q.entry.amt
  OBVIOUS
<1>4. amt \in Int /\ q.doc \in Nat /\ q.wallet.bal \in Int /\ q.wallet.hold \in Nat
  BY <1>2, <1>3, ServingFields DEF Wallets
<1>5. PICK w : w = IF q.pc = "new_wallet" THEN Wallet(amt, 0) ELSE Wallet(q.wallet.bal + amt, q.wallet.hold)
  OBVIOUS
<1>6. /\ w \in Wallets /\ w.bal = IF q.pc = "new_wallet" THEN amt ELSE q.wallet.bal + amt
      /\ w.hold = IF q.pc = "new_wallet" THEN 0 ELSE q.wallet.hold
  BY <1>4, <1>5, WalletIs
<1>7. wallets' = IF q.pc = "new_wallet" THEN Append(wallets, w) ELSE [wallets EXCEPT ![q.doc] = w]
  BY <1>1, <1>3, <1>5 DEF UpdateWalletBalance
<1>8. wallets' \in Seq(Wallets)
  <2>1. wallets \in Seq(Wallets)
    BY DEF BalanceInv, BalanceTypeOK
  <2>2. CASE q.pc = "new_wallet"
    BY <1>6, <1>7, <2>1, <2>2
  <2>3. CASE q.pc # "new_wallet"
    <3>1. wallets' = [wallets EXCEPT ![q.doc] = w]
      BY <1>7, <2>3
    <3> QED BY <1>4, <1>6, <2>1, <3>1, WalletPut
  <2> QED BY <2>2, <2>3
<1>9. Credited' <=> Credited
  BY <1>2 DEF Credited
<1>10. ASSUME ~disturbed'
       PROVE  Solo(c) /\ LedgerOK' /\ Available' >= 0 /\ CallOK(Idle)'
  <2>1. Solo(c) /\ CallOK(q) /\ LedgerOK /\ Available >= 0 /\ Available \in Int /\ Written(ledger) \in Int
    BY <1>1, <1>2, <1>10, SoleCall, Records, Amounts DEF BalanceInv, AtRest
  <2>2. LedgerOK'
    BY <1>2, <2>1 DEF LedgerOK
  <2>3. /\ WalletBalance + amt = Written(ledger) /\ (amt < 0 => Available + amt >= 0)
        /\ (Credited => topup \in {"completed", "failed", "cancelled"})
        /\ q.pc = "write_wallet" => wallets # << >> /\ q.doc = Len(wallets) /\ q.wallet = Last(wallets)
        /\ q.pc = "new_wallet" => wallets = << >>
    BY <1>2, <1>3, <2>1 DEF CallOK, Owing
  <2>4. WalletBalance' = w.bal /\ Available' = w.bal - w.hold
    <3>1. CASE q.pc = "new_wallet"
      <4>1. wallets' = <<w>>
        BY <1>7, <2>3, <3>1
      <4> QED BY <4>1 DEF WalletBalance, Available, Last
    <3>2. CASE q.pc = "write_wallet"
      <4>1. q.doc \in 1 .. Len(wallets)
        BY <2>3, <3>2, Amounts DEF BalanceInv
      <4>2. wallets' # << >> /\ Len(wallets') = Len(wallets) /\ wallets'[Len(wallets')] = w
        BY <1>6, <1>7, <2>3, <3>2, <4>1 DEF BalanceInv, BalanceTypeOK
      <4> QED BY <4>2 DEF WalletBalance, Available, Last
    <3> QED BY <1>2, <3>1, <3>2
  <2>5. w.bal = WalletBalance + amt /\ w.bal - w.hold = Available + amt
    <3>1. CASE q.pc = "new_wallet"
      BY <1>4, <1>6, <2>3, <3>1, Amounts DEF BalanceInv
    <3>2. CASE q.pc = "write_wallet"
      <4>1. WalletBalance = q.wallet.bal /\ Available = q.wallet.bal - q.wallet.hold
        BY <2>3, <3>2, Amounts DEF BalanceInv
      <4> QED BY <1>4, <1>6, <3>2, <4>1
    <3> QED BY <1>2, <3>1, <3>2
  <2>6. Available' >= 0 /\ WalletBalance' = Written(ledger')
    BY <1>2, <1>4, <2>1, <2>3, <2>4, <2>5
  <2>7. CallOK(Idle)'
    BY <1>2, <1>9, <2>3, <2>6, Records DEF CallOK, Owing
  <2> QED BY <2>1, <2>2, <2>6, <2>7
<1>11. /\ ledger' \in Seq(LedgerEntries) /\ topup' \in TopUps /\ calls' \in Nat /\ disturbed' \in BOOLEAN
       /\ (topup' = "completed" => Credited') /\ Idle \in CallRecords /\ Idle.pc \notin {"store", "credit"}
  BY <1>2, <1>9, Records DEF BalanceInv, BalanceTypeOK, CreditInv
<1>12. ~disturbed' => ~disturbed
  BY <1>2
<1> QED BY <1>2, <1>8, <1>9, <1>10, <1>11, <1>12, CallSteps

LEMMA AdjustStep ==
  ASSUME BalanceInv, AdminAdjust
  PROVE  BalanceInv'
<1>1. PICK e : e = Entry(<<"adjust", Len(ledger)>>, 1)
  OBVIOUS
<1>2. Len(ledger) \in Nat /\ "adjust" \in Kinds
  BY DEF BalanceInv, BalanceTypeOK, Kinds
<1>3. e \in LedgerEntries /\ e.ref = <<"adjust", Len(ledger)>> /\ Counted(e) = 0
  BY <1>1, <1>2, EntryIs DEF Counted, ByService
<1>4. ledger' = Append(ledger, e) /\ UNCHANGED <<wallets, topup, call, calls, disturbed>>
  BY <1>1 DEF AdminAdjust
<1>5. /\ ledger' \in Seq(LedgerEntries) /\ Len(ledger') = Len(ledger) + 1 /\ ledger'[Len(ledger) + 1] = e
      /\ \A i \in DOMAIN ledger : i \in DOMAIN ledger' /\ ledger'[i] = ledger[i]
      /\ DOMAIN ledger' = DOMAIN ledger \cup {Len(ledger) + 1}
      /\ Len(ledger) + 1 \notin DOMAIN ledger /\ Len(ledger) \in Nat
      /\ Written(ledger)' = Written(ledger) + Counted(e)
      /\ Credited' <=> Credited \/ e.ref[1] = "topup"
  BY <1>3, <1>4, Appended DEF BalanceInv
<1>6. Written(ledger') = Written(ledger) /\ (Credited' <=> Credited)
  BY <1>3, <1>5, Amounts DEF BalanceInv
<1>7. BalanceTypeOK' /\ CreditInv'
  BY <1>4, <1>5, <1>6 DEF BalanceInv, BalanceTypeOK, CreditInv
<1>8. ASSUME ~disturbed
      PROVE  LedgerOK' /\ Available' >= 0 /\ OneAtATime'
  <2>1. \A i \in DOMAIN ledger : ledger[i].ref # e.ref
    <3>1. SUFFICES ASSUME NEW i \in DOMAIN ledger, ledger[i].ref = e.ref
                   PROVE  FALSE
      OBVIOUS
    <3>2. ledger[i].ref[1] = "adjust" /\ ledger[i].ref[2] = Len(ledger)
      BY <1>3, <3>1
    <3>3. i \in Nat /\ i > Len(ledger)
      BY <1>2, <1>8, <3>2 DEF BalanceInv, LedgerOK, BalanceTypeOK
    <3> QED BY <3>3 DEF BalanceInv, BalanceTypeOK
  <2>2. LedgerOK'
    <3>1. \A i, j \in DOMAIN ledger' : ledger'[i].ref = ledger'[j].ref => i = j
      BY <1>5, <1>8, <2>1 DEF BalanceInv, LedgerOK
    <3>2. \A i \in DOMAIN ledger' : ledger'[i].ref[1] = "adjust" => ledger'[i].ref[2] < i
      BY <1>3, <1>5, <1>8 DEF BalanceInv, LedgerOK
    <3> QED BY <3>1, <3>2 DEF LedgerOK
  <2>3. WalletBalance' = WalletBalance /\ Available' = Available
    BY <1>4 DEF WalletBalance, Available
  <2>4. ASSUME NEW r \in CallRecords, CallOK(r)
        PROVE  CallOK(r)'
    <3>1. r.pc \in {"funds", "insert"} => r \in Serving
      BY Records DEF CallRecords
    <3>2. r \in Serving => r.entry.ref # e.ref
      <4>1. r \in Serving => r.entry.ref[1] # "adjust"
        BY <2>4 DEF CallOK, ByService
      <4> QED BY <1>3, <4>1
    <3>3. Fresh(r.entry) /\ r.entry.ref # e.ref => Fresh(r.entry)'
      BY <1>5 DEF Fresh
    <3> QED BY <1>4, <1>6, <2>3, <2>4, <3>1, <3>2, <3>3 DEF CallOK
  <2>5. OneAtATime'
    <3>1. CASE (\A c \in Callers : AtRest(c)) /\ CallOK(Idle)
      BY <1>4, <2>4, <3>1, Records DEF OneAtATime, AtRest
    <3>2. CASE \E c \in Callers : Solo(c) /\ CallOK(call[c])
      <4>1. PICK c \in Callers : Solo(c) /\ CallOK(call[c])
        BY <3>2
      <4>2. PICK r \in CallRecords : r = call[c]
        BY DEF BalanceInv, BalanceTypeOK
      <4>3. CallOK(r)' /\ call'[c] = r
        BY <1>4, <2>4, <4>1, <4>2
      <4>4. CallOK(call[c])'
        BY <4>3
      <4> QED BY <1>4, <4>1, <4>4 DEF OneAtATime, Solo, AtRest
    <3> QED BY <1>8, <3>1, <3>2 DEF BalanceInv, OneAtATime
  <2> QED BY <1>8, <2>2, <2>3, <2>5 DEF BalanceInv
<1> QED BY <1>4, <1>7, <1>8 DEF BalanceInv

\* Ledger, wallets and calls stay.
LEMMA SameBooks ==
  ASSUME BalanceInv, UNCHANGED <<ledger, wallets, call, calls, disturbed>>, topup' \in TopUps,
         topup' = "completed" => topup = "completed", topup \notin {"completed", "failed", "cancelled"} \/ topup' = topup
  PROVE  BalanceInv'
<1>1. BalanceTypeOK' /\ (Credited' <=> Credited)
  BY DEF BalanceInv, BalanceTypeOK, Credited
<1>2. CreditInv'
  BY <1>1 DEF BalanceInv, CreditInv
<1>3. WalletBalance' = WalletBalance /\ Available' = Available /\ (LedgerOK' <=> LedgerOK)
  BY DEF WalletBalance, Available, LedgerOK
<1>4. ASSUME NEW r, CallOK(r)
      PROVE  CallOK(r)'
  BY <1>1, <1>3, <1>4 DEF CallOK, Fresh
<1>5. OneAtATime => OneAtATime'
  <2>1. CASE (\A c \in Callers : AtRest(c)) /\ CallOK(Idle)
    BY <1>4, <2>1 DEF OneAtATime, AtRest
  <2>2. CASE \E c \in Callers : Solo(c) /\ CallOK(call[c])
    <3>1. PICK c \in Callers : Solo(c) /\ CallOK(call[c])
      BY <2>2
    <3>2. PICK r : r = call[c]
      OBVIOUS
    <3>3. CallOK(r)' /\ call'[c] = r
      BY <1>4, <3>1, <3>2
    <3>4. CallOK(call[c])'
      BY <3>3
    <3> QED BY <3>1, <3>4 DEF OneAtATime, Solo, AtRest
  <2> QED BY <2>1, <2>2 DEF OneAtATime
<1> QED BY <1>1, <1>2, <1>3, <1>5 DEF BalanceInv

LEMMA LoadStep ==
  ASSUME BalanceInv, NEW c \in Callers, NEW to \in {"completed", "failed", "cancelled"}, LoadTopUp(c, to)
  PROVE  BalanceInv'
<1>1. PICK r : r = [pc |-> IF to = "completed" THEN "credit" ELSE "store", to |-> to]
  OBVIOUS
<1>2. /\ r \in Deciding /\ r.to = to
      /\ (to = "completed" => r.pc = "credit") /\ (to # "completed" => r.pc = "store")
  BY <1>1 DEF Deciding
<1>3. call' = [call EXCEPT ![c] = r] /\ UNCHANGED <<ledger, wallets, topup>> /\ calls' = calls + 1
  BY <1>1 DEF LoadTopUp
<1>4. AtRest(c) /\ disturbed' = (disturbed \/ ~Solo(c)) /\ (to = "completed" => topup \in {"pending", "processing"})
  BY DEF LoadTopUp, AtRest, Solo
<1>5. disturbed' \in BOOLEAN /\ (~disturbed' => ~disturbed /\ Solo(c)) /\ calls' \in Nat
  <2>1. disturbed' \in BOOLEAN /\ (~disturbed' => ~disturbed /\ Solo(c))
    BY <1>4 DEF BalanceInv, BalanceTypeOK
  <2>2. calls' \in Nat
    BY <1>3 DEF BalanceInv, BalanceTypeOK
  <2> QED BY <2>1, <2>2
<1>6. /\ ledger' \in Seq(LedgerEntries) /\ wallets' \in Seq(Wallets) /\ topup' \in TopUps
      /\ Available' = Available /\ (Credited' <=> Credited) /\ (LedgerOK' <=> LedgerOK)
  BY <1>3 DEF Available, Credited, LedgerOK, BalanceInv, BalanceTypeOK
<1>7. CallOK(r)' <=> CallOK(r)
  BY <1>3, <1>6 DEF CallOK, WalletBalance, Fresh
<1>8. ASSUME ~disturbed'
      PROVE  CallOK(r)
  <2>1. CallOK(Idle)
    BY <1>4, <1>5, <1>8, SoleCall
  <2>2. WalletBalance = Written(ledger) /\ (Credited => topup \in {"completed", "failed", "cancelled"})
    BY <2>1, Records DEF CallOK, Owing
  <2>3. r.pc \in {"credit", "store"} /\ r \notin Serving
    BY <1>2, Records
  <2>4. r.pc = "credit" => ~Credited
    BY <1>2, <1>4, <2>2
  <2> QED BY <2>2, <2>3, <2>4 DEF CallOK, Owing
<1>9. topup' = "completed" => Credited'
  BY <1>3, <1>6 DEF BalanceInv, CreditInv
<1>10. ~disturbed' => LedgerOK' /\ Available' >= 0
  BY <1>5, <1>6 DEF BalanceInv
<1>11. r \in CallRecords /\ (r.pc = "store" => r.to # "completed") /\ (r.pc = "credit" => r.to = "completed")
  BY <1>2 DEF CallRecords
<1> QED BY <1>3, <1>5, <1>6, <1>7, <1>8, <1>9, <1>10, <1>11, CallSteps

LEMMA CreditStep ==
  ASSUME BalanceInv, NEW c \in Callers, AdminApproveTopUp(c)
  PROVE  BalanceInv'
<1>1. PICK q : q = call[c]
  OBVIOUS
<1>2. q \in Deciding /\ q.pc = "credit" /\ q.to = "completed" /\ UNCHANGED <<wallets, topup, disturbed, calls>>
  BY <1>1, CallIs DEF AdminApproveTopUp, Goto, BalanceInv, CreditInv
<1>3. PICK r : r = [q EXCEPT !.pc = "store"]
  OBVIOUS
<1>4. r \in Deciding /\ r.pc = "store" /\ r.to = "completed"
  BY <1>2, <1>3 DEF Deciding
<1>5. PICK e : e = Entry(<<"topup", 0>>, Cashback)
  OBVIOUS
<1>6. e \in LedgerEntries /\ e.ref = <<"topup", 0>> /\ Counted(e) = 0
  BY <1>5, EntryIs, BalanceAssumption DEF Counted, ByService, Kinds
<1>7. call' = [call EXCEPT ![c] = r] /\ ledger' = Append(ledger, e)
  BY <1>1, <1>3, <1>5 DEF AdminApproveTopUp, Goto
<1>8. /\ ledger' \in Seq(LedgerEntries) /\ Len(ledger') = Len(ledger) + 1 /\ ledger'[Len(ledger) + 1] = e
      /\ \A i \in DOMAIN ledger : i \in DOMAIN ledger' /\ ledger'[i] = ledger[i]
      /\ DOMAIN ledger' = DOMAIN ledger \cup {Len(ledger) + 1}
      /\ Len(ledger) + 1 \notin DOMAIN ledger /\ Len(ledger) \in Nat
      /\ Written(ledger)' = Written(ledger) + Counted(e)
      /\ Credited' <=> Credited \/ e.ref[1] = "topup"
  BY <1>6, <1>7, Appended DEF BalanceInv
<1>9. Credited'
  BY <1>6, <1>8
<1>10. ASSUME ~disturbed'
       PROVE  Solo(c) /\ LedgerOK' /\ Available' >= 0 /\ CallOK(r)'
  <2>1. Solo(c) /\ CallOK(q) /\ LedgerOK /\ Available >= 0
    BY <1>1, <1>2, <1>10, SoleCall, Records DEF BalanceInv, AtRest
  <2>2. ~Credited /\ WalletBalance = Written(ledger)
    BY <1>2, <2>1 DEF CallOK, Owing
  <2>3. \A i \in DOMAIN ledger : ledger[i].ref # e.ref
    BY <1>6, <2>2 DEF Credited
  <2>4. LedgerOK'
    <3>1. \A i, j \in DOMAIN ledger' : ledger'[i].ref = ledger'[j].ref => i = j
      BY <1>8, <2>1, <2>3 DEF LedgerOK
    <3>2. \A i \in DOMAIN ledger' : ledger'[i].ref[1] = "adjust" => ledger'[i].ref[2] < i
      BY <1>6, <1>8, <2>1 DEF LedgerOK
    <3> QED BY <3>1, <3>2 DEF LedgerOK
  <2>5. Available' = Available /\ WalletBalance' = WalletBalance
    BY <1>2 DEF Available, WalletBalance
  <2>6. WalletBalance' = Written(ledger')
    BY <1>6, <1>8, <2>2, <2>5, Amounts DEF BalanceInv
  <2>7. CallOK(r)'
    BY <1>4, <2>6, Records DEF CallOK, Owing
  <2> QED BY <2>1, <2>4, <2>5, <2>7
<1>11. /\ wallets' \in Seq(Wallets) /\ topup' \in TopUps /\ calls' \in Nat /\ disturbed' \in BOOLEAN
       /\ r \in CallRecords /\ r.pc # "credit"
  BY <1>2, <1>4 DEF BalanceInv, BalanceTypeOK, CallRecords
<1>12. ~disturbed' => ~disturbed
  BY <1>2
<1> QED BY <1>7, <1>8, <1>9, <1>10, <1>11, <1>12, CallSteps

LEMMA StoreTopUpStep ==
  ASSUME BalanceInv, NEW c \in Callers, StoreTopUp(c)
  PROVE  BalanceInv'
<1>1. PICK q : q = call[c]
  OBVIOUS
<1>2. /\ q \in Deciding /\ q.pc = "store" /\ topup' = q.to /\ UNCHANGED <<ledger, wallets, disturbed, calls>>
      /\ call' = [call EXCEPT ![c] = Idle]
  BY <1>1, CallIs DEF StoreTopUp, Return
<1>3. q.to \in {"completed", "failed", "cancelled"}
  BY <1>2 DEF Deciding
<1>4. Credited' <=> Credited
  BY <1>2 DEF Credited
<1>5. topup' = "completed" => Credited
  BY <1>1, <1>2 DEF BalanceInv, CreditInv
<1>6. ASSUME ~disturbed'
      PROVE  Solo(c) /\ LedgerOK' /\ Available' >= 0 /\ CallOK(Idle)'
  <2>1. Solo(c) /\ CallOK(q) /\ LedgerOK /\ Available >= 0
    BY <1>1, <1>2, <1>6, SoleCall, Records DEF BalanceInv, AtRest
  <2>2. LedgerOK'
    BY <1>2, <2>1 DEF LedgerOK
  <2>3. Available' = Available /\ WalletBalance' = WalletBalance /\ WalletBalance = Written(ledger)
    BY <1>2, <2>1 DEF Available, WalletBalance, CallOK, Owing
  <2>4. CallOK(Idle)'
    BY <1>2, <1>3, <2>3, Records DEF CallOK, Owing
  <2> QED BY <2>1, <2>2, <2>3, <2>4
<1>7. /\ ledger' \in Seq(LedgerEntries) /\ wallets' \in Seq(Wallets) /\ topup' \in TopUps /\ calls' \in Nat
      /\ disturbed' \in BOOLEAN /\ Idle \in CallRecords /\ Idle.pc \notin {"store", "credit"}
  BY <1>2, <1>3, Records DEF BalanceInv, BalanceTypeOK, TopUps
<1>8. ~disturbed' => ~disturbed
  BY <1>2
<1> QED BY <1>2, <1>4, <1>5, <1>6, <1>7, <1>8, CallSteps

LEMMA DieStep ==
  ASSUME BalanceInv, NEW c \in Callers, CallDies(c)
  PROVE  BalanceInv'
<1>1. call' = [call EXCEPT ![c] = Idle] /\ disturbed' = TRUE /\ UNCHANGED <<ledger, wallets, topup, calls>>
  BY DEF CallDies, Return
<1>2. Credited' <=> Credited
  BY <1>1 DEF Credited
<1>3. /\ ledger' \in Seq(LedgerEntries) /\ wallets' \in Seq(Wallets) /\ topup' \in TopUps /\ calls' \in Nat
      /\ disturbed' \in BOOLEAN /\ Idle \in CallRecords /\ Idle.pc \notin {"store", "credit"} /\ disturbed'
      /\ topup' = "completed" => Credited'
  BY <1>1, <1>2, Records DEF BalanceInv, BalanceTypeOK, CreditInv
<1> QED BY <1>1, <1>2, <1>3, CallSteps

LEMMA BalanceStep ==
  ASSUME BalanceInv, [BalanceNext]_balanceVars
  PROVE  BalanceInv'
<1>1. CASE \E c \in Callers : ServiceStep(c) \/ AdminStep(c) \/ CallDies(c)
  <2>1. PICK c \in Callers : ServiceStep(c) \/ AdminStep(c) \/ CallDies(c)
    BY <1>1
  <2>2. CASE OnInvoicePaid(c) \/ HandleCreateCharge(c) \/ ExpireBonus(c) \/ Hold(c) \/ ReleaseHold(c)
    BY <2>2, BeginStep
  <2>3. CASE CheckHold(c) \/ Scan(c) \/ CheckFunds(c)
    BY <2>3, CheckStep
  <2>4. CASE ReadWallet(c) \/ UpdateWalletHold(c)
    BY <2>4, ReadStep, HoldStep
  <2>5. CASE InsertEntry(c) \/ UpdateWalletBalance(c)
    BY <2>5, InsertStep, UpdateStep
  <2>6. CASE AdminStep(c)
    BY <2>6, LoadStep, CreditStep, StoreTopUpStep DEF AdminStep
  <2>7. CASE CallDies(c)
    BY <2>7, DieStep
  <2> QED BY <2>1, <2>2, <2>3, <2>4, <2>5, <2>6, <2>7 DEF ServiceStep
<1>2. CASE AdminAdjust
  BY <1>2, AdjustStep
<1>3. CASE CreateTopUp
  BY <1>3, SameBooks DEF CreateTopUp, TopUps
<1>4. CASE UNCHANGED balanceVars
  BY <1>4, SameBooks DEF balanceVars, BalanceInv, BalanceTypeOK
<1> QED BY <1>1, <1>2, <1>3, <1>4 DEF BalanceNext

LEMMA BalanceBegins ==
  ASSUME BalanceInit
  PROVE  BalanceInv
<1>1. ledger = << >> /\ wallets = << >> /\ topup = "none" /\ call = [c \in Callers |-> Idle] /\ calls = 0 /\ ~disturbed
  BY DEF BalanceInit
<1>2. ledger \in Seq(LedgerEntries) /\ wallets \in Seq(Wallets) /\ disturbed \in BOOLEAN /\ DOMAIN ledger = {}
  <2>1. << >> \in Seq(LedgerEntries) /\ << >> \in Seq(Wallets) /\ DOMAIN << >> = {}
    OBVIOUS
  <2>2. disturbed \in BOOLEAN
    BY DEF BalanceInit
  <2> QED BY <1>1, <2>1, <2>2
<1>3. BalanceTypeOK
  BY <1>1, <1>2, Records DEF BalanceTypeOK, TopUps
<1>4. \A c \in Callers : call[c] = Idle
  BY <1>1
<1>5. ~Credited /\ LedgerOK
  BY <1>2 DEF Credited, LedgerOK
<1>6. CreditInv
  BY <1>1, <1>4, Records DEF CreditInv
<1>7. WalletBalance = 0 /\ Available = 0 /\ Written(ledger) = 0
  BY <1>1, WrittenNone DEF WalletBalance, Available
<1>8. CallOK(Idle)
  BY <1>5, <1>7, Records DEF CallOK, Owing
<1> QED BY <1>3, <1>4, <1>5, <1>6, <1>7, <1>8 DEF BalanceInv, OneAtATime, AtRest

\* balance/service.go, CreateEntry: with calls that follow one another the wallet shows the
\* sum of what the service wrote to the ledger, for any number of entries, callers and
\* amounts; no more is taken than there is; a retried operation leaves one entry; and a
\* completed top-up has been credited, whatever overlaps or dies.
THEOREM WalletFollowsLedger == BalanceSpec => []WalletMatchesLedger
<1>1. BalanceInit => BalanceInv
  BY BalanceBegins
<1>2. BalanceInv /\ [BalanceNext]_balanceVars => BalanceInv'
  BY BalanceStep
<1>3. BalanceInv => WalletMatchesLedger
  <2> SUFFICES ASSUME BalanceInv
               PROVE  WalletMatchesLedger
    OBVIOUS
  <2>1. topup = "completed" => \E i \in DOMAIN ledger : ledger[i].ref[1] = "topup"
    BY DEF BalanceInv, CreditInv, Credited
  <2>2. ~disturbed => /\ Available >= 0
                      /\ \A i, j \in DOMAIN ledger : ledger[i].ref = ledger[j].ref => i = j
    BY DEF BalanceInv, LedgerOK
  <2>3. ASSUME Quiet
        PROVE  WalletBalance = Written(ledger)
    <3>1. ~disturbed /\ \A c \in Callers : call[c] = Idle
      BY <2>3 DEF Quiet, AtRest
    <3>2. CallOK(Idle)
      BY <3>1 DEF BalanceInv, OneAtATime
    <3> QED BY <3>2, Records DEF CallOK, Owing
  <2> QED BY <2>1, <2>2, <2>3 DEF WalletMatchesLedger
<1> QED BY <1>1, <1>2, <1>3, PTL DEF BalanceSpec

-----------------------------------------------------------------------------
(* The Telegram bots and what they do with an update (TelegramBots).         *)
\* A bot's configuration: it has a token, and the secret generated for that.
RowKept(row, secrets) ==
  row = NoBotRow \/ (row.token # "none" /\ row.secret \in 1 .. Len(secrets) /\ secrets[row.secret] = row.token)

\* Two bots' configurations have different tokens.
Distinct(rows) ==
  \A s \in BotShops : \A o \in BotShops \ {s} :
    rows[s] # NoBotRow /\ rows[o] # NoBotRow => rows[s].token # rows[o].token

Formed(w) == w = [pc |-> w.pc, s |-> w.s, token |-> w.token, secret |-> w.secret, slug |-> w.slug, on |-> w.on]

SettingKept(w, secrets) ==
  \/ w = NotSetting
  \/ Formed(w) /\ w.pc = "read" /\ w.s \in BotShops
  \/ /\ Formed(w) /\ w.pc = "write" /\ w.s \in BotShops
     /\ w.token # "none" /\ w.secret \in 1 .. Len(secrets) /\ secrets[w.secret] = w.token

ConfigInv ==
  /\ secretOf \in Seq(BotTokens)
  /\ DOMAIN botRow = BotShops /\ DOMAIN setter = BotSetters
  /\ \A s \in BotShops : RowKept(botRow[s], secretOf)
  /\ \A g \in BotSetters : SettingKept(setter[g], secretOf)
  /\ Distinct(botRow)

ManagerInv ==
  /\ manager \in {"listed", "loaded"} => Distinct(botListing)
  /\ Distinct(liveBot)
  /\ manager \in {"down", "listed"} => \A s \in BotShops : liveBot[s] = NoBotRow
  /\ \A s \in botLoops \cap BotShops : liveBot[s] # NoBotRow

LEMMA ConfigHolds == ASSUME ConfigInv PROVE TokensKept
BY DEF ConfigInv, RowKept, Distinct, TokensKept, Configured

LEMMA ManagerHolds == ASSUME ManagerInv PROVE LoopsApart
BY DEF ManagerInv, Distinct, LoopsApart

LEMMA BotsStart == ASSUME ShopBotInit PROVE ConfigInv /\ ManagerInv
<1>1. ConfigInv
  BY DEF ShopBotInit, ConfigInv, RowKept, SettingKept, Distinct
<1>2. ManagerInv
  BY DEF ShopBotInit, ManagerInv, Distinct
<1> QED BY <1>1, <1>2

\* Another secret leaves what the others were generated for.
LEMMA SecretsGrow ==
  ASSUME NEW secrets \in Seq(BotTokens), NEW t \in BotTokens
  PROVE  /\ Append(secrets, t) \in Seq(BotTokens)
         /\ Len(secrets) + 1 \in 1 .. Len(Append(secrets, t))
         /\ Append(secrets, t)[Len(secrets) + 1] = t
         /\ \A row : RowKept(row, secrets) => RowKept(row, Append(secrets, t))
         /\ \A w : SettingKept(w, secrets) => SettingKept(w, Append(secrets, t))
<1>1. PICK more : more = Append(secrets, t)
  OBVIOUS
<1>2. /\ more \in Seq(BotTokens) /\ Len(more) = Len(secrets) + 1 /\ Len(secrets) \in Nat
      /\ more[Len(secrets) + 1] = t
      /\ \A i \in 1 .. Len(secrets) : more[i] = secrets[i]
  BY <1>1
<1>3. Len(secrets) + 1 \in 1 .. Len(more) /\ \A i \in 1 .. Len(secrets) : i \in 1 .. Len(more)
  BY <1>2
<1>4. ASSUME NEW row, RowKept(row, secrets) PROVE RowKept(row, more)
  BY <1>2, <1>3, <1>4 DEF RowKept
<1>5. ASSUME NEW w, SettingKept(w, secrets) PROVE SettingKept(w, more)
  BY <1>2, <1>3, <1>5 DEF SettingKept
<1> QED BY <1>1, <1>2, <1>3, <1>4, <1>5

LEMMA ConfigSets ==
  ASSUME ConfigInv, NEW g \in BotSetters, NEW s \in BotShops, NEW token \in BotTokens \cup {"none"},
         NEW slug, NEW on, SetShopBot(g, s, token, slug, on)
  PROVE  ConfigInv'
<1>1. PICK w : w = [pc |-> IF token = "none" THEN "read" ELSE "write", s |-> s, token |-> token,
                    secret |-> Len(secretOf) + 1, slug |-> slug, on |-> on]
  OBVIOUS
<1>2. setter' = [setter EXCEPT ![g] = w] /\ botRow' = botRow
      /\ secretOf' = (IF token = "none" THEN secretOf ELSE Append(secretOf, token))
  BY <1>1 DEF SetShopBot
<1>3. Formed(w) /\ w.s = s /\ w.token = token /\ w.secret = Len(secretOf) + 1
      /\ w.pc = (IF token = "none" THEN "read" ELSE "write")
  BY <1>1 DEF Formed
<1>4. PICK secrets : secrets = secretOf'
  OBVIOUS
<1>5. /\ secrets \in Seq(BotTokens) /\ SettingKept(w, secrets)
      /\ \A row : RowKept(row, secretOf) => RowKept(row, secrets)
      /\ \A x : SettingKept(x, secretOf) => SettingKept(x, secrets)
  <2>1. CASE token = "none"
    BY <1>2, <1>3, <1>4, <2>1 DEF ConfigInv, SettingKept
  <2>2. CASE token # "none"
    <3>1. secrets = Append(secretOf, token) /\ token \in BotTokens /\ secretOf \in Seq(BotTokens)
      BY <1>2, <1>4, <2>2 DEF ConfigInv
    <3>2. /\ secrets \in Seq(BotTokens)
          /\ Len(secretOf) + 1 \in 1 .. Len(secrets)
          /\ secrets[Len(secretOf) + 1] = token
          /\ \A row : RowKept(row, secretOf) => RowKept(row, secrets)
          /\ \A x : SettingKept(x, secretOf) => SettingKept(x, secrets)
      BY <3>1, SecretsGrow, Zenon
    <3>3. SettingKept(w, secrets)
      BY <1>3, <2>2, <3>2 DEF SettingKept
    <3> QED BY <3>2, <3>3
  <2> QED BY <2>1, <2>2
<1> QED BY <1>2, <1>4, <1>5 DEF ConfigInv

LEMMA ConfigReads ==
  ASSUME ConfigInv, NEW g \in BotSetters, GetByTenant(g)
  PROVE  ConfigInv'
<1>1. PICK w : w = setter[g]
  OBVIOUS
<1>2. w.pc = "read" /\ botRow' = botRow /\ secretOf' = secretOf
  BY <1>1 DEF GetByTenant
<1>3. Formed(w) /\ w.s \in BotShops
  <2>1. NotSetting.pc = "none"
    BY DEF NotSetting
  <2>2. SettingKept(w, secretOf)
    BY <1>1 DEF ConfigInv
  <2> QED BY <1>2, <2>1, <2>2 DEF SettingKept
<1>4. PICK row : row = botRow[w.s]
  OBVIOUS
<1>5. RowKept(row, secretOf)
  BY <1>3, <1>4 DEF ConfigInv
<1>6. PICK n : /\ setter' = [setter EXCEPT ![g] = n]
               /\ \/ n = NotSetting
                  \/ /\ row # NoBotRow
                     /\ n = [w EXCEPT !.pc = "write", !.token = row.token, !.secret = row.secret]
  <2>1. CASE row = NoBotRow
    BY <1>1, <1>4, <2>1 DEF GetByTenant
  <2>2. CASE row # NoBotRow
    BY <1>1, <1>4, <2>2 DEF GetByTenant
  <2> QED BY <2>1, <2>2
<1>7. SettingKept(n, secretOf)
  <2>1. CASE n = NotSetting
    BY <2>1 DEF SettingKept
  <2>2. CASE /\ row # NoBotRow
             /\ n = [w EXCEPT !.pc = "write", !.token = row.token, !.secret = row.secret]
    <3>1. PICK t, x : t = row.token /\ x = row.secret
      OBVIOUS
    <3>2. PICK a : a = [w EXCEPT !.pc = "write"]
      OBVIOUS
    <3>3. a = [pc |-> "write", s |-> w.s, token |-> w.token, secret |-> w.secret, slug |-> w.slug, on |-> w.on]
      BY <1>3, <3>2 DEF Formed
    <3>4. PICK b : b = [a EXCEPT !.token = t]
      OBVIOUS
    <3>5. b = [pc |-> "write", s |-> w.s, token |-> t, secret |-> w.secret, slug |-> w.slug, on |-> w.on]
      BY <3>3, <3>4
    <3>6. [b EXCEPT !.secret = x]
            = [pc |-> "write", s |-> w.s, token |-> t, secret |-> x, slug |-> w.slug, on |-> w.on]
      BY <3>5
    <3>7. n = [pc |-> "write", s |-> w.s, token |-> t, secret |-> x, slug |-> w.slug, on |-> w.on]
      BY <2>2, <3>1, <3>2, <3>4, <3>6
    <3>8. Formed(n) /\ n.pc = "write" /\ n.s = w.s /\ n.token = t /\ n.secret = x
      BY <3>7 DEF Formed
    <3> QED BY <1>3, <1>5, <2>2, <3>1, <3>8 DEF SettingKept, RowKept
  <2> QED BY <1>6, <2>1, <2>2
<1> QED BY <1>2, <1>6, <1>7 DEF ConfigInv

LEMMA ConfigWrites ==
  ASSUME ConfigInv, NEW g \in BotSetters, Upsert(g)
  PROVE  ConfigInv'
<1>1. PICK w : w = setter[g]
  OBVIOUS
<1>2. w.pc = "write" /\ secretOf' = secretOf /\ setter' = [setter EXCEPT ![g] = NotSetting]
  BY <1>1 DEF Upsert
<1>3. w.s \in BotShops /\ w.token # "none" /\ w.secret \in 1 .. Len(secretOf) /\ secretOf[w.secret] = w.token
  <2>1. NotSetting.pc = "none"
    BY DEF NotSetting
  <2>2. SettingKept(w, secretOf)
    BY <1>1 DEF ConfigInv
  <2> QED BY <1>2, <2>1, <2>2 DEF SettingKept
<1>4. PICK row : row = [token |-> w.token, secret |-> w.secret, slug |-> w.slug, on |-> w.on]
  OBVIOUS
<1>5. RowKept(row, secretOf) /\ row.token = w.token
  BY <1>3, <1>4 DEF RowKept
<1>6. DOMAIN setter' = BotSetters /\ \A h \in BotSetters : SettingKept(setter'[h], secretOf)
  BY <1>2 DEF ConfigInv, SettingKept
<1>7. CASE botRow' = botRow
  BY <1>2, <1>6, <1>7 DEF ConfigInv
<1>8. CASE /\ botRow' = [botRow EXCEPT ![w.s] = row]
           /\ ~\E o \in BotShops \ {w.s} : Configured(o) /\ botRow[o].token = w.token
  <2>1. DOMAIN botRow' = BotShops /\ \A s \in BotShops : RowKept(botRow'[s], secretOf)
    BY <1>3, <1>5, <1>8 DEF ConfigInv
  <2>2. Distinct(botRow)'
    BY <1>3, <1>5, <1>8 DEF ConfigInv, Distinct, Configured
  <2> QED BY <1>2, <1>6, <2>1, <2>2 DEF ConfigInv
<1> QED BY <1>1, <1>4, <1>7, <1>8 DEF Upsert

LEMMA BotsGoOn ==
  ASSUME PlatformBot \notin BotShops, ConfigInv, ManagerInv, ShopBotNext
  PROVE  ConfigInv' /\ ManagerInv'
<1>1. ASSUME NEW g \in BotSetters, NEW s \in BotShops, NEW t \in BotTokens \cup {"none"},
             NEW slug, NEW on, SetShopBot(g, s, t, slug, on)
      PROVE  ConfigInv' /\ ManagerInv'
  BY <1>1, ConfigSets DEF SetShopBot, managerVars, ManagerInv, Distinct
<1>2. ASSUME NEW g \in BotSetters, GetByTenant(g)
      PROVE  ConfigInv' /\ ManagerInv'
  BY <1>2, ConfigReads DEF GetByTenant, managerVars, ManagerInv, Distinct
<1>3. ASSUME NEW g \in BotSetters, Upsert(g)
      PROVE  ConfigInv' /\ ManagerInv'
  BY <1>3, ConfigWrites DEF Upsert, managerVars, ManagerInv, Distinct
<1>4. ASSUME UNCHANGED configVars
      PROVE  ConfigInv'
  BY <1>4 DEF configVars, ConfigInv, Distinct
<1>5. CASE ListEnabledShopBots
  <2>1. /\ manager' = "listed" /\ manager = "down" /\ UNCHANGED <<configVars, liveBot, botLoops>>
        /\ \A s \in BotShops : botListing'[s] \in {botRow[s], NoBotRow}
    BY <1>5 DEF ListEnabledShopBots
  <2>2. Distinct(botListing)'
    BY <2>1 DEF ConfigInv, Distinct
  <2>3. ManagerInv'
    BY <2>1, <2>2 DEF ManagerInv, Distinct
  <2> QED BY <1>4, <2>1, <2>3
<1>6. CASE LoadBots
  <2>1. /\ manager = "listed" /\ manager' = "loaded" /\ UNCHANGED <<configVars, botListing, botLoops>>
        /\ \A s \in BotShops : liveBot'[s] \in {liveBot[s], botListing[s]}
    BY <1>6 DEF LoadBots
  <2>2. /\ \A s \in BotShops : liveBot'[s] \in {NoBotRow, botListing[s]}
        /\ botLoops \cap BotShops = {}
    BY <2>1 DEF ManagerInv
  <2>3. Distinct(liveBot)'
    BY <2>1, <2>2 DEF ManagerInv, Distinct
  <2>4. ManagerInv'
    BY <2>1, <2>2, <2>3 DEF ManagerInv, Distinct
  <2> QED BY <1>4, <2>1, <2>4
<1>7. CASE RunBots
  BY <1>4, <1>7 DEF RunBots, ManagerInv, Distinct
<1>8. CASE Reload
  BY <1>4, <1>8 DEF Reload, ManagerInv, Distinct
<1>9. CASE DisableBotPlugin
  BY <1>4, <1>9 DEF DisableBotPlugin, managerVars, ManagerInv, Distinct
<1> QED BY <1>1, <1>2, <1>3, <1>5, <1>6, <1>7, <1>8, <1>9 DEF ShopBotNext

\* manager.go, shop_bot_repo.go: no two shops' bots hold or poll one token, a token is kept
\* with its own secret, and only a loaded bot polls.
THEOREM BotsStaySafe == ASSUME PlatformBot \notin BotShops PROVE ShopBotSpec => []BotsSafe
<1>1. ShopBotInit => ConfigInv /\ ManagerInv
  BY BotsStart
<1>2. ConfigInv /\ ManagerInv /\ [ShopBotNext]_shopBotVars => ConfigInv' /\ ManagerInv'
  <2> SUFFICES ASSUME ConfigInv, ManagerInv, [ShopBotNext]_shopBotVars
               PROVE  ConfigInv' /\ ManagerInv'
    OBVIOUS
  <2>1. CASE UNCHANGED shopBotVars
    BY <2>1 DEF shopBotVars, configVars, managerVars, ConfigInv, ManagerInv, Distinct
  <2> QED BY <2>1, BotsGoOn
<1>3. ConfigInv /\ ManagerInv => BotsSafe
  BY ConfigHolds, ManagerHolds DEF BotsSafe
<1> QED BY <1>1, <1>2, <1>3, PTL DEF ShopBotSpec

-----------------------------------------------------------------------------
\* What is asked for of a subscription is of one there is.
UpdateFormed(u) ==
  u = [pc |-> u.pc, bot |-> u.bot, kind |-> u.kind, user |-> u.user, wish |-> u.wish,
       account |-> u.account, perms |-> u.perms]

Subscription == [shop : UpdateShops \cup {OwnBot}, owner : UpdateShops \X TgUsers, plan : BotPlans,
                 ended : BOOLEAN, acts : SUBSET ((UpdateShops \cup {OwnBot}) \X (UpdateShops \X TgUsers))]

\* An update that was resolved is by a customer the bot sees; one that may act on a
\* subscription is by its owner.
UpdateSound(u, subs, known) ==
  \/ u = NoUpdate
  \/ /\ UpdateFormed(u) /\ u.pc \in {"register", "resolve", "check", "act"}
     /\ u.bot \in UpdateShops \cup {OwnBot} /\ u.user \in TgUsers
     /\ u.pc = "register" => u.account = <<u.bot, u.user>> /\ u.bot \in UpdateShops
     /\ u.wish.op \in {"buy", "upgrade"} => u.wish.plan \in BotPlans
     /\ u.wish.op \in {"cancel", "upgrade"} => u.wish.sub \in DOMAIN subs
     /\ u.pc \in {"check", "act"} => u.account \in known /\ Sees(u.bot, u.account[1])
     /\ u.pc = "act" /\ u.wish.op \in {"cancel", "upgrade"} =>
          subs[u.wish.sub].owner = u.account /\ Sees(u.bot, subs[u.wish.sub].shop)

UpdateInv ==
  /\ botSubs \in Seq(Subscription) /\ customers \subseteq UpdateShops \X TgUsers
  /\ DOMAIN update = UpdateWorkers
  /\ \A g \in UpdateWorkers : UpdateSound(update[g], botSubs, customers)
  /\ OwnersAct

LEMMA UpdatesStart == ASSUME BotUpdateInit PROVE UpdateInv
<1>0. PICK s \in UpdateShops, u \in TgUsers, p \in BotPlans :
        /\ customers = {<<s, u>>}
        /\ botSubs = <<[shop |-> s, owner |-> <<s, u>>, plan |-> p, ended |-> FALSE, acts |-> {}]>>
  BY DEF BotUpdateInit
<1>1. PICK c, sub :
        /\ c = <<s, u>> /\ customers = {c} /\ botSubs = <<sub>>
        /\ sub = [shop |-> s, owner |-> c, plan |-> p, ended |-> FALSE, acts |-> {}]
  BY <1>0
<1>2. c \in UpdateShops \X TgUsers
  BY <1>1
<1>3. sub \in Subscription
  BY <1>1, <1>2 DEF Subscription
<1>4. botSubs \in Seq(Subscription) /\ DOMAIN botSubs = 1 .. 1 /\ botSubs[1] = sub
  BY <1>1, <1>3
<1>5. OwnersAct
  BY <1>1, <1>4 DEF OwnersAct
<1>6. DOMAIN update = UpdateWorkers /\ \A g \in UpdateWorkers : UpdateSound(update[g], botSubs, customers)
  BY DEF BotUpdateInit, UpdateSound
<1> QED BY <1>1, <1>2, <1>4, <1>5, <1>6 DEF UpdateInv

\* Subscriptions keep their owners and shops, and customers stay customers.
Continues(subs, more, known, now) ==
  /\ DOMAIN subs \subseteq DOMAIN more /\ known \subseteq now
  /\ \A i \in DOMAIN subs : more[i].owner = subs[i].owner /\ more[i].shop = subs[i].shop

LEMMA UpdateStaysSound ==
  ASSUME NEW subs, NEW more, NEW known, NEW now, Continues(subs, more, known, now),
         NEW u, UpdateSound(u, subs, known)
  PROVE  UpdateSound(u, more, now)
<1>1. CASE u = NoUpdate
  BY <1>1 DEF UpdateSound
<1>2. CASE u # NoUpdate
  <2>1. /\ UpdateFormed(u) /\ u.pc \in {"register", "resolve", "check", "act"}
        /\ u.bot \in UpdateShops \cup {OwnBot} /\ u.user \in TgUsers
        /\ u.pc = "register" => u.account = <<u.bot, u.user>> /\ u.bot \in UpdateShops
        /\ u.wish.op \in {"buy", "upgrade"} => u.wish.plan \in BotPlans
    BY <1>2 DEF UpdateSound
  <2>2. /\ u.wish.op \in {"cancel", "upgrade"} => u.wish.sub \in DOMAIN subs
        /\ u.pc \in {"check", "act"} => u.account \in known /\ Sees(u.bot, u.account[1])
        /\ u.pc = "act" /\ u.wish.op \in {"cancel", "upgrade"} =>
             subs[u.wish.sub].owner = u.account /\ Sees(u.bot, subs[u.wish.sub].shop)
    BY <1>2 DEF UpdateSound
  <2>3. /\ u.wish.op \in {"cancel", "upgrade"} => u.wish.sub \in DOMAIN more
        /\ u.pc \in {"check", "act"} => u.account \in now /\ Sees(u.bot, u.account[1])
        /\ u.pc = "act" /\ u.wish.op \in {"cancel", "upgrade"} =>
             more[u.wish.sub].owner = u.account /\ Sees(u.bot, more[u.wish.sub].shop)
    BY <2>2 DEF Continues
  <2> QED BY <2>1, <2>3 DEF UpdateSound
<1> QED BY <1>1, <1>2

\* A step of one update, or of none.
LEMMA UpdatesGoOn ==
  ASSUME UpdateInv, Continues(botSubs, botSubs', customers, customers'),
         botSubs' \in Seq(Subscription), customers' \subseteq UpdateShops \X TgUsers, OwnersAct',
         \/ update' = update
         \/ \E g \in UpdateWorkers : \E u :
              UpdateSound(u, botSubs', customers') /\ update' = [update EXCEPT ![g] = u]
  PROVE  UpdateInv'
<1>1. DOMAIN update = UpdateWorkers /\ \A g \in UpdateWorkers : UpdateSound(update[g], botSubs', customers')
  BY UpdateStaysSound DEF UpdateInv
<1>2. DOMAIN update' = UpdateWorkers /\ \A g \in UpdateWorkers : UpdateSound(update'[g], botSubs', customers')
  <2>1. CASE update' = update
    BY <1>1, <2>1
  <2>2. ASSUME NEW h \in UpdateWorkers, NEW u, UpdateSound(u, botSubs', customers'),
               update' = [update EXCEPT ![h] = u]
        PROVE  DOMAIN update' = UpdateWorkers /\ \A g \in UpdateWorkers : UpdateSound(update'[g], botSubs', customers')
    BY <1>1, <2>2
  <2> QED BY <2>1, <2>2
<1> QED BY <1>2 DEF UpdateInv

\* The same, with the subscriptions as they are.
LEMMA UpdatesGoOnAlone ==
  ASSUME UpdateInv, botSubs' = botSubs, customers \subseteq customers',
         customers' \subseteq UpdateShops \X TgUsers,
         \/ update' = update
         \/ \E g \in UpdateWorkers : \E u :
              UpdateSound(u, botSubs, customers') /\ update' = [update EXCEPT ![g] = u]
  PROVE  UpdateInv'
<1>1. Continues(botSubs, botSubs', customers, customers')
  BY DEF Continues
<1>2. OwnersAct'
  BY DEF UpdateInv, OwnersAct
<1>3. botSubs' \in Seq(Subscription)
  BY DEF UpdateInv
<1> QED BY <1>1, <1>2, <1>3, UpdatesGoOn

\* What is known of an update in the middle of it.
LEMMA UpdateUnderWay ==
  ASSUME UpdateInv, NEW g \in UpdateWorkers, update[g].pc # "none"
  PROVE  /\ update[g] # NoUpdate /\ UpdateSound(update[g], botSubs, customers)
<1>1. NoUpdate.pc = "none"
  BY DEF NoUpdate
<1> QED BY <1>1 DEF UpdateInv

LEMMA UpdateDispatched ==
  ASSUME UpdateInv, NEW g \in UpdateWorkers, NEW s \in UpdateShops \cup {OwnBot}, NEW u \in TgUsers,
         NEW w \in Wishes, DispatchUpdate(g, s, u, w)
  PROVE  UpdateInv'
<1>1. PICK kind, perms, account :
        /\ kind = (IF s = OwnBot THEN "own" ELSE IF slugOf[s] = "wasm" /\ wasmOn THEN "wasm" ELSE "cabinet")
        /\ perms = (IF kind = "wasm" THEN WasmPerms ELSE CabinetPerms) /\ account = <<s, u>>
  OBVIOUS
<1>2. PICK place : place = IF kind = "cabinet" THEN "register" ELSE "resolve"
  OBVIOUS
<1>3. PICK n : n = [pc |-> place, bot |-> s, kind |-> kind, user |-> u, wish |-> w,
                    account |-> account, perms |-> perms]
  OBVIOUS
<1>4. update' = [update EXCEPT ![g] = n] /\ botSubs' = botSubs /\ customers' = customers
  BY <1>1, <1>2, <1>3 DEF DispatchUpdate
<1>5. /\ w.op \in {"buy", "upgrade"} => w.plan \in BotPlans
      /\ w.op \in {"cancel", "upgrade"} => w.sub \in DOMAIN botSubs
  BY DEF Wishes
<1>6. place \in {"register", "resolve"} /\ (place = "register" => s \in UpdateShops)
  BY <1>1, <1>2
<1>7. /\ UpdateFormed(n) /\ n.pc = place /\ n.bot = s /\ n.user = u /\ n.wish = w /\ n.account = <<s, u>>
  BY <1>1, <1>3 DEF UpdateFormed
<1>8. UpdateSound(n, botSubs, customers)
  BY <1>5, <1>6, <1>7 DEF UpdateSound
<1> QED BY <1>4, <1>8, UpdatesGoOnAlone DEF UpdateInv

LEMMA UpdateRegisters ==
  ASSUME UpdateInv, NEW g \in UpdateWorkers, RegisterUser(g)
  PROVE  UpdateInv'
<1>1. PICK u : u = update[g]
  OBVIOUS
<1>2. /\ u.pc = "register" /\ customers' = customers \cup {u.account}
      /\ botSubs' = botSubs
  BY <1>1 DEF RegisterUser
<1>3. UpdateSound(u, botSubs, customers) /\ u # NoUpdate
  BY <1>1, <1>2, UpdateUnderWay
<1>4. u.account \in UpdateShops \X TgUsers /\ UpdateFormed(u)
  BY <1>2, <1>3 DEF UpdateSound
<1>5. PICK n : n = [u EXCEPT !.pc = "resolve"]
  OBVIOUS
<1>6. /\ n = [pc |-> "resolve", bot |-> u.bot, kind |-> u.kind, user |-> u.user, wish |-> u.wish,
              account |-> u.account, perms |-> u.perms]
  BY <1>4, <1>5 DEF UpdateFormed
<1>7. /\ UpdateFormed(n) /\ n.pc = "resolve" /\ n.bot = u.bot /\ n.user = u.user /\ n.wish = u.wish
  BY <1>6 DEF UpdateFormed
<1>8. UpdateSound(n, botSubs, customers')
  BY <1>3, <1>7 DEF UpdateSound
<1>9. update' = [update EXCEPT ![g] = n]
  BY <1>1, <1>5 DEF RegisterUser
<1> QED BY <1>2, <1>4, <1>8, <1>9, UpdatesGoOnAlone DEF UpdateInv

LEMMA UpdateResolves ==
  ASSUME UpdateInv, NEW g \in UpdateWorkers, NEW a, ResolveUser(g, a)
  PROVE  UpdateInv'
<1>1. PICK u : u = update[g]
  OBVIOUS
<1>2. /\ u.pc = "resolve" /\ customers' = customers /\ botSubs' = botSubs
      /\ a \in customers /\ Sees(u.bot, a[1])
  BY <1>1 DEF ResolveUser
<1>3. UpdateSound(u, botSubs, customers) /\ u # NoUpdate
  BY <1>1, <1>2, UpdateUnderWay
<1>4. UpdateFormed(u)
  BY <1>3 DEF UpdateSound
<1>5. PICK m : m = [u EXCEPT !.pc = "check"]
  OBVIOUS
<1>6. m = [pc |-> "check", bot |-> u.bot, kind |-> u.kind, user |-> u.user, wish |-> u.wish,
           account |-> u.account, perms |-> u.perms]
  BY <1>4, <1>5 DEF UpdateFormed
<1>7. PICK n : n = [m EXCEPT !.account = a]
  OBVIOUS
<1>8. n = [pc |-> "check", bot |-> u.bot, kind |-> u.kind, user |-> u.user, wish |-> u.wish,
           account |-> a, perms |-> u.perms]
  BY <1>6, <1>7
<1>9. /\ UpdateFormed(n) /\ n.pc = "check" /\ n.bot = u.bot /\ n.user = u.user /\ n.wish = u.wish
      /\ n.account = a
  BY <1>8 DEF UpdateFormed
<1>10. UpdateSound(n, botSubs, customers)
  BY <1>2, <1>3, <1>9 DEF UpdateSound
<1>11. update' = [update EXCEPT ![g] = n]
  <2>1. DOMAIN update = UpdateWorkers
    BY DEF UpdateInv
  <2>2. update' = [update EXCEPT ![g].pc = "check", ![g].account = a]
    BY DEF ResolveUser
  <2>3. update' = [update EXCEPT ![g] = [[u EXCEPT !.pc = "check"] EXCEPT !.account = a]]
    BY <1>1, <2>1, <2>2
  <2> QED BY <1>5, <1>7, <2>3
<1> QED BY <1>2, <1>10, <1>11, UpdatesGoOnAlone DEF UpdateInv

LEMMA UpdateChecks ==
  ASSUME UpdateInv, NEW g \in UpdateWorkers, CheckWish(g)
  PROVE  UpdateInv'
<1>1. PICK u : u = update[g]
  OBVIOUS
<1>2. /\ u.pc = "check" /\ customers' = customers /\ botSubs' = botSubs
      /\ u.wish.op \in {"cancel", "upgrade"} =>
           Sees(u.bot, botSubs[u.wish.sub].shop) /\ botSubs[u.wish.sub].owner = u.account
  BY <1>1 DEF CheckWish, VerifyOwnership
<1>3. UpdateSound(u, botSubs, customers) /\ u # NoUpdate
  BY <1>1, <1>2, UpdateUnderWay
<1>4. UpdateFormed(u)
  BY <1>3 DEF UpdateSound
<1>5. PICK n : n = [u EXCEPT !.pc = "act"]
  OBVIOUS
<1>6. n = [pc |-> "act", bot |-> u.bot, kind |-> u.kind, user |-> u.user, wish |-> u.wish,
           account |-> u.account, perms |-> u.perms]
  BY <1>4, <1>5 DEF UpdateFormed
<1>7. /\ UpdateFormed(n) /\ n.pc = "act" /\ n.bot = u.bot /\ n.user = u.user /\ n.wish = u.wish
      /\ n.account = u.account
  BY <1>6 DEF UpdateFormed
<1>8. UpdateSound(n, botSubs, customers)
  BY <1>2, <1>3, <1>7 DEF UpdateSound
<1>9. update' = [update EXCEPT ![g] = n]
  BY <1>1, <1>5 DEF CheckWish
<1> QED BY <1>2, <1>8, <1>9, UpdatesGoOnAlone DEF UpdateInv

\* What an update that acts may do.
LEMMA UpdateActs ==
  ASSUME UpdateInv, NEW g \in UpdateWorkers, NEW u, u = update[g], u.pc = "act"
  PROVE  /\ u.bot \in UpdateShops \cup {OwnBot} /\ u.account \in customers
         /\ u.account \in UpdateShops \X TgUsers /\ Sees(u.bot, u.account[1])
         /\ u.wish.op \in {"buy", "upgrade"} => u.wish.plan \in BotPlans
         /\ u.wish.op \in {"cancel", "upgrade"} =>
              /\ u.wish.sub \in DOMAIN botSubs
              /\ botSubs[u.wish.sub].owner = u.account /\ Sees(u.bot, botSubs[u.wish.sub].shop)
<1>1. UpdateSound(u, botSubs, customers) /\ u # NoUpdate
  BY UpdateUnderWay
<1> QED BY <1>1 DEF UpdateSound, UpdateInv

LEMMA UpdateBuys ==
  ASSUME UpdateInv, NEW g \in UpdateWorkers, NEW kind, Start(g, kind)
  PROVE  UpdateInv'
<1>1. PICK u : u = update[g]
  OBVIOUS
<1>2. PICK a : a = <<u.bot, u.account>>
  OBVIOUS
<1>3. PICK sub : sub = [shop |-> u.bot, owner |-> u.account, plan |-> u.wish.plan, ended |-> FALSE,
                        acts |-> {a}]
  OBVIOUS
<1>4. /\ u.pc = "act" /\ u.wish.op = "buy" /\ botSubs' = Append(botSubs, sub) /\ customers' = customers
      /\ update' = [update EXCEPT ![g] = NoUpdate]
  BY <1>1, <1>2, <1>3 DEF Start
<1>5. /\ u.bot \in UpdateShops \cup {OwnBot} /\ u.account \in customers
      /\ u.account \in UpdateShops \X TgUsers /\ Sees(u.bot, u.account[1]) /\ u.wish.plan \in BotPlans
  BY <1>1, <1>4, UpdateActs
<1>6. a \in (UpdateShops \cup {OwnBot}) \X (UpdateShops \X TgUsers) /\ a[1] = u.bot /\ a[2] = u.account
  BY <1>2, <1>5
<1>7. sub \in Subscription
  BY <1>3, <1>5, <1>6 DEF Subscription
<1>8. botSubs \in Seq(Subscription) /\ DOMAIN update = UpdateWorkers /\ OwnersAct
      /\ customers \subseteq UpdateShops \X TgUsers
  BY DEF UpdateInv
<1>9. PICK n : n = Len(botSubs) + 1
  OBVIOUS
<1>10. /\ botSubs' \in Seq(Subscription) /\ DOMAIN botSubs' = DOMAIN botSubs \cup {n}
       /\ botSubs'[n] = sub /\ \A i \in DOMAIN botSubs : botSubs'[i] = botSubs[i]
  BY <1>4, <1>7, <1>8, <1>9
<1>11. Continues(botSubs, botSubs', customers, customers')
  BY <1>4, <1>10 DEF Continues
<1>12. OwnersAct'
  <2>1. ASSUME NEW i \in DOMAIN botSubs', NEW b \in botSubs'[i].acts
        PROVE  /\ b[2] = botSubs'[i].owner /\ b[2] \in customers'
               /\ b[1] # OwnBot => b[1] = botSubs'[i].shop /\ b[1] = botSubs'[i].owner[1]
    <3>1. CASE i \in DOMAIN botSubs
      BY <1>4, <1>8, <1>10, <2>1, <3>1 DEF OwnersAct
    <3>2. CASE i = n
      <4>1. b = a /\ botSubs'[i].owner = u.account /\ botSubs'[i].shop = u.bot
        BY <1>3, <1>10, <2>1, <3>2
      <4> QED BY <1>4, <1>5, <1>6, <4>1 DEF Sees
    <3> QED BY <1>10, <2>1, <3>1, <3>2
  <2> QED BY <2>1 DEF OwnersAct
<1>13. UpdateSound(NoUpdate, botSubs', customers')
  BY DEF UpdateSound
<1> QED BY <1>4, <1>8, <1>10, <1>11, <1>12, <1>13, UpdatesGoOn

\* A subscription is changed by its owner; changed is it with all but its acts, and those
\* that made it whose it is, its own.
LEMMA UpdateMutates ==
  ASSUME UpdateInv, NEW g \in UpdateWorkers, NEW kind, NEW act \in {"cancel", "upgrade"}, NEW changed,
         NEW plan, NEW ended \in BOOLEAN, act = "cancel" => plan = botSubs[update[g].wish.sub].plan,
         act = "upgrade" => plan = update[g].wish.plan,
         changed = [shop |-> botSubs[update[g].wish.sub].shop, owner |-> botSubs[update[g].wish.sub].owner,
                    plan |-> plan, ended |-> ended, acts |-> botSubs[update[g].wish.sub].acts],
         Mutate(g, kind, act, changed)
  PROVE  UpdateInv'
<1>1. PICK u : u = update[g]
  OBVIOUS
<1>2. PICK a, x : a = <<u.bot, u.account>> /\ x = u.wish.sub
  OBVIOUS
<1>3. /\ u.pc = "act" /\ u.wish.op = act /\ customers' = customers
      /\ botSubs' = (IF botSubs[x].ended THEN botSubs
                     ELSE [botSubs EXCEPT ![x] = [changed EXCEPT !.acts = @ \cup {a}]])
      /\ update' = [update EXCEPT ![g] = NoUpdate]
  BY <1>1, <1>2 DEF Mutate
<1>4. /\ u.bot \in UpdateShops \cup {OwnBot} /\ u.account \in customers
      /\ u.account \in UpdateShops \X TgUsers /\ Sees(u.bot, u.account[1])
      /\ act = "upgrade" => u.wish.plan \in BotPlans
      /\ x \in DOMAIN botSubs /\ botSubs[x].owner = u.account /\ Sees(u.bot, botSubs[x].shop)
  BY <1>1, <1>2, <1>3, UpdateActs
<1>5. a \in (UpdateShops \cup {OwnBot}) \X (UpdateShops \X TgUsers) /\ a[1] = u.bot /\ a[2] = u.account
  BY <1>2, <1>4
<1>6. botSubs \in Seq(Subscription) /\ DOMAIN update = UpdateWorkers /\ OwnersAct
      /\ customers \subseteq UpdateShops \X TgUsers
  BY DEF UpdateInv
<1>7. PICK sub : sub = [changed EXCEPT !.acts = @ \cup {a}]
  OBVIOUS
<1>8. sub = [shop |-> botSubs[x].shop, owner |-> botSubs[x].owner, plan |-> plan, ended |-> ended,
             acts |-> botSubs[x].acts \cup {a}]
  BY <1>1, <1>2, <1>7
<1>9. botSubs[x] \in Subscription
  BY <1>4, <1>6
<1>10. plan \in BotPlans
  BY <1>1, <1>2, <1>4, <1>9 DEF Subscription
<1>11. sub \in Subscription
  BY <1>5, <1>8, <1>9, <1>10 DEF Subscription
<1>12. UpdateSound(NoUpdate, botSubs', customers')
  BY DEF UpdateSound
<1>13. CASE botSubs' = botSubs
  BY <1>3, <1>6, <1>12, <1>13, UpdatesGoOnAlone
<1>14. CASE botSubs' = [botSubs EXCEPT ![x] = sub]
  <2>1. /\ botSubs' \in Seq(Subscription) /\ DOMAIN botSubs' = DOMAIN botSubs
        /\ botSubs'[x] = sub /\ \A i \in DOMAIN botSubs : i # x => botSubs'[i] = botSubs[i]
    BY <1>4, <1>6, <1>11, <1>14
  <2>2. sub.owner = botSubs[x].owner /\ sub.shop = botSubs[x].shop /\ sub.acts = botSubs[x].acts \cup {a}
    BY <1>8
  <2>3. Continues(botSubs, botSubs', customers, customers')
    BY <1>3, <2>1, <2>2 DEF Continues
  <2>4. OwnersAct'
    <3>1. ASSUME NEW i \in DOMAIN botSubs', NEW b \in botSubs'[i].acts
          PROVE  /\ b[2] = botSubs'[i].owner /\ b[2] \in customers'
                 /\ b[1] # OwnBot => b[1] = botSubs'[i].shop /\ b[1] = botSubs'[i].owner[1]
      <4>1. CASE i # x
        BY <1>3, <1>6, <2>1, <3>1, <4>1 DEF OwnersAct
      <4>2. CASE i = x /\ b \in botSubs[x].acts
        BY <1>3, <1>4, <1>6, <2>1, <2>2, <4>2 DEF OwnersAct
      <4>3. CASE i = x /\ b = a
        <5>1. /\ b[1] = u.bot /\ b[2] = u.account
              /\ botSubs'[i].owner = u.account /\ botSubs'[i].shop = botSubs[x].shop
          BY <1>4, <1>5, <2>1, <2>2, <4>3
        <5>2. /\ u.account \in customers'
              /\ u.bot # OwnBot => u.bot = botSubs[x].shop /\ u.bot = u.account[1]
          BY <1>3, <1>4 DEF Sees
        <5> QED BY <5>1, <5>2, Zenon
      <4> QED BY <2>1, <2>2, <3>1, <4>1, <4>2, <4>3
    <3> QED BY <3>1 DEF OwnersAct
  <2> QED BY <1>3, <1>6, <1>12, <2>1, <2>3, <2>4, UpdatesGoOn
<1> QED BY <1>3, <1>7, <1>13, <1>14

LEMMA UpdateCancels ==
  ASSUME UpdateInv, NEW g \in UpdateWorkers, NEW kind, Mutate(g, kind, "cancel", Ended(g))
  PROVE  UpdateInv'
<1>1. PICK u, sub : u = update[g] /\ sub = botSubs[u.wish.sub]
  OBVIOUS
<1>2. u.pc = "act" /\ u.wish.op = "cancel"
  BY <1>1 DEF Mutate
<1>3. sub \in Subscription
  BY <1>1, <1>2, UpdateActs DEF UpdateInv
<1>4. \A e : [sub EXCEPT !.ended = e]
        = [shop |-> sub.shop, owner |-> sub.owner, plan |-> sub.plan, ended |-> e, acts |-> sub.acts]
  BY <1>3 DEF Subscription
<1>5. Ended(g) = [shop |-> sub.shop, owner |-> sub.owner, plan |-> sub.plan, ended |-> TRUE, acts |-> sub.acts]
  BY <1>1, <1>4, Zenon DEF Ended
<1> QED BY <1>1, <1>5, UpdateMutates

LEMMA UpdateUpgrades ==
  ASSUME UpdateInv, NEW g \in UpdateWorkers, HandleSubscriptionsUpgrade(g)
  PROVE  UpdateInv'
<1>1. PICK u, sub, plan : u = update[g] /\ sub = botSubs[u.wish.sub] /\ plan = u.wish.plan
  OBVIOUS
<1>2. PICK changed : changed = [sub EXCEPT !.plan = plan]
  OBVIOUS
<1>3. Mutate(g, "wasm", "upgrade", changed)
  BY <1>1, <1>2 DEF HandleSubscriptionsUpgrade
<1>4. u.pc = "act" /\ u.wish.op = "upgrade"
  BY <1>1, <1>3 DEF Mutate
<1>5. sub \in Subscription
  BY <1>1, <1>4, UpdateActs DEF UpdateInv
<1>6. PICK ended : ended = sub.ended
  OBVIOUS
<1>7. changed = [shop |-> sub.shop, owner |-> sub.owner, plan |-> plan, ended |-> ended, acts |-> sub.acts]
      /\ ended \in BOOLEAN
  BY <1>2, <1>5, <1>6 DEF Subscription
<1> QED BY <1>1, <1>3, <1>7, UpdateMutates

\* ops_domain.go: only its owner ever acts on a subscription, through its shop's bot or the
\* platform's, whatever else is handled or changed meanwhile.
THEOREM OwnersAlwaysAct == BotUpdateSpec => []OwnersAct
<1>1. BotUpdateInit => UpdateInv
  BY UpdatesStart
<1>2. UpdateInv /\ [BotUpdateNext]_botUpdateVars => UpdateInv'
  <2> SUFFICES ASSUME UpdateInv, [BotUpdateNext]_botUpdateVars PROVE UpdateInv'
    OBVIOUS
  <2>1. ASSUME UNCHANGED <<botSubs, customers, update>> PROVE UpdateInv'
    BY <2>1, UpdatesGoOnAlone DEF UpdateInv
  <2>2. CASE TogglePlugin \/ \E s \in UpdateShops, p \in BotPlans : ChangeOffer(s, p)
    BY <2>1, <2>2 DEF TogglePlugin, ChangeOffer
  <2>3. ASSUME NEW s \in UpdateShops, NEW u \in TgUsers, JoinShop(s, u) PROVE UpdateInv'
    <3>1. PICK c : c = <<s, u>>
      OBVIOUS
    <3>2. c \in UpdateShops \X TgUsers
      BY <3>1
    <3>3. customers' = customers \cup {c} /\ botSubs' = botSubs /\ update' = update
      BY <2>3, <3>1 DEF JoinShop
    <3> QED BY <3>2, <3>3, UpdatesGoOnAlone DEF UpdateInv
  <2>4. ASSUME NEW g \in UpdateWorkers, NEW s \in UpdateShops \cup {OwnBot}, NEW u \in TgUsers, NEW w \in Wishes,
               DispatchUpdate(g, s, u, w)
        PROVE  UpdateInv'
    BY <2>4, UpdateDispatched
  <2>5. ASSUME NEW g \in UpdateWorkers, RegisterUser(g) PROVE UpdateInv'
    BY <2>5, UpdateRegisters
  <2>6. ASSUME NEW g \in UpdateWorkers, NEW a, ResolveUser(g, a) PROVE UpdateInv'
    BY <2>6, UpdateResolves
  <2>7. ASSUME NEW g \in UpdateWorkers, CheckWish(g) PROVE UpdateInv'
    BY <2>7, UpdateChecks
  <2>8. ASSUME NEW g \in UpdateWorkers, NEW kind, Start(g, kind) PROVE UpdateInv'
    BY <2>8, UpdateBuys
  <2>9. ASSUME NEW g \in UpdateWorkers, NEW kind, Mutate(g, kind, "cancel", Ended(g)) PROVE UpdateInv'
    BY <2>9, UpdateCancels
  <2>10. ASSUME NEW g \in UpdateWorkers, HandleSubscriptionsUpgrade(g) PROVE UpdateInv'
    BY <2>10, UpdateUpgrades
  <2>11. ASSUME NEW g \in UpdateWorkers, EndUpdate(g) PROVE UpdateInv'
    <3>1. UpdateSound(NoUpdate, botSubs, customers)
      BY DEF UpdateSound
    <3> QED BY <2>11, <3>1, UpdatesGoOnAlone DEF EndUpdate, UpdateInv
  <2>12. CASE UNCHANGED botUpdateVars
    BY <2>1, <2>12 DEF botUpdateVars
  <2> QED BY <2>2, <2>3, <2>4, <2>5, <2>6, <2>7, <2>8, <2>9, <2>10, <2>11, <2>12
          DEF BotUpdateNext, HandleBuyCallback, HandleCheckoutCreate, HandleConfirmCallback,
              HandleSubscriptionsCancel, HandleCancelCallback
<1>3. UpdateInv => OwnersAct
  BY DEF UpdateInv
<1> QED BY <1>1, <1>2, <1>3, PTL DEF BotUpdateSpec

\* internal/telegram: the two side by side.
THEOREM TelegramStaysSafe ==
  ASSUME PlatformBot \notin BotShops
  PROVE  ShopBotSpec /\ BotUpdateSpec => []TelegramSafe
<1>1. BotsSafe /\ OwnersAct => TelegramSafe
  BY DEF TelegramSafe
<1> QED BY <1>1, BotsStaySafe, OwnersAlwaysAct, PTL

-----------------------------------------------------------------------------
\* PluginLifecycle.  While one operation is under way, the registry, the pool, the metadata
\* and the hooks are where its steps have brought them; a pool that serves is always one the
\* runtime knows.
Rows == [status : {"none", "installed", "disabled", "error", "enabled"}, ver : Versions, conf : Versions]
Pools == [build : Nat, ver : Nat, conf : Nat]
OpSteps == {"idle", "load", "register", "enabled", "unhook", "unload", "disabled", "delete", "config",
            "reload", "swap", "restore", "detach", "loadNew", "loadOld", "swapNew", "persist",
            "swapBack", "reloadOld", "markError"}
Ops == [pc : OpSteps, kind : {"none", "enable", "disable", "uninstall", "config", "reload"}, row : Rows, old : Pools]
Flows == [pin : Pools, cut : BOOLEAN]

LifecycleTyped ==
  /\ registry \in Rows /\ current \in Pools /\ builds \in Nat
  /\ op \in [Admins -> Ops]
  /\ bizFlow \in Flows

\* A pool that serves calls is one the runtime knows, and a flow that nothing cut short
\* finds the pool it began with.
FlowFinds ==
  /\ current # NoPool => metadata
  /\ bizFlow.pin # NoPool /\ ~bizFlow.cut => metadata /\ (bizFlow.pin = current \/ bizFlow.pin \in retired)

LEMMA LifecycleConstants ==
  /\ NoRow \in Rows /\ NoRow.status = "none" /\ NoRow.ver = 1 /\ NoRow.conf = 1
  /\ NoPool \in Pools /\ NoPool.build = 0 /\ NoPool.ver = 0 /\ NoPool.conf = 0
  /\ NoOp \in Ops /\ NoOp.pc = "idle" /\ NoOp.row = NoRow /\ NoOp.old = NoPool
  /\ NoFlow \in Flows /\ NoFlow.pin = NoPool /\ NoFlow.cut = FALSE
<1>1. NoRow \in Rows /\ NoRow.status = "none" /\ NoRow.ver = 1 /\ NoRow.conf = 1
  BY DEF NoRow, Rows, Versions
<1>2. NoPool \in Pools /\ NoPool.build = 0 /\ NoPool.ver = 0 /\ NoPool.conf = 0
  BY DEF NoPool, Pools
<1>3. PICK r, p : r = NoRow /\ p = NoPool
  OBVIOUS
<1>4. r \in Rows /\ p \in Pools
  BY <1>1, <1>2, <1>3
<1>5. PICK n : n = [pc |-> "idle", kind |-> "none", row |-> r, old |-> p]
  OBVIOUS
<1>6. n \in Ops /\ n.pc = "idle" /\ n.row = r /\ n.old = p
  BY <1>4, <1>5 DEF Ops, OpSteps
<1>7. NoOp = n
  BY <1>3, <1>5 DEF NoOp
<1>8. PICK f : f = [pin |-> p, cut |-> FALSE]
  OBVIOUS
<1>9. f \in Flows /\ f.pin = p /\ f.cut = FALSE
  BY <1>4, <1>8 DEF Flows
<1>10. NoFlow = f
  BY <1>3, <1>8 DEF NoFlow
<1> QED BY <1>1, <1>2, <1>3, <1>6, <1>7, <1>9, <1>10

\* The pool that a load builds, and what stands in the row after a change of one field.
LEMMA BuiltPool ==
  ASSUME NEW b \in Nat, NEW v \in Versions, NEW c \in Versions, NEW p, p = [build |-> b, ver |-> v, conf |-> c]
  PROVE  p \in Pools /\ p.ver = v /\ p.conf = c /\ p # NoPool
<1>1. p \in Pools /\ p.ver = v /\ p.conf = c /\ v # 0
  BY DEF Pools, Versions
<1> QED BY <1>1, LifecycleConstants

LEMMA RowChanged ==
  ASSUME NEW r \in Rows
  PROVE  /\ \A s \in {"none", "installed", "disabled", "error", "enabled"} :
              /\ [r EXCEPT !.status = s] \in Rows /\ [r EXCEPT !.status = s].status = s
              /\ [r EXCEPT !.status = s].ver = r.ver /\ [r EXCEPT !.status = s].conf = r.conf
         /\ \A v \in Versions :
              /\ [r EXCEPT !.ver = v] \in Rows /\ [r EXCEPT !.ver = v].status = r.status
              /\ [r EXCEPT !.ver = v].ver = v /\ [r EXCEPT !.ver = v].conf = r.conf
         /\ \A v \in Versions :
              /\ [r EXCEPT !.conf = v] \in Rows /\ [r EXCEPT !.conf = v].status = r.status
              /\ [r EXCEPT !.conf = v].ver = r.ver /\ [r EXCEPT !.conf = v].conf = v
<1>1. ASSUME NEW s \in {"none", "installed", "disabled", "error", "enabled"}
      PROVE  /\ [r EXCEPT !.status = s] \in Rows /\ [r EXCEPT !.status = s].status = s
             /\ [r EXCEPT !.status = s].ver = r.ver /\ [r EXCEPT !.status = s].conf = r.conf
  BY DEF Rows
<1>2. ASSUME NEW v \in Versions
      PROVE  /\ [r EXCEPT !.ver = v] \in Rows /\ [r EXCEPT !.ver = v].status = r.status
             /\ [r EXCEPT !.ver = v].ver = v /\ [r EXCEPT !.ver = v].conf = r.conf
  BY DEF Rows
<1>3. ASSUME NEW v \in Versions
      PROVE  /\ [r EXCEPT !.conf = v] \in Rows /\ [r EXCEPT !.conf = v].status = r.status
             /\ [r EXCEPT !.conf = v].ver = r.ver /\ [r EXCEPT !.conf = v].conf = v
  BY DEF Rows
<1> QED BY <1>1, <1>2, <1>3

LEMMA OtherVersion == ASSUME NEW v \in Versions PROVE Other(v) \in Versions /\ Other(Other(v)) = v
BY DEF Other, Versions

\* An operation under way that comes to another step.
LEMMA OpTurns ==
  ASSUME LifecycleTyped, NEW a \in Admins, NEW l \in OpSteps, GoTo(a, l)
  PROVE  /\ op' \in [Admins -> Ops] /\ op'[a].pc = l /\ op'[a].row = op[a].row /\ op'[a].old = op[a].old
         /\ op'[a].kind = op[a].kind
         /\ \A b \in Admins : b # a => op'[b] = op[b]
<1>1. PICK n : n = [op[a] EXCEPT !.pc = l]
  OBVIOUS
<1>2. op[a] \in Ops
  BY DEF LifecycleTyped
<1>3. n \in Ops /\ n.pc = l /\ n.row = op[a].row /\ n.old = op[a].old /\ n.kind = op[a].kind
  BY <1>1, <1>2 DEF Ops
<1>4. op' = [op EXCEPT ![a] = n]
  BY <1>1 DEF GoTo
<1> QED BY <1>3, <1>4 DEF LifecycleTyped

LEMMA OpEnds ==
  ASSUME LifecycleTyped, NEW a \in Admins, End(a)
  PROVE  op' \in [Admins -> Ops] /\ op'[a].pc = "idle" /\ \A b \in Admins : b # a => op'[b] = op[b]
BY LifecycleConstants DEF LifecycleTyped, End

LEMMA OpBegins ==
  ASSUME LifecycleTyped, NEW a \in Admins, NEW l \in OpSteps,
         NEW k \in {"enable", "disable", "uninstall", "config", "reload"}, BeginOp(a, k, l)
  PROVE  /\ op' \in [Admins -> Ops] /\ op'[a].pc = l /\ op'[a].row = registry
         /\ \A b \in Admins : b # a => op'[b] = op[b]
<1>1. PICK n : n = [pc |-> l, kind |-> k, row |-> registry, old |-> NoPool]
  OBVIOUS
<1>2. n \in Ops /\ n.pc = l /\ n.row = registry
  <2>1. PICK r, p : r = registry /\ p = NoPool
    OBVIOUS
  <2>2. r \in Rows /\ p \in Pools
    BY <2>1, LifecycleConstants DEF LifecycleTyped
  <2>3. n = [pc |-> l, kind |-> k, row |-> r, old |-> p]
    BY <1>1, <2>1
  <2> QED BY <2>1, <2>2, <2>3 DEF Ops
<1>3. op' = [op EXCEPT ![a] = n]
  BY <1>1 DEF BeginOp
<1> QED BY <1>2, <1>3 DEF LifecycleTyped

\* What the runtime has for a row, and what there is when nothing runs: unless another pod
\* changed the row and this one has not caught up.
Follows(away, reg, cur, known, hooks) ==
  \/ away
  \/ IF reg.status = "enabled"
     THEN known /\ cur.ver = reg.ver /\ cur.conf = reg.conf /\ hooks = HooksOf(reg.ver)
     ELSE cur = NoPool /\ ~known /\ hooks = NoHooks

AsRead(o, reg) == reg.status = o.row.status /\ reg.ver = o.row.ver /\ reg.conf = o.row.conf
Runs(v, c, cur, known) == known /\ cur.ver = v /\ cur.conf = c

\* How far an operation has brought the runtime, while it is the only one.
Phase(o, away, reg, cur, known, hooks) ==
  /\ o.pc = "load" => AsRead(o, reg) /\ reg.status # "enabled" /\ Follows(away, reg, cur, known, hooks)
  /\ o.pc = "register" => /\ AsRead(o, reg) /\ reg.status # "enabled"
                          /\ Runs(o.row.ver, o.row.conf, cur, known) /\ (away \/ hooks = NoHooks)
  /\ o.pc = "enabled" => /\ AsRead(o, reg) /\ reg.status # "enabled"
                         /\ Runs(o.row.ver, o.row.conf, cur, known)
                         /\ away \/ hooks = HooksOf(o.row.ver)
  /\ o.pc \in {"unhook", "config"} => AsRead(o, reg) /\ Follows(away, reg, cur, known, hooks)
  /\ o.pc = "unload" => AsRead(o, reg) /\ hooks = NoHooks
  /\ o.pc = "disabled" => AsRead(o, reg) /\ cur = NoPool /\ ~known /\ hooks = NoHooks
  /\ o.pc = "delete" => reg.status # "enabled" /\ Follows(away, reg, cur, known, hooks)
  /\ o.pc \in {"reload", "restore"} =>
       /\ reg.status = "enabled" /\ o.row.status = "enabled" /\ reg.ver = o.row.ver
       /\ away \/ (Runs(o.row.ver, o.row.conf, cur, known) /\ hooks = HooksOf(o.row.ver))
  /\ o.pc \in {"reload", "swap"} => reg.conf = Other(o.row.conf)
  /\ o.pc = "swap" => /\ reg.status = "enabled" /\ o.row.status = "enabled" /\ reg.ver = o.row.ver
                      /\ Runs(o.row.ver, reg.conf, cur, known)
  /\ o.pc = "detach" => AsRead(o, reg) /\ reg.status = "enabled" /\ Follows(away, reg, cur, known, hooks)
  /\ o.pc \in {"loadNew", "loadOld", "reloadOld"} =>
       AsRead(o, reg) /\ reg.status = "enabled" /\ (away \/ hooks = HooksOf(o.row.ver))
  /\ o.pc = "loadNew" => cur = NoPool /\ (away \/ o.old # NoPool)
  /\ o.pc \in {"swapNew", "persist"} =>
       AsRead(o, reg) /\ reg.status = "enabled" /\ Runs(Other(o.row.ver), o.row.conf, cur, known)
  /\ o.pc = "persist" => hooks = HooksOf(Other(o.row.ver))
  /\ o.pc = "swapBack" => AsRead(o, reg) /\ reg.status = "enabled"
  /\ o.pc # "markError"

Calm ==
  \/ (\A a \in Admins : op[a].pc = "idle") /\ Follows(apart, registry, current, metadata, registered)
  \/ \E a \in Admins :
       /\ op[a].pc # "idle" /\ \A b \in Admins : b # a => op[b].pc = "idle"
       /\ registry.status # "none"
       /\ Phase(op[a], apart, registry, current, metadata, registered)

LifecycleInv == LifecycleTyped /\ FlowFinds /\ (~unsettled => Calm)

LEMMA OpAlone ==
  ASSUME Calm, NEW a \in Admins, op[a].pc # "idle"
  PROVE  /\ \A b \in Admins : b # a => op[b].pc = "idle"
         /\ registry.status # "none"
         /\ Phase(op[a], apart, registry, current, metadata, registered)
BY Zenon DEF Calm

LEMMA CalmAfterEnd ==
  ASSUME LifecycleTyped, Calm, NEW a \in Admins, op[a].pc # "idle", End(a),
         Follows(apart', registry', current', metadata', registered')
  PROVE  Calm'
<1>1. op'[a].pc = "idle" /\ \A b \in Admins : b # a => op'[b] = op[b]
  BY OpEnds
<1>2. \A b \in Admins : b # a => op[b].pc = "idle"
  BY OpAlone
<1>3. \A b \in Admins : op'[b].pc = "idle"
  BY <1>1, <1>2
<1> QED BY <1>3 DEF Calm

LEMMA CalmAfterStep ==
  ASSUME LifecycleTyped, Calm, NEW a \in Admins, op[a].pc # "idle",
         op'[a].pc # "idle", \A b \in Admins : b # a => op'[b] = op[b], registry'.status # "none",
         Phase(op'[a], apart', registry', current', metadata', registered')
  PROVE  Calm'
<1>1. \A b \in Admins : b # a => op'[b].pc = "idle"
  BY OpAlone
<1> QED BY <1>1 DEF Calm

\* A pool is built for a version and a configuration, or the old one is gone with nothing built.
LEMMA PluginLoaded ==
  ASSUME LifecycleTyped, FlowFinds, NEW v \in Versions, NEW c \in Versions, LoadPlugin(v, c)
  PROVE  /\ current' \in Pools /\ builds' \in Nat /\ bizFlow' \in Flows
         /\ Runs(v, c, current', metadata') /\ FlowFinds'
<1>1. PICK b : b = builds + 1
  OBVIOUS
<1>2. b \in Nat
  BY <1>1 DEF LifecycleTyped
<1>3. PICK p : p = [build |-> b, ver |-> v, conf |-> c]
  OBVIOUS
<1>4. p \in Pools /\ p.ver = v /\ p.conf = c
  BY <1>2, <1>3, BuiltPool
<1>5. current' = p /\ builds' = b /\ metadata' = TRUE /\ bizFlow' = bizFlow
  BY <1>1, <1>3 DEF LoadPlugin
<1>6. retired' = IF current = NoPool THEN retired ELSE retired \cup {current}
  BY DEF LoadPlugin, Retire
<1>7. FlowFinds'
  BY <1>5, <1>6 DEF FlowFinds
<1> QED BY <1>2, <1>4, <1>5, <1>7 DEF LifecycleTyped, Runs

LEMMA PluginNotLoaded ==
  ASSUME LifecycleTyped, FlowFinds, LoadPluginError
  PROVE  /\ current' = NoPool /\ current' \in Pools /\ builds' \in Nat /\ bizFlow' \in Flows
         /\ (metadata' <=> metadata /\ current = NoPool) /\ FlowFinds'
<1>1. current' = NoPool /\ builds' = builds /\ (metadata' <=> metadata /\ current = NoPool)
  BY DEF LoadPluginError
<1>2. retired' = IF current = NoPool THEN retired ELSE retired \cup {current}
  BY DEF LoadPluginError, Retire
<1>3. CASE current = NoPool
  <2>1. bizFlow' = bizFlow
    BY <1>3 DEF LoadPluginError
  <2> QED BY <1>1, <1>2, <1>3, <2>1, LifecycleConstants DEF FlowFinds, LifecycleTyped
<1>4. CASE current # NoPool
  <2>1. bizFlow' = [bizFlow EXCEPT !.cut = TRUE]
    BY <1>4 DEF LoadPluginError
  <2>2. bizFlow' \in Flows /\ bizFlow'.cut = TRUE
    BY <2>1 DEF LifecycleTyped, Flows
  <2> QED BY <1>1, <2>2, LifecycleConstants DEF FlowFinds, LifecycleTyped
<1> QED BY <1>3, <1>4

LEMMA RuntimeStays ==
  ASSUME LifecycleTyped, FlowFinds, UNCHANGED <<runtimeVars, bizFlow>>
  PROVE  /\ current' \in Pools /\ builds' \in Nat /\ bizFlow' \in Flows /\ FlowFinds'
         /\ current' = current /\ metadata' = metadata
BY DEF LifecycleTyped, FlowFinds, runtimeVars

\* An operation begins: the only one, if all were at rest.
LEMMA OperationBegins ==
  ASSUME LifecycleInv, NEW a \in Admins, NEW l \in OpSteps \ {"idle"},
         NEW k \in {"enable", "disable", "uninstall", "config", "reload"}, BeginOp(a, k, l),
         registry.status # "none",
         l \in {"load", "unhook", "config", "detach", "delete"},
         l \in {"load", "delete"} => registry.status # "enabled",
         l = "detach" => registry.status = "enabled"
  PROVE  LifecycleInv'
<1>1. /\ op' \in [Admins -> Ops] /\ op'[a].pc = l /\ op'[a].row = registry
      /\ \A b \in Admins : b # a => op'[b] = op[b]
  BY OpBegins DEF LifecycleInv
<1>2. UNCHANGED <<registry, current, metadata, registered, builds, apart, bizFlow>> /\ op[a].pc = "idle"
  BY DEF BeginOp, runtimeVars, On
<1>3. LifecycleTyped' /\ FlowFinds'
  BY <1>1, RuntimeStays DEF LifecycleInv, LifecycleTyped, BeginOp
<1>4. ASSUME ~unsettled' PROVE Calm'
  <2>1. ~unsettled /\ \A b \in Admins : op[b].pc = "idle"
    BY <1>4 DEF BeginOp, On
  <2>2. Follows(apart, registry, current, metadata, registered)
    BY <2>1 DEF LifecycleInv, Calm
  <2>3. Phase(op'[a], apart', registry, current, metadata, registered)
    BY <1>1, <1>2, <2>2 DEF Phase, AsRead
  <2>4. \A b \in Admins : b # a => op'[b].pc = "idle"
    BY <1>1, <2>1
  <2> QED BY <1>1, <1>2, <2>3, <2>4 DEF Calm
<1> QED BY <1>3, <1>4 DEF LifecycleInv

LEMMA RequestsBegin ==
  ASSUME LifecycleInv, NEW a \in Admins,
         Enable(a) \/ Disable(a) \/ Uninstall(a) \/ UpdateConfig(a) \/ HotReload(a)
  PROVE  LifecycleInv'
<1>1. CASE Enable(a)
  BY <1>1, OperationBegins DEF Enable, OpSteps
<1>2. CASE Disable(a)
  BY <1>2, OperationBegins DEF Disable, OpSteps
<1>3. CASE Uninstall(a)
  <2>1. CASE registry.status = "enabled"
    BY <1>3, <2>1, OperationBegins DEF Uninstall, OpSteps
  <2>2. CASE registry.status # "enabled"
    BY <1>3, <2>2, OperationBegins DEF Uninstall, OpSteps
  <2> QED BY <2>1, <2>2
<1>4. CASE UpdateConfig(a)
  BY <1>4, OperationBegins DEF UpdateConfig, OpSteps
<1>5. CASE HotReload(a)
  BY <1>5, OperationBegins DEF HotReload, OpSteps
<1> QED BY <1>1, <1>2, <1>3, <1>4, <1>5

\* A step of an operation: the types, the flow, and the phase it comes to or the end.
LEMMA OperationGoesOn ==
  ASSUME LifecycleInv, NEW a \in Admins, op[a].pc # "idle",
         registry' \in Rows, current' \in Pools, builds' \in Nat, bizFlow' \in Flows, FlowFinds',
         op' \in [Admins -> Ops], \A b \in Admins : b # a => op'[b] = op[b],
         ~unsettled' => ~unsettled,
         /\ ~unsettled' /\ registry.status # "none"
         /\ Phase(op[a], apart, registry, current, metadata, registered)
         => \/ End(a) /\ Follows(apart', registry', current', metadata', registered')
            \/ /\ op'[a].pc # "idle" /\ registry'.status # "none"
               /\ Phase(op'[a], apart', registry', current', metadata', registered')
  PROVE  LifecycleInv'
<1>1. LifecycleTyped'
  BY DEF LifecycleTyped
<1>2. ASSUME ~unsettled' PROVE Calm'
  <2>1. ~unsettled /\ Calm
    BY <1>2 DEF LifecycleInv
  <2>2. registry.status # "none" /\ Phase(op[a], apart, registry, current, metadata, registered)
    BY <2>1, OpAlone
  <2>3. CASE End(a) /\ Follows(apart', registry', current', metadata', registered')
    BY <2>1, <2>3, CalmAfterEnd DEF LifecycleInv
  <2>4. CASE /\ op'[a].pc # "idle" /\ registry'.status # "none"
             /\ Phase(op'[a], apart', registry', current', metadata', registered')
    BY <2>1, <2>4, CalmAfterStep DEF LifecycleInv
  <2> QED BY <1>2, <2>1, <2>2, <2>3, <2>4
<1> QED BY <1>1, <1>2 DEF LifecycleInv

\* What is the same before and after in most steps.
LEMMA LifecycleKnown ==
  ASSUME LifecycleInv, NEW a \in Admins
  PROVE  /\ LifecycleTyped /\ FlowFinds /\ registry \in Rows /\ op[a].row \in Rows
         /\ op[a].row.ver \in Versions /\ op[a].row.conf \in Versions
         /\ registry.ver \in Versions /\ registry.conf \in Versions
<1>1. op[a] \in Ops /\ registry \in Rows
  BY DEF LifecycleInv, LifecycleTyped
<1>2. op[a].row \in Rows
  BY <1>1 DEF Ops
<1> QED BY <1>1, <1>2 DEF Rows, LifecycleInv

LEMMA StatusSet ==
  ASSUME registry \in Rows, NEW s \in {"disabled", "error", "enabled"}, SetStatus(s)
  PROVE  /\ registry' \in Rows /\ registry'.ver = registry.ver /\ registry'.conf = registry.conf
         /\ registry.status # "none" => registry'.status = s
<1>1. CASE registry.status = "none"
  BY <1>1 DEF SetStatus
<1>2. CASE registry.status # "none"
  <2>1. registry' = [registry EXCEPT !.status = s]
    BY <1>2 DEF SetStatus
  <2> QED BY <2>1 DEF Rows
<1> QED BY <1>1, <1>2

LEMMA EnableSteps ==
  ASSUME LifecycleInv, NEW a \in Admins, EnableLoad(a) \/ RegisterHooks(a) \/ PersistEnabled(a)
  PROVE  LifecycleInv'
<1>1. /\ LifecycleTyped /\ FlowFinds /\ registry \in Rows /\ op[a].row \in Rows
      /\ op[a].row.ver \in Versions /\ op[a].row.conf \in Versions
  BY LifecycleKnown
<1>2. CASE EnableLoad(a) /\ LoadPlugin(Row(a).ver, Row(a).conf) /\ GoTo(a, "register")
  <2>1. /\ current' \in Pools /\ builds' \in Nat /\ bizFlow' \in Flows
        /\ Runs(op[a].row.ver, op[a].row.conf, current', metadata') /\ FlowFinds'
    BY <1>1, <1>2, PluginLoaded DEF Row
  <2>2. /\ op' \in [Admins -> Ops] /\ op'[a].pc = "register" /\ op'[a].row = op[a].row
        /\ \A b \in Admins : b # a => op'[b] = op[b]
    BY <1>1, <1>2, OpTurns DEF OpSteps
  <2>3. op[a].pc = "load" /\ UNCHANGED <<registry, registered, apart, unsettled>>
    BY <1>2 DEF EnableLoad, On
  <2>4. /\ ~unsettled' /\ registry.status # "none"
        /\ Phase(op[a], apart, registry, current, metadata, registered)
        => Phase(op'[a], apart', registry', current', metadata', registered')
    BY <2>1, <2>2, <2>3 DEF Phase, AsRead, Follows
  <2> QED BY <1>1, <2>1, <2>2, <2>3, <2>4, OperationGoesOn
<1>3. CASE EnableLoad(a) /\ LoadPluginError /\ End(a)
  <2>1. /\ current' = NoPool /\ current' \in Pools /\ builds' \in Nat /\ bizFlow' \in Flows
        /\ (metadata' <=> metadata /\ current = NoPool) /\ FlowFinds'
    BY <1>1, <1>3, PluginNotLoaded
  <2>2. op' \in [Admins -> Ops] /\ \A b \in Admins : b # a => op'[b] = op[b]
    BY <1>1, <1>3, OpEnds
  <2>3. op[a].pc = "load" /\ UNCHANGED <<registry, registered, apart, unsettled>>
    BY <1>3 DEF EnableLoad, On
  <2>4. /\ ~unsettled' /\ registry.status # "none"
        /\ Phase(op[a], apart, registry, current, metadata, registered)
        => Follows(apart', registry', current', metadata', registered')
    BY <2>1, <2>3 DEF Phase, AsRead, Follows
  <2> QED BY <1>1, <1>3, <2>1, <2>2, <2>3, <2>4, OperationGoesOn
<1>4. CASE RegisterHooks(a)
  <2>1. /\ current' \in Pools /\ builds' \in Nat /\ bizFlow' \in Flows /\ FlowFinds'
        /\ current' = current /\ metadata' = metadata
    BY <1>1, <1>4, RuntimeStays DEF RegisterHooks
  <2>2. /\ op' \in [Admins -> Ops] /\ op'[a].pc = "enabled" /\ op'[a].row = op[a].row
        /\ \A b \in Admins : b # a => op'[b] = op[b]
    BY <1>1, <1>4, OpTurns DEF OpSteps, RegisterHooks
  <2>3. op[a].pc = "register" /\ UNCHANGED <<registry, apart, unsettled>>
    BY <1>4 DEF RegisterHooks, On
  <2>4. registered = NoHooks => registered' = HooksOf(op[a].row.ver)
    <3>1. PICK v : v = op[a].row.ver
      OBVIOUS
    <3>2. registered' = [registered EXCEPT ![v] = @ + 1]
      BY <1>4, <3>1 DEF RegisterHooks, Row
    <3>3. v \in Versions /\ NoHooks[v] = 0
      BY <1>1, <3>1 DEF NoHooks
    <3>4. PICK n : n = registered[v] + 1
      OBVIOUS
    <3>5. registered' = [registered EXCEPT ![v] = n]
      BY <3>2, <3>4
    <3>6. registered = NoHooks => n = 1
      BY <3>3, <3>4
    <3>7. registered = NoHooks => registered' = [NoHooks EXCEPT ![v] = 1]
      BY <3>5, <3>6
    <3> QED BY <3>1, <3>7 DEF HooksOf
  <2>5. /\ ~unsettled' /\ registry.status # "none"
        /\ Phase(op[a], apart, registry, current, metadata, registered)
        => Phase(op'[a], apart', registry', current', metadata', registered')
    BY <2>1, <2>2, <2>3, <2>4 DEF Phase, AsRead
  <2> QED BY <1>1, <2>1, <2>2, <2>3, <2>5, OperationGoesOn
<1>5. CASE PersistEnabled(a)
  <2>1. /\ current' \in Pools /\ builds' \in Nat /\ bizFlow' \in Flows /\ FlowFinds'
        /\ current' = current /\ metadata' = metadata
    BY <1>1, <1>5, RuntimeStays DEF PersistEnabled
  <2>2. op' \in [Admins -> Ops] /\ \A b \in Admins : b # a => op'[b] = op[b]
    BY <1>1, <1>5, OpEnds DEF PersistEnabled
  <2>3. /\ op[a].pc = "enabled" /\ End(a) /\ registered' = registered /\ apart' = apart
        /\ \/ SetStatus("enabled") /\ unsettled' = unsettled
           \/ unsettled' = TRUE /\ registry' = registry
    BY <1>5 DEF PersistEnabled, On
  <2>4. /\ registry' \in Rows
        /\ SetStatus("enabled") /\ registry.status # "none" =>
             registry'.status = "enabled" /\ registry'.ver = registry.ver /\ registry'.conf = registry.conf
    <3>1. registry' = registry \/ SetStatus("enabled")
      BY <2>3
    <3> QED BY <1>1, <3>1, StatusSet
  <2>5. /\ ~unsettled' /\ registry.status # "none"
        /\ Phase(op[a], apart, registry, current, metadata, registered)
        => Follows(apart', registry', current', metadata', registered')
    BY <2>1, <2>3, <2>4 DEF Phase, AsRead, Follows, Runs
  <2> QED BY <1>1, <2>1, <2>2, <2>3, <2>4, <2>5, OperationGoesOn
<1>6. EnableLoad(a) => \/ LoadPlugin(Row(a).ver, Row(a).conf) /\ GoTo(a, "register")
                       \/ LoadPluginError /\ End(a)
  BY DEF EnableLoad
<1> QED BY <1>2, <1>3, <1>4, <1>5, <1>6

\* Steps that leave the runtime alone.
LEMMA QuietTurn ==
  ASSUME LifecycleInv, NEW a \in Admins, op[a].pc # "idle", UNCHANGED <<runtimeVars, bizFlow>>, registry' \in Rows,
         NEW l \in OpSteps, l # "idle", GoTo(a, l), ~unsettled' => ~unsettled,
         /\ ~unsettled' /\ registry.status # "none" /\ op'[a].pc = l /\ op'[a].row = op[a].row
         /\ Phase(op[a], apart, registry, current, metadata, registered)
         => registry'.status # "none" /\ Phase(op'[a], apart', registry', current, metadata, registered')
  PROVE  LifecycleInv'
<1>1. LifecycleTyped /\ FlowFinds
  BY DEF LifecycleInv
<1>2. /\ current' \in Pools /\ builds' \in Nat /\ bizFlow' \in Flows /\ FlowFinds'
      /\ current' = current /\ metadata' = metadata
  BY <1>1, RuntimeStays
<1>3. /\ op' \in [Admins -> Ops] /\ op'[a].pc = l /\ op'[a].row = op[a].row
      /\ \A b \in Admins : b # a => op'[b] = op[b]
  BY <1>1, OpTurns
<1> QED BY <1>2, <1>3, OperationGoesOn

LEMMA QuietEnd ==
  ASSUME LifecycleInv, NEW a \in Admins, op[a].pc # "idle", UNCHANGED <<runtimeVars, bizFlow>>, registry' \in Rows,
         End(a), ~unsettled' => ~unsettled,
         /\ ~unsettled' /\ registry.status # "none"
         /\ Phase(op[a], apart, registry, current, metadata, registered)
         => Follows(apart', registry', current, metadata, registered')
  PROVE  LifecycleInv'
<1>1. LifecycleTyped /\ FlowFinds
  BY DEF LifecycleInv
<1>2. /\ current' \in Pools /\ builds' \in Nat /\ bizFlow' \in Flows /\ FlowFinds'
      /\ current' = current /\ metadata' = metadata
  BY <1>1, RuntimeStays
<1>3. op' \in [Admins -> Ops] /\ \A b \in Admins : b # a => op'[b] = op[b]
  BY <1>1, OpEnds
<1> QED BY <1>2, <1>3, OperationGoesOn

LEMMA DisableSteps ==
  ASSUME LifecycleInv, NEW a \in Admins,
         UnregisterHooks(a) \/ UnloadPlugin(a) \/ PersistDisabled(a) \/ Delete(a)
  PROVE  LifecycleInv'
<1>1. /\ LifecycleTyped /\ FlowFinds /\ registry \in Rows /\ op[a].row \in Rows
      /\ op[a].row.ver \in Versions /\ op[a].row.conf \in Versions
  BY LifecycleKnown
<1>2. CASE UnregisterHooks(a)
  <2>1. /\ op[a].pc = "unhook" /\ GoTo(a, "unload") /\ registered' = NoHooks
        /\ UNCHANGED <<registry, apart, unsettled, runtimeVars, bizFlow>>
    BY <1>2 DEF UnregisterHooks, On
  <2>2. /\ registry.status # "none" /\ op'[a].pc = "unload" /\ op'[a].row = op[a].row
        /\ Phase(op[a], apart, registry, current, metadata, registered)
        => registry'.status # "none" /\ Phase(op'[a], apart', registry', current, metadata, registered')
    BY <2>1 DEF Phase, AsRead, Follows
  <2> QED BY <1>1, <2>1, <2>2, QuietTurn DEF OpSteps
<1>3. CASE UnloadPlugin(a)
  <2>1. /\ op[a].pc = "unload" /\ GoTo(a, "disabled") /\ UNCHANGED <<registry, apart, unsettled, registered, builds, retired>>
        /\ current' = (IF metadata THEN NoPool ELSE current) /\ metadata' = FALSE
        /\ bizFlow' = IF bizFlow.pin = current \/ bizFlow.pin \in retired THEN [bizFlow EXCEPT !.cut = TRUE] ELSE bizFlow
    BY <1>3 DEF UnloadPlugin, On
  <2>2. current' = NoPool
    BY <1>1, <2>1 DEF FlowFinds
  <2>3. bizFlow' \in Flows /\ bizFlow'.pin = bizFlow.pin
        /\ (bizFlow.pin = current \/ bizFlow.pin \in retired => bizFlow'.cut = TRUE)
        /\ (~(bizFlow.pin = current \/ bizFlow.pin \in retired) => bizFlow'.cut = bizFlow.cut)
    BY <1>1, <2>1 DEF LifecycleTyped, Flows
  <2>4. FlowFinds'
    BY <1>1, <2>2, <2>3 DEF FlowFinds
  <2>5. /\ op' \in [Admins -> Ops] /\ op'[a].pc = "disabled" /\ op'[a].row = op[a].row
        /\ \A b \in Admins : b # a => op'[b] = op[b]
    BY <1>1, <2>1, OpTurns DEF OpSteps
  <2>6. current' \in Pools /\ builds' \in Nat
    BY <1>1, <2>1, <2>2, LifecycleConstants DEF LifecycleTyped
  <2>7. /\ registry.status # "none" /\ Phase(op[a], apart, registry, current, metadata, registered)
        => Phase(op'[a], apart', registry', current', metadata', registered')
    BY <2>1, <2>2, <2>5 DEF Phase, AsRead
  <2> QED BY <1>1, <2>1, <2>3, <2>4, <2>5, <2>6, <2>7, OperationGoesOn
<1>4. CASE PersistDisabled(a)
  <2>1. op[a].pc = "disabled" /\ UNCHANGED <<registered, runtimeVars, bizFlow>>
    BY <1>4 DEF PersistDisabled, On
  <2>2. CASE SetStatus("disabled") /\ GoTo(a, "delete") /\ unsettled' = unsettled
    <3>1. registry' \in Rows /\ (registry.status # "none" => registry'.status = "disabled")
      BY <1>1, <2>2, StatusSet
    <3>2. /\ registry.status # "none" /\ op'[a].pc = "delete" /\ op'[a].row = op[a].row
          /\ Phase(op[a], apart, registry, current, metadata, registered)
          => registry'.status # "none" /\ Phase(op'[a], apart', registry', current, metadata, registered')
      BY <2>1, <3>1 DEF Phase, Follows
    <3> QED BY <2>1, <2>2, <3>1, <3>2, QuietTurn DEF OpSteps
  <2>3. CASE SetStatus("disabled") /\ End(a) /\ unsettled' = unsettled
    <3>1. registry' \in Rows /\ (registry.status # "none" => registry'.status = "disabled")
      BY <1>1, <2>3, StatusSet
    <3>2. /\ registry.status # "none" /\ Phase(op[a], apart, registry, current, metadata, registered)
          => Follows(apart', registry', current, metadata, registered')
      BY <2>1, <3>1 DEF Phase, Follows
    <3> QED BY <2>1, <2>3, <3>1, <3>2, QuietEnd
  <2>4. CASE op[a].row.status \in {"installed", "disabled"} /\ End(a) /\ UNCHANGED <<registry, unsettled>>
    <3>1. Phase(op[a], apart, registry, current, metadata, registered) => Follows(apart', registry', current, metadata, registered')
      BY <2>1, <2>4 DEF Phase, Follows, AsRead
    <3> QED BY <1>1, <2>1, <2>4, <3>1, QuietEnd
  <2>5. CASE End(a) /\ unsettled' = TRUE /\ registry' = registry
    BY <1>1, <2>1, <2>5, QuietEnd
  <2> QED BY <1>4, <2>2, <2>3, <2>4, <2>5 DEF PersistDisabled, Row
<1>5. CASE Delete(a)
  <2>1. /\ op[a].pc = "delete" /\ End(a) /\ UNCHANGED <<registered, runtimeVars, bizFlow, apart, unsettled>>
        /\ registry' = NoRow \/ registry' = registry
    BY <1>5 DEF Delete, On
  <2>2. registry' \in Rows /\ (registry' = registry \/ registry'.status = "none")
    BY <1>1, <2>1, LifecycleConstants
  <2>3. Phase(op[a], apart, registry, current, metadata, registered) => Follows(apart', registry', current, metadata, registered')
    BY <2>1, <2>2 DEF Phase, Follows
  <2> QED BY <2>1, <2>2, <2>3, QuietEnd
<1> QED BY <1>2, <1>3, <1>4, <1>5

LEMMA ConfSet ==
  ASSUME registry \in Rows, NEW c \in Versions,
         registry' = IF registry.status = "none" THEN registry ELSE [registry EXCEPT !.conf = c]
  PROVE  /\ registry' \in Rows /\ registry'.status = registry.status /\ registry'.ver = registry.ver
         /\ registry.status # "none" => registry'.conf = c
<1>1. CASE registry.status = "none"
  BY <1>1
<1>2. CASE registry.status # "none"
  <2>1. registry' = [registry EXCEPT !.conf = c]
    BY <1>2
  <2> QED BY <2>1 DEF Rows
<1> QED BY <1>1, <1>2

LEMMA VerSet ==
  ASSUME registry \in Rows, NEW v \in Versions,
         registry' = IF registry.status = "none" THEN registry ELSE [registry EXCEPT !.ver = v]
  PROVE  /\ registry' \in Rows /\ registry'.status = registry.status /\ registry'.conf = registry.conf
         /\ registry.status # "none" => registry'.ver = v
<1>1. CASE registry.status = "none"
  BY <1>1
<1>2. CASE registry.status # "none"
  <2>1. registry' = [registry EXCEPT !.ver = v]
    BY <1>2
  <2> QED BY <2>1 DEF Rows
<1> QED BY <1>1, <1>2

\* A load as a step of an operation that goes on or, with it, ends.
LEMMA LoadGoesOn ==
  ASSUME LifecycleInv, NEW a \in Admins, op[a].pc # "idle", UNCHANGED registry,
         NEW v \in Versions, NEW c \in Versions, LoadPlugin(v, c), ~unsettled' => ~unsettled,
         NEW l \in OpSteps, l # "idle", GoTo(a, l),
         /\ ~unsettled' /\ op'[a].pc = l /\ op'[a].row = op[a].row
         /\ Phase(op[a], apart, registry, current, metadata, registered) /\ Runs(v, c, current', metadata')
         => Phase(op'[a], apart', registry, current', metadata', registered')
  PROVE  LifecycleInv'
<1>1. LifecycleTyped /\ FlowFinds
  BY DEF LifecycleInv
<1>2. /\ current' \in Pools /\ builds' \in Nat /\ bizFlow' \in Flows /\ Runs(v, c, current', metadata') /\ FlowFinds'
  BY <1>1, PluginLoaded
<1>3. /\ op' \in [Admins -> Ops] /\ op'[a].pc = l /\ op'[a].row = op[a].row
      /\ \A b \in Admins : b # a => op'[b] = op[b]
  BY <1>1, OpTurns
<1>4. registry' \in Rows
  BY <1>1 DEF LifecycleTyped
<1> QED BY <1>2, <1>3, <1>4, OperationGoesOn

LEMMA LoadFails ==
  ASSUME LifecycleInv, NEW a \in Admins, op[a].pc # "idle", UNCHANGED registry, LoadPluginError,
         ~unsettled' => ~unsettled,
         NEW l \in OpSteps, l # "idle", GoTo(a, l),
         /\ ~unsettled' /\ op'[a].pc = l /\ op'[a].row = op[a].row
         /\ Phase(op[a], apart, registry, current, metadata, registered)
         /\ current' = NoPool
         => Phase(op'[a], apart', registry, current', metadata', registered')
  PROVE  LifecycleInv'
<1>1. LifecycleTyped /\ FlowFinds
  BY DEF LifecycleInv
<1>2. /\ current' = NoPool /\ current' \in Pools /\ builds' \in Nat /\ bizFlow' \in Flows /\ FlowFinds'
  BY <1>1, PluginNotLoaded
<1>3. /\ op' \in [Admins -> Ops] /\ op'[a].pc = l /\ op'[a].row = op[a].row
      /\ \A b \in Admins : b # a => op'[b] = op[b]
  BY <1>1, OpTurns
<1>4. registry' \in Rows
  BY <1>1 DEF LifecycleTyped
<1> QED BY <1>2, <1>3, <1>4, OperationGoesOn

LEMMA LoadEnds ==
  ASSUME LifecycleInv, NEW a \in Admins, op[a].pc # "idle", UNCHANGED registry, ~unsettled' => ~unsettled,
         End(a),
         NEW v \in Versions, NEW c \in Versions,
         LoadPlugin(v, c) \/ LoadPluginError, LoadPluginError => unsettled',
         /\ ~unsettled' /\ Phase(op[a], apart, registry, current, metadata, registered)
         /\ Runs(v, c, current', metadata')
         => Follows(apart', registry, current', metadata', registered')
  PROVE  LifecycleInv'
<1>1. LifecycleTyped /\ FlowFinds
  BY DEF LifecycleInv
<1>2. op' \in [Admins -> Ops] /\ \A b \in Admins : b # a => op'[b] = op[b]
  BY <1>1, OpEnds
<1>3. registry' \in Rows
  BY <1>1 DEF LifecycleTyped
<1>4. CASE LoadPlugin(v, c)
  <2>1. /\ current' \in Pools /\ builds' \in Nat /\ bizFlow' \in Flows /\ Runs(v, c, current', metadata') /\ FlowFinds'
    BY <1>1, <1>4, PluginLoaded
  <2>2. /\ ~unsettled' /\ Phase(op[a], apart, registry, current, metadata, registered)
        => Follows(apart', registry, current', metadata', registered')
    BY <1>4, <2>1
  <2> QED BY <1>2, <1>3, <2>1, <2>2, OperationGoesOn
<1>5. CASE LoadPluginError
  <2>1. /\ current' \in Pools /\ builds' \in Nat /\ bizFlow' \in Flows /\ FlowFinds'
    BY <1>1, <1>5, PluginNotLoaded
  <2>2. /\ ~unsettled' /\ Phase(op[a], apart, registry, current, metadata, registered)
        => Follows(apart', registry, current', metadata', registered')
    BY <1>5
  <2> QED BY <1>2, <1>3, <2>1, <2>2, OperationGoesOn
<1> QED BY <1>4, <1>5

LEMMA ConfigSteps ==
  ASSUME LifecycleInv, NEW a \in Admins,
         PersistConfig(a) \/ ReloadWithConfig(a) \/ SwapConfigHooks(a) \/ RestoreConfig(a)
  PROVE  LifecycleInv'
<1>1. /\ LifecycleTyped /\ FlowFinds /\ registry \in Rows /\ op[a].row \in Rows
      /\ op[a].row.ver \in Versions /\ op[a].row.conf \in Versions /\ Other(op[a].row.conf) \in Versions
  BY LifecycleKnown, OtherVersion
<1>2. CASE PersistConfig(a)
  <2>1. op[a].pc = "config" /\ UNCHANGED <<registered, apart, unsettled, runtimeVars, bizFlow>>
    BY <1>2 DEF PersistConfig, On
  <2>2. CASE /\ registry' = IF registry.status = "none" THEN registry
                            ELSE [registry EXCEPT !.conf = Other(Row(a).conf)]
             /\ IF Row(a).status = "enabled" THEN GoTo(a, "reload") ELSE End(a)
    <3>1. /\ registry' \in Rows /\ registry'.status = registry.status /\ registry'.ver = registry.ver
          /\ registry.status # "none" => registry'.conf = Other(op[a].row.conf)
      BY <1>1, <2>2, ConfSet DEF Row
    <3>2. CASE op[a].row.status = "enabled"
      <4>1. GoTo(a, "reload")
        BY <2>2, <3>2 DEF Row
      <4>2. /\ registry.status # "none" /\ op'[a].pc = "reload" /\ op'[a].row = op[a].row
            /\ Phase(op[a], apart, registry, current, metadata, registered)
            => registry'.status # "none" /\ Phase(op'[a], apart', registry', current, metadata, registered')
        BY <2>1, <3>1, <3>2 DEF Phase, AsRead, Follows, Runs
      <4> QED BY <2>1, <3>1, <4>1, <4>2, QuietTurn DEF OpSteps
    <3>3. CASE op[a].row.status # "enabled"
      <4>1. End(a)
        BY <2>2, <3>3 DEF Row
      <4>2. Phase(op[a], apart, registry, current, metadata, registered)
            => Follows(apart', registry', current, metadata, registered')
        BY <2>1, <3>1, <3>3 DEF Phase, AsRead, Follows
      <4> QED BY <2>1, <3>1, <4>1, <4>2, QuietEnd
    <3> QED BY <3>2, <3>3
  <2>3. CASE End(a) /\ registry' = registry
    <3>1. Phase(op[a], apart, registry, current, metadata, registered)
          => Follows(apart', registry', current, metadata, registered')
      BY <2>1, <2>3 DEF Phase
    <3> QED BY <1>1, <2>1, <2>3, <3>1, QuietEnd
  <2> QED BY <1>2, <2>2, <2>3 DEF PersistConfig
<1>3. CASE ReloadWithConfig(a)
  <2>1. op[a].pc = "reload" /\ UNCHANGED <<registry, registered, apart>>
    BY <1>3 DEF ReloadWithConfig, On
  <2>2. CASE LoadPlugin(Row(a).ver, Other(Row(a).conf)) /\ GoTo(a, "swap") /\ UNCHANGED unsettled
    <3>1. /\ op'[a].pc = "swap" /\ op'[a].row = op[a].row
          /\ Phase(op[a], apart, registry, current, metadata, registered)
          /\ Runs(op[a].row.ver, Other(op[a].row.conf), current', metadata')
          => Phase(op'[a], apart', registry, current', metadata', registered')
      BY <2>1 DEF Phase, Runs
    <3> QED BY <1>1, <2>1, <2>2, <3>1, LoadGoesOn DEF OpSteps, Row
  <2>3. CASE GoTo(a, "restore") /\ UNCHANGED <<runtimeVars, bizFlow, unsettled>>
    <3>1. /\ registry.status # "none" /\ op'[a].pc = "restore" /\ op'[a].row = op[a].row
          /\ Phase(op[a], apart, registry, current, metadata, registered)
          => registry'.status # "none" /\ Phase(op'[a], apart', registry', current, metadata, registered')
      BY <2>1 DEF Phase, Runs
    <3> QED BY <1>1, <2>1, <2>3, <3>1, QuietTurn DEF OpSteps
  <2>4. CASE LoadPluginError /\ GoTo(a, "restore") /\ unsettled' = TRUE
    BY <2>1, <2>4, LoadFails DEF OpSteps
  <2> QED BY <1>3, <2>2, <2>3, <2>4 DEF ReloadWithConfig
<1>4. CASE SwapConfigHooks(a)
  <2>1. /\ op[a].pc = "swap" /\ End(a) /\ registered' = HooksOf(op[a].row.ver)
        /\ UNCHANGED <<registry, unsettled, runtimeVars, bizFlow>>
    BY <1>4 DEF SwapConfigHooks, On, Row
  <2>2. Phase(op[a], apart, registry, current, metadata, registered)
        => Follows(apart', registry', current, metadata, registered')
    BY <2>1 DEF Phase, Follows, Runs
  <2> QED BY <1>1, <2>1, <2>2, QuietEnd
<1>5. CASE RestoreConfig(a)
  <2>1. op[a].pc = "restore" /\ End(a) /\ UNCHANGED <<registered, apart, runtimeVars, bizFlow>>
    BY <1>5 DEF RestoreConfig, On
  <2>2. CASE /\ registry' = IF registry.status = "none" THEN registry
                            ELSE [registry EXCEPT !.conf = Row(a).conf]
             /\ unsettled' = unsettled
    <3>1. /\ registry' \in Rows /\ registry'.status = registry.status /\ registry'.ver = registry.ver
          /\ registry.status # "none" => registry'.conf = op[a].row.conf
      BY <1>1, <2>2, ConfSet DEF Row
    <3>2. registry.status # "none" /\ Phase(op[a], apart, registry, current, metadata, registered)
          => Follows(apart', registry', current, metadata, registered')
      BY <2>1, <3>1 DEF Phase, Follows, Runs
    <3> QED BY <2>1, <2>2, <3>1, <3>2, QuietEnd
  <2>3. CASE unsettled' = TRUE /\ registry' = registry
    BY <1>1, <2>1, <2>3, QuietEnd
  <2> QED BY <1>5, <2>2, <2>3 DEF RestoreConfig
<1> QED BY <1>2, <1>3, <1>4, <1>5

LEMMA ReloadSteps ==
  ASSUME LifecycleInv, NEW a \in Admins,
         LoadNew(a) \/ SwapNewHooks(a) \/ UpdatePlugin(a) \/ SwapBackHooks(a) \/ LoadOld(a) \/ MarkError(a)
  PROVE  LifecycleInv'
<1>1. /\ LifecycleTyped /\ FlowFinds /\ registry \in Rows /\ op[a].row \in Rows
      /\ op[a].row.ver \in Versions /\ op[a].row.conf \in Versions /\ Other(op[a].row.ver) \in Versions
  BY LifecycleKnown, OtherVersion
<1>2. CASE LoadNew(a)
  <2>1. op[a].pc = "loadNew" /\ UNCHANGED <<registry, registered, apart, unsettled>>
    BY <1>2 DEF LoadNew, On
  <2>2. CASE LoadPlugin(Other(Row(a).ver), Row(a).conf) /\ GoTo(a, "swapNew")
    <3>1. /\ op'[a].pc = "swapNew" /\ op'[a].row = op[a].row
          /\ Phase(op[a], apart, registry, current, metadata, registered)
          /\ Runs(Other(op[a].row.ver), op[a].row.conf, current', metadata')
          => Phase(op'[a], apart', registry, current', metadata', registered')
      BY <2>1 DEF Phase, AsRead
    <3> QED BY <1>1, <2>1, <2>2, <3>1, LoadGoesOn DEF OpSteps, Row
  <2>3. CASE LoadPluginError /\ op[a].old # NoPool /\ GoTo(a, "loadOld")
    <3>1. /\ op'[a].pc = "loadOld" /\ op'[a].row = op[a].row
          /\ Phase(op[a], apart, registry, current, metadata, registered)
          => Phase(op'[a], apart', registry, current', metadata', registered')
      BY <2>1 DEF Phase, AsRead
    <3> QED BY <2>1, <2>3, <3>1, LoadFails DEF OpSteps
  <2>4. CASE LoadPluginError /\ op[a].old = NoPool /\ End(a)
    <3>1. Phase(op[a], apart, registry, current, metadata, registered)
          => Follows(apart', registry', current', metadata', registered')
      BY <2>1, <2>4 DEF Phase, Follows
    <3>2. /\ current' \in Pools /\ builds' \in Nat /\ bizFlow' \in Flows /\ FlowFinds'
      BY <1>1, <2>4, PluginNotLoaded
    <3>3. op' \in [Admins -> Ops] /\ \A b \in Admins : b # a => op'[b] = op[b]
      BY <1>1, <2>4, OpEnds
    <3> QED BY <1>1, <2>1, <2>4, <3>1, <3>2, <3>3, OperationGoesOn
  <2> QED BY <1>2, <2>2, <2>3, <2>4 DEF LoadNew
<1>3. CASE SwapNewHooks(a)
  <2>1. /\ op[a].pc = "swapNew" /\ GoTo(a, "persist") /\ registered' = HooksOf(Other(op[a].row.ver))
        /\ UNCHANGED <<registry, apart, unsettled, runtimeVars, bizFlow>>
    BY <1>3 DEF SwapNewHooks, On, Row
  <2>2. /\ registry.status # "none" /\ op'[a].pc = "persist" /\ op'[a].row = op[a].row
        /\ Phase(op[a], apart, registry, current, metadata, registered)
        => registry'.status # "none" /\ Phase(op'[a], apart', registry', current, metadata, registered')
    BY <2>1 DEF Phase, AsRead
  <2> QED BY <1>1, <2>1, <2>2, QuietTurn DEF OpSteps
<1>4. CASE UpdatePlugin(a)
  <2>1. op[a].pc = "persist" /\ UNCHANGED <<registered, unsettled, runtimeVars, bizFlow>>
    BY <1>4 DEF UpdatePlugin, On
  <2>2. CASE /\ registry' = IF registry.status = "none" THEN registry
                            ELSE [registry EXCEPT !.ver = Other(Row(a).ver)]
             /\ End(a)
    <3>1. /\ registry' \in Rows /\ registry'.status = registry.status /\ registry'.conf = registry.conf
          /\ registry.status # "none" => registry'.ver = Other(op[a].row.ver)
      BY <1>1, <2>2, VerSet DEF Row
    <3>2. registry.status # "none" /\ Phase(op[a], apart, registry, current, metadata, registered)
          => Follows(apart', registry', current, metadata, registered')
      BY <2>1, <3>1 DEF Phase, Follows, Runs, AsRead
    <3> QED BY <2>1, <2>2, <3>1, <3>2, QuietEnd
  <2>3. CASE GoTo(a, "swapBack") /\ registry' = registry
    <3>1. /\ registry.status # "none" /\ op'[a].pc = "swapBack" /\ op'[a].row = op[a].row
          /\ Phase(op[a], apart, registry, current, metadata, registered)
          => registry'.status # "none" /\ Phase(op'[a], apart', registry', current, metadata, registered')
      BY <2>1, <2>3 DEF Phase, AsRead
    <3> QED BY <1>1, <2>1, <2>3, <3>1, QuietTurn DEF OpSteps
  <2> QED BY <1>4, <2>2, <2>3 DEF UpdatePlugin
<1>5. CASE SwapBackHooks(a)
  <2>1. /\ op[a].pc = "swapBack" /\ GoTo(a, "reloadOld") /\ registered' = HooksOf(op[a].row.ver)
        /\ UNCHANGED <<registry, apart, unsettled, runtimeVars, bizFlow>>
    BY <1>5 DEF SwapBackHooks, On, Row
  <2>2. /\ registry.status # "none" /\ op'[a].pc = "reloadOld" /\ op'[a].row = op[a].row
        /\ Phase(op[a], apart, registry, current, metadata, registered)
        => registry'.status # "none" /\ Phase(op'[a], apart', registry', current, metadata, registered')
    BY <2>1 DEF Phase, AsRead
  <2> QED BY <1>1, <2>1, <2>2, QuietTurn DEF OpSteps
<1>6. CASE LoadOld(a)
  <2>1. op[a].pc \in {"loadOld", "reloadOld"} /\ UNCHANGED <<registry, registered, apart>>
    BY <1>6 DEF LoadOld, On
  <2>2. CASE LoadPlugin(Row(a).ver, Row(a).conf) /\ End(a) /\ UNCHANGED unsettled
    <3>1. /\ Phase(op[a], apart, registry, current, metadata, registered)
          /\ Runs(op[a].row.ver, op[a].row.conf, current', metadata')
          => Follows(apart', registry, current', metadata', registered')
      BY <2>1 DEF Phase, AsRead, Follows, Runs
    <3>2. LoadPluginError => FALSE
      <4>1. LoadPluginError => current' = NoPool
        BY DEF LoadPluginError
      <4>2. current'.ver = op[a].row.ver /\ op[a].row.ver # 0
        BY <1>1, <2>2, PluginLoaded DEF Row, Runs, Versions
      <4> QED BY <4>1, <4>2, LifecycleConstants
    <3> QED BY <1>1, <2>1, <2>2, <3>1, <3>2, LoadEnds DEF Row
  <2>3. CASE LoadPluginError /\ unsettled' = TRUE /\ op[a].pc = "reloadOld" /\ GoTo(a, "markError")
    BY <2>1, <2>3, LoadFails DEF OpSteps
  <2>4. CASE LoadPluginError /\ unsettled' = TRUE /\ End(a)
    BY <1>1, <2>1, <2>4, LoadEnds
  <2> QED BY <1>6, <2>2, <2>3, <2>4 DEF LoadOld, On
<1>7. CASE MarkError(a)
  <2>1. op[a].pc = "markError" /\ End(a) /\ UNCHANGED <<registered, runtimeVars, bizFlow, unsettled>>
    BY <1>7 DEF MarkError, On
  <2>2. registry' \in Rows
    BY <1>1, <1>7, StatusSet DEF MarkError
  <2>3. ~Phase(op[a], apart, registry, current, metadata, registered)
    BY <2>1 DEF Phase
  <2> QED BY <2>1, <2>2, <2>3, QuietEnd
<1> QED BY <1>2, <1>3, <1>4, <1>5, <1>6, <1>7

LEMMA PoolDetached ==
  ASSUME LifecycleInv, NEW a \in Admins, DetachPool(a)
  PROVE  LifecycleInv'
<1>1. /\ LifecycleTyped /\ FlowFinds /\ registry \in Rows
      /\ registry.ver \in Versions
  BY LifecycleKnown
<1>2. /\ op[a].pc = "detach" /\ UNCHANGED <<registry, retired, metadata, builds, registered, apart, unsettled>>
      /\ current' = NoPool
      /\ bizFlow' = IF bizFlow.pin = current THEN [bizFlow EXCEPT !.cut = TRUE] ELSE bizFlow
  BY DEF DetachPool, On
<1>3. PICK n : n = [op[a] EXCEPT !.old = current, !.pc = "loadNew"]
  OBVIOUS
<1>4. op[a] \in Ops /\ current \in Pools
  BY <1>1 DEF LifecycleTyped
<1>5. n \in Ops /\ n.pc = "loadNew" /\ n.row = op[a].row /\ n.old = current
  BY <1>3, <1>4 DEF Ops, OpSteps
<1>6. op' = [op EXCEPT ![a] = n]
  BY <1>3 DEF DetachPool
<1>7. op' \in [Admins -> Ops] /\ op'[a] = n /\ \A b \in Admins : b # a => op'[b] = op[b]
  BY <1>1, <1>5, <1>6 DEF LifecycleTyped
<1>8. /\ bizFlow' \in Flows /\ bizFlow'.pin = bizFlow.pin
      /\ (bizFlow.pin = current => bizFlow'.cut = TRUE) /\ (bizFlow.pin # current => bizFlow'.cut = bizFlow.cut)
  BY <1>1, <1>2 DEF LifecycleTyped, Flows
<1>9. FlowFinds'
  BY <1>1, <1>2, <1>8 DEF FlowFinds
<1>10. current' \in Pools /\ builds' \in Nat
  BY <1>1, <1>2, LifecycleConstants DEF LifecycleTyped
<1>11. Phase(op[a], apart, registry, current, metadata, registered)
       => Phase(op'[a], apart', registry', current', metadata', registered')
  <2>1. current.ver = registry.ver => current # NoPool
    BY <1>1, LifecycleConstants DEF Versions
  <2> QED BY <1>2, <1>5, <1>7, <2>1 DEF Phase, AsRead, Follows
<1> QED BY <1>1, <1>2, <1>5, <1>7, <1>8, <1>9, <1>10, <1>11, OperationGoesOn

\* What goes on beside the operations.
LEMMA BesideOperations ==
  ASSUME LifecycleInv, Install \/ BeginFlow \/ EndFlow \/ \E p \in retired : DrainRetired(p)
  PROVE  LifecycleInv'
<1>1. LifecycleTyped /\ FlowFinds /\ registry \in Rows
  BY DEF LifecycleInv, LifecycleTyped
<1>2. CASE Install
  <2>1. /\ registry.status = "none" /\ UNCHANGED <<runtimeVars, registered, op, apart, unsettled, bizFlow>>
        /\ registry' = [NoRow EXCEPT !.status = "installed"]
    BY <1>2 DEF Install
  <2>2. registry' \in Rows /\ registry'.status = "installed"
    BY <2>1, LifecycleConstants DEF Rows
  <2>3. LifecycleTyped' /\ FlowFinds'
    BY <1>1, <2>1, <2>2 DEF LifecycleTyped, FlowFinds, runtimeVars
  <2>4. ASSUME ~unsettled' PROVE Calm'
    <3>1. Calm
      BY <2>1, <2>4 DEF LifecycleInv
    <3>2. (\A a \in Admins : op[a].pc = "idle") /\ Follows(apart, registry, current, metadata, registered)
      BY <2>1, <3>1 DEF Calm
    <3>3. Follows(apart', registry', current', metadata', registered')
      BY <2>1, <2>2, <3>2 DEF Follows, runtimeVars
    <3> QED BY <2>1, <3>2, <3>3 DEF Calm
  <2> QED BY <2>3, <2>4 DEF LifecycleInv
<1>3. CASE BeginFlow \/ EndFlow \/ \E p \in retired : DrainRetired(p)
  <2>1. UNCHANGED <<registry, current, metadata, builds, registered, op, apart, unsettled>>
    BY <1>3 DEF BeginFlow, EndFlow, DrainRetired, runtimeVars
  <2>2. bizFlow' \in Flows /\ FlowFinds'
    <3>1. CASE BeginFlow
      <4>1. PICK f, p : f = NoFlow /\ p = current
        OBVIOUS
      <4>2. f \in Flows /\ p \in Pools /\ f.cut = FALSE
        BY <1>1, <4>1, LifecycleConstants DEF LifecycleTyped
      <4>3. bizFlow' = [f EXCEPT !.pin = p] /\ current # NoPool /\ retired' = retired
        BY <3>1, <4>1 DEF BeginFlow, runtimeVars
      <4>4. bizFlow' \in Flows /\ bizFlow'.pin = p
        BY <4>2, <4>3 DEF Flows
      <4> QED BY <1>1, <2>1, <4>1, <4>3, <4>4 DEF FlowFinds
    <3>2. CASE EndFlow
      BY <1>1, <2>1, <3>2, LifecycleConstants DEF EndFlow, FlowFinds
    <3>3. ASSUME NEW p \in retired, DrainRetired(p) PROVE bizFlow' \in Flows /\ FlowFinds'
      <4>1. /\ retired' = retired \ {p}
            /\ bizFlow' = IF bizFlow.pin = p THEN [bizFlow EXCEPT !.cut = TRUE] ELSE bizFlow
        BY <3>3 DEF DrainRetired
      <4>2. /\ bizFlow' \in Flows /\ bizFlow'.pin = bizFlow.pin
            /\ (bizFlow.pin = p => bizFlow'.cut = TRUE) /\ (bizFlow.pin # p => bizFlow'.cut = bizFlow.cut)
        BY <1>1, <4>1 DEF LifecycleTyped, Flows
      <4> QED BY <1>1, <2>1, <4>1, <4>2 DEF FlowFinds
    <3> QED BY <1>3, <3>1, <3>2, <3>3
  <2>3. LifecycleTyped'
    BY <1>1, <2>1, <2>2 DEF LifecycleTyped
  <2>4. Calm => Calm'
    BY <2>1 DEF Calm
  <2> QED BY <2>1, <2>2, <2>3, <2>4 DEF LifecycleInv
<1> QED BY <1>2, <1>3

\* Another pod's write changes the row alone, and leaves the pod apart.
LEMMA OtherPodsWrite ==
  ASSUME LifecycleInv, OtherPodWrites
  PROVE  LifecycleInv'
<1>1. LifecycleTyped /\ FlowFinds /\ registry \in Rows /\ registry.ver \in Versions /\ registry.conf \in Versions
  BY DEF LifecycleInv, LifecycleTyped, Rows
<1>2. /\ UNCHANGED <<current, retired, metadata, builds, registered, op, bizFlow>>
      /\ apart' = TRUE /\ unsettled' = (unsettled \/ \E b \in Admins : op[b].pc # "idle")
  BY DEF OtherPodWrites, runtimeVars
<1>3. registry' \in Rows
  <2>1. Other(registry.ver) \in Versions /\ Other(registry.conf) \in Versions
    BY <1>1, OtherVersion
  <2>2. \/ \E s \in {"enabled", "disabled", "error"} : registry' = [registry EXCEPT !.status = s]
        \/ registry' = [registry EXCEPT !.conf = Other(registry.conf)]
        \/ registry' = [registry EXCEPT !.ver = Other(registry.ver)]
        \/ registry' = NoRow
    BY DEF OtherPodWrites
  <2>3. ASSUME NEW s \in {"enabled", "disabled", "error"}, registry' = [registry EXCEPT !.status = s]
        PROVE  registry' \in Rows
    BY <1>1, <2>3, RowChanged
  <2>4. CASE registry' = [registry EXCEPT !.conf = Other(registry.conf)]
    BY <1>1, <2>1, <2>4, RowChanged
  <2>5. CASE registry' = [registry EXCEPT !.ver = Other(registry.ver)]
    BY <1>1, <2>1, <2>5, RowChanged
  <2> QED BY <2>2, <2>3, <2>4, <2>5, LifecycleConstants
<1>4. LifecycleTyped' /\ FlowFinds'
  BY <1>1, <1>2, <1>3 DEF LifecycleTyped, FlowFinds
<1>5. ASSUME ~unsettled' PROVE Calm'
  BY <1>2, <1>5 DEF Calm, Follows
<1> QED BY <1>4, <1>5 DEF LifecycleInv

LEMMA ServerRestarts ==
  ASSUME LifecycleInv, Restart
  PROVE  LifecycleInv'
<1>1. LifecycleTyped /\ registry \in Rows /\ builds \in Nat /\ registry.ver \in Versions /\ registry.conf \in Versions
  BY DEF LifecycleInv, LifecycleTyped, Rows
<1>2. /\ bizFlow' = NoFlow /\ op' = [a \in Admins |-> NoOp]
      /\ builds' = (IF current' = NoPool THEN builds ELSE builds + 1)
      /\ metadata' = (current' # NoPool)
      /\ registered' = IF current' = NoPool THEN NoHooks ELSE HooksOf(registry.ver)
  BY DEF Restart
<1>3. op' \in [Admins -> Ops] /\ \A a \in Admins : op'[a].pc = "idle"
  BY <1>2, LifecycleConstants
<1>31. PICK b : b = builds + 1
  OBVIOUS
<1>4. PICK p : p = [build |-> b, ver |-> registry.ver, conf |-> registry.conf]
  OBVIOUS
<1>5. b \in Nat /\ p \in Pools /\ p.ver = registry.ver /\ p.conf = registry.conf /\ p # NoPool
  <2>1. b \in Nat
    BY <1>1, <1>31
  <2>2. PICK v \in Versions, c \in Versions : v = registry.ver /\ c = registry.conf
    BY <1>1
  <2>3. p = [build |-> b, ver |-> v, conf |-> c]
    BY <1>4, <2>2
  <2>4. p \in Pools /\ p.ver = v /\ p.conf = c /\ p # NoPool
    BY <2>1, <2>3, BuiltPool
  <2> QED BY <2>1, <2>2, <2>4
<1>6. \/ current' = p /\ registry' = registry /\ unsettled' = FALSE /\ registry.status = "enabled"
      \/ current' = p /\ SetStatus("enabled") /\ unsettled' = FALSE /\ registry.status = "error"
      \/ current' = NoPool /\ SetStatus("error") /\ unsettled' = FALSE /\ registry.status = "enabled"
      \/ current' = NoPool /\ registry' = registry /\ unsettled' = FALSE /\ registry.status # "enabled"
      \/ (current' = p \/ current' = NoPool) /\ registry' = registry /\ unsettled' = TRUE
  <2>1. FreshPool = p
    BY <1>31, <1>4 DEF FreshPool
  <2> QED BY <2>1 DEF Restart, LoadEnabled, RecoverError, LoadNone
<1>7. registry' \in Rows /\ registry'.ver = registry.ver /\ registry'.conf = registry.conf
  <2>1. registry' = registry \/ SetStatus("enabled") \/ SetStatus("error")
    BY <1>6
  <2> QED BY <1>1, <2>1, StatusSet
<1>8. current' \in Pools /\ builds' \in Nat
  BY <1>1, <1>2, <1>5, <1>6, LifecycleConstants
<1>9. LifecycleTyped'
  BY <1>2, <1>3, <1>7, <1>8, LifecycleConstants DEF LifecycleTyped
<1>10. FlowFinds'
  BY <1>2, LifecycleConstants DEF FlowFinds
<1>11. ASSUME ~unsettled' PROVE Follows(apart', registry', current', metadata', registered')
  <2>1. CASE current' = p /\ registry'.status = "enabled"
    BY <1>2, <1>5, <1>7, <2>1 DEF Follows
  <2>2. CASE current' = NoPool /\ registry'.status # "enabled"
    BY <1>2, <2>2 DEF Follows
  <2>3. /\ SetStatus("enabled") /\ registry.status # "none" => registry'.status = "enabled"
        /\ SetStatus("error") /\ registry.status # "none" => registry'.status = "error"
    BY <1>1, StatusSet
  <2> QED BY <1>6, <1>11, <2>1, <2>2, <2>3
<1> QED BY <1>3, <1>9, <1>10, <1>11 DEF LifecycleInv, Calm

LEMMA LifecycleStarts == ASSUME LifecycleInit PROVE LifecycleInv
<1>1. /\ bizFlow = NoFlow /\ op = [a \in Admins |-> NoOp] /\ (metadata <=> current # NoPool)
      /\ registered = IF current = NoPool THEN NoHooks ELSE HooksOf(1)
  BY DEF LifecycleInit
<1>2. op \in [Admins -> Ops] /\ \A a \in Admins : op[a].pc = "idle"
  BY <1>1, LifecycleConstants
<1>3. FlowFinds
  BY <1>1, LifecycleConstants DEF FlowFinds
<1>4. /\ registry \in Rows /\ current \in Pools /\ builds \in Nat
      /\ Follows(apart, registry, current, metadata, registered)
  <2>1. CASE registry = NoRow /\ current = NoPool /\ builds = 0
    BY <1>1, <2>1, LifecycleConstants DEF Follows
  <2>2. CASE /\ registry = [NoRow EXCEPT !.status = "enabled"]
             /\ current = [build |-> 1, ver |-> 1, conf |-> 1] /\ builds = 1
    <3>1. registry \in Rows /\ registry.status = "enabled" /\ registry.ver = 1 /\ registry.conf = 1
      BY <2>2, LifecycleConstants, RowChanged
    <3>2. PICK b, v : b = 1 /\ v = 1
      OBVIOUS
    <3>3. current = [build |-> b, ver |-> v, conf |-> v] /\ b \in Nat /\ v \in Versions
      BY <2>2, <3>2 DEF Versions
    <3>4. current \in Pools /\ current.ver = v /\ current.conf = v /\ current # NoPool
      BY <3>3, BuiltPool
    <3> QED BY <1>1, <2>2, <3>1, <3>2, <3>4 DEF Follows
  <2> QED BY <2>1, <2>2 DEF LifecycleInit
<1> QED BY <1>1, <1>2, <1>3, <1>4, LifecycleConstants DEF LifecycleInv, LifecycleTyped, Calm

\* One plugin's life in one pod, for any number of administrators, operations, faults,
\* restarts and writes of other pods: the runtime follows the registry whenever operations
\* did not overlap, no failure is left as it is and the pod has caught up with what the
\* others wrote, and a flow keeps the version it began with.
THEOREM PluginsStaySafe == LifecycleSpec => []PluginsSafe
<1>1. LifecycleInit => LifecycleInv
  BY LifecycleStarts
<1>2. LifecycleInv /\ [LifecycleNext]_lifecycleVars => LifecycleInv'
  <2> SUFFICES ASSUME LifecycleInv, [LifecycleNext]_lifecycleVars PROVE LifecycleInv'
    OBVIOUS
  <2>1. ASSUME NEW a \in Admins, OperationStep(a) PROVE LifecycleInv'
    <3>1. CASE Enable(a) \/ Disable(a) \/ Uninstall(a) \/ UpdateConfig(a) \/ HotReload(a)
      BY <3>1, RequestsBegin
    <3>2. CASE EnableLoad(a) \/ RegisterHooks(a) \/ PersistEnabled(a)
      BY <3>2, EnableSteps
    <3>3. CASE UnregisterHooks(a) \/ UnloadPlugin(a) \/ PersistDisabled(a) \/ Delete(a)
      BY <3>3, DisableSteps
    <3>4. CASE PersistConfig(a) \/ ReloadWithConfig(a) \/ SwapConfigHooks(a) \/ RestoreConfig(a)
      BY <3>4, ConfigSteps
    <3>5. CASE \/ LoadNew(a) \/ SwapNewHooks(a) \/ UpdatePlugin(a) \/ SwapBackHooks(a)
               \/ LoadOld(a) \/ MarkError(a)
      BY <3>5, ReloadSteps
    <3>6. CASE DetachPool(a)
      BY <3>6, PoolDetached
    <3> QED BY <2>1, <3>1, <3>2, <3>3, <3>4, <3>5, <3>6, Zenon DEF OperationStep
  <2>2. CASE Install \/ BeginFlow \/ EndFlow \/ \E p \in retired : DrainRetired(p)
    BY <2>2, BesideOperations
  <2>3. CASE Restart
    BY <2>3, ServerRestarts
  <2>5. CASE OtherPodWrites
    BY <2>5, OtherPodsWrite
  <2>4. CASE UNCHANGED lifecycleVars
    BY <2>4 DEF lifecycleVars, LifecycleInv, LifecycleTyped, FlowFinds, Calm
  <2> QED BY <2>1, <2>2, <2>3, <2>4, <2>5, Zenon DEF LifecycleNext
<1>3. LifecycleInv => PluginsSafe
  <2> SUFFICES ASSUME LifecycleInv PROVE PluginsSafe
    OBVIOUS
  <2>1. FlowKeepsVersion
    BY DEF LifecycleInv, FlowFinds, FlowKeepsVersion, ResolvePool
  <2>2. RuntimeFollowsRegistry
    <3>1. ASSUME \A a \in Admins : op[a].pc = "idle", ~unsettled, ~apart
          PROVE  Follows(apart, registry, current, metadata, registered)
      BY <3>1 DEF LifecycleInv, Calm
    <3> QED BY <3>1 DEF RuntimeFollowsRegistry, On, Follows
  <2> QED BY <2>1, <2>2 DEF PluginsSafe
<1> QED BY <1>1, <1>2, <1>3, PTL DEF LifecycleSpec
=============================================================================
