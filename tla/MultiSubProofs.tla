---------------------------- MODULE MultiSubProofs ----------------------------
(***************************************************************************)
(* Proofs about MultiSub, for every value of its constants: any number of  *)
(* pods, bindings and faults; and about the family groups whose bindings   *)
(* it provisions (FamilyGroups).                                           *)
(***************************************************************************)
EXTENDS MultiSub, FamilyGroups, WellFoundedInduction, FiniteSetTheorems, TLAPS

-----------------------------------------------------------------------------
(* The inductive invariant.                                                  *)

Statuses == {"none", "pending", "active", "limited", "disabled", "failed",
             "reconciling", "deprovisioned"}
RowSet == [st : Statuses, uuid : BOOLEAN]
Users == {"none", "enabled", "disabled", "limited", "deleted"}
Events == {"activated", "cancelled", "paused", "resumed"}
Work == Events \cup {"none", "reconcile", "sync"}
Labels == {"idle", "read", "guard", "create", "user", "failure", "persist", "compensate",
           "pending", "mark", "list", "call", "write", "claim", "get", "fetch"}

StoreTyped ==
    /\ visible \in BOOLEAN
    /\ rows \in [Bindings -> RowSet]
    /\ old \in SUBSET Bindings
    /\ overlap \in SUBSET Bindings
ThreadsTyped ==
    /\ pc \in [Threads -> Labels]
    /\ ev \in [Threads -> Work]
    /\ listed \in [Threads -> SUBSET Bindings]
    /\ todo \in [Threads -> SUBSET Bindings]
    /\ mem \in [Threads -> [Bindings -> RowSet]]
    /\ step \in [Threads -> Nat]
EventsTyped == inbox \in SUBSET Work /\ done \in SUBSET Work
FaultsTyped == budget \in [Kinds -> Nat] /\ upset \in SUBSET Bindings
PanelTyped == panel \in [Bindings -> Users]
MultiSubTypeOK == StoreTyped /\ ThreadsTyped /\ EventsTyped /\ FaultsTyped /\ PanelTyped

\* Where a goroutine stands tells what it works on.
OneBinding == {"user", "failure", "persist", "compensate", "fetch"}
AtWork(t) ==
    /\ pc[t] \in OneBinding => \E b \in Bindings : todo[t] = {b}
    /\ pc[t] \in {"call", "write", "mark"} => todo[t] # {}
    /\ pc[t] = "write" /\ ev[t] = "sync" => \E b \in Bindings : todo[t] = {b}
    /\ pc[t] = "get" => listed[t] # {}
    /\ pc[t] = "idle" => listed[t] = {}
    /\ listed[t] # {} => ev[t] = "sync"
    /\ pc[t] \in {"get", "fetch"} => ev[t] = "sync"
    /\ pc[t] \in {"list", "pending", "mark"} => ev[t] = "cancelled"
    /\ pc[t] = "claim" => ev[t] = "reconcile"
    /\ pc[t] = "call" => ev[t] \in {"cancelled", "paused", "resumed", "reconcile"}
    /\ pc[t] = "write" => ev[t] \in {"cancelled", "paused", "resumed", "reconcile", "sync"}
ThreadsAtWork == \A t \in Threads : AtWork(t)

\* Rows are never deleted: what a goroutine holds or has listed is a row.
RowsStay ==
    /\ \A b \in Bindings : rows[b].st = "none" => panel[b] = "none"
    /\ \A t \in Threads : \A b \in todo[t] : rows[b].st # "none" /\ mem[t][b].st # "none"
    /\ \A t \in Threads : \A b \in listed[t] : rows[b].st # "none"

\* Until its user is created, a binding has no user, and nobody's copy of it
\* leads to a call of the panel.
Raw(r) == r.st \in {"pending", "failed"} /\ ~r.uuid
Unborn(t, b) ==
    /\ panel[b] = "none"
    /\ Raw(rows[b])
    /\ \A u \in Threads \ {t} : b \in todo[u] => pc[u] \in {"mark", "fetch"} /\ Raw(mem[u][b])
UsersUnborn == \A t \in Threads : pc[t] = "user" => \A b \in todo[t] : Unborn(t, b)

\* A copy is marked deprovisioned after the user is gone, so that whoever writes
\* it, and whenever, writes what is true.
CopiesGone ==
    \A t \in Threads : \A b \in todo[t] :
        mem[t][b].st = "deprovisioned" => panel[b] = "deleted"

\* A user is known to its row or to the goroutine that is creating it, and a copy
\* that would take it from the row is stale, or the user is gone.
Bearing == {"persist", "compensate"}
Borne(b) == \E t \in Threads : pc[t] \in Bearing /\ b \in todo[t]
UsersKnown ==
    \A b \in Bindings \ (overlap \cup upset) : OnPanel(b) => rows[b].uuid \/ Borne(b)
CopiesKnow ==
    \A t \in Threads : \A b \in todo[t] :
        /\ pc[t] \in Bearing => mem[t][b].uuid
        /\ b \notin overlap \cup upset /\ ~mem[t][b].uuid
           => ~rows[b].uuid \/ panel[b] = "deleted"

BindInv ==
    /\ RowsStay
    /\ UsersUnborn
    /\ DeprovisionedIsGone
    /\ CopiesGone
    /\ UsersKnown
    /\ CopiesKnow

MultiSubInv == MultiSubTypeOK /\ ThreadsAtWork /\ BindInv

-----------------------------------------------------------------------------
(* Operators.                                                                *)

LEMMA BindingsAreNat == Bindings \subseteq Nat
  BY MultiSubAssumption DEF Bindings

\* The least element of a set of bindings is one of them.
LEMMA MinOf ==
    ASSUME NEW S \in SUBSET Bindings, S # {}
    PROVE  Min(S) \in S
<1>1. S \in SUBSET Nat
  BY BindingsAreNat
<1> DEFINE R == OpToRel(<, Nat)
<1>2. IsWellFoundedOn(R, Nat)
  BY NatLessThanWellFounded
<1>3. \A x, y \in Nat : <<y, x>> \in R <=> y < x
  BY DEF OpToRel
<1> HIDE DEF R
<1>4. PICK n \in S : \A m \in S : ~(<<m, n>> \in R)
  BY <1>1, <1>2, WFMin
<1>5. \A m \in S : n <= m
  <2> TAKE m \in S
  <2>1. n \in Nat /\ m \in Nat /\ ~(m < n)
    BY <1>1, <1>3, <1>4
  <2> QED
    BY <2>1
<1> QED
  BY <1>5 DEF Min

LEMMA RowFields ==
    ASSUME NEW st, NEW uuid
    PROVE  /\ Row(st, uuid).st = st
           /\ Row(st, uuid).uuid = uuid
           /\ st \in Statuses /\ uuid \in BOOLEAN => Row(st, uuid) \in RowSet
  BY DEF Row, RowSet

\* transitionTo changes the status at most, and only to the one asked for.
LEMMA TransitionFields ==
    ASSUME NEW r \in RowSet, NEW st \in Statuses
    PROVE  /\ transitionTo(r, st) \in RowSet
           /\ transitionTo(r, st).uuid = r.uuid
           /\ transitionTo(r, st).st \in {r.st, st}
  BY DEF transitionTo, Row, RowSet

LEMMA SyncFields ==
    ASSUME NEW r \in RowSet, NEW user \in {"enabled", "disabled", "limited"}
    PROVE  /\ SyncStatus(r, user) \in RowSet
           /\ SyncStatus(r, user).uuid = r.uuid
           /\ SyncStatus(r, user).st \in {r.st, "active", "disabled"}
<1>1. "active" \in Statuses /\ "disabled" \in Statuses
  BY DEF Statuses
<1>2. SyncStatus(r, user) \in {r, transitionTo(r, "active"), transitionTo(r, "disabled")}
  BY DEF SyncStatus
<1> QED
  BY <1>1, <1>2, TransitionFields

LEMMA SuccessFields ==
    ASSUME NEW r \in RowSet, NEW k \in {"cancelled", "paused", "resumed", "reconcile"}
    PROVE  /\ Success(k, r) \in RowSet
           /\ r.st # "none" => Success(k, r).st # "none"
           /\ Effect(k) \in {"deleted", "disabled", "enabled"}
           /\ Success(k, r).st = "deprovisioned"
              => r.st = "deprovisioned" \/ Effect(k) = "deleted"
           /\ Success(k, r).uuid = r.uuid \/ Effect(k) = "deleted"
<1>1. {"active", "disabled", "deprovisioned", "failed"} \subseteq Statuses
  BY DEF Statuses
<1>2. CASE k = "cancelled"
  BY <1>1, <1>2, TransitionFields DEF Success, Effect
<1>3. CASE k = "paused"
  BY <1>1, <1>3, TransitionFields DEF Success, Effect
<1>4. CASE k = "resumed"
  BY <1>1, <1>4, TransitionFields DEF Success, Effect
<1>5. CASE k = "reconcile"
  <2>1. Success(k, r) = Row("failed", FALSE) /\ Effect(k) = "deleted"
    BY <1>5 DEF Success, Effect
  <2>2. Row("failed", FALSE) \in RowSet /\ Row("failed", FALSE).st = "failed"
    BY <1>1, RowFields
  <2> QED BY <2>1, <2>2
<1> QED
  BY <1>2, <1>3, <1>4, <1>5

-----------------------------------------------------------------------------
(* What the steps a handler is made of do to the goroutines and the store.   *)

Others(t) ==
    \A u \in Threads \ {t} :
        /\ pc'[u] = pc[u] /\ ev'[u] = ev[u] /\ listed'[u] = listed[u]
        /\ todo'[u] = todo[u] /\ mem'[u] = mem[u] /\ step'[u] = step[u]

\* Only t's own state changes, and it is a goroutine's state.
Own(t) == ThreadsTyped' /\ EventsTyped' /\ Others(t)

\* t has returned.
Ended(t) ==
    /\ Own(t)
    /\ pc'[t] = "idle" /\ ev'[t] = "none" /\ listed'[t] = {} /\ todo'[t] = {}

Resting(t) == ev'[t] = ev[t] /\ listed'[t] = listed[t]

LEMMA IdleFacts ==
    ASSUME MultiSubTypeOK, NEW t \in Threads, Idle(t)
    PROVE  /\ ThreadsTyped' /\ Others(t)
           /\ pc'[t] = "idle" /\ ev'[t] = "none" /\ listed'[t] = {} /\ todo'[t] = {}
<1>1. NoRow \in RowSet
  BY DEF NoRow, Row, RowSet, Statuses
<1>2. "idle" \in Labels /\ "none" \in Work
  BY DEF Labels, Work
<1>3. ThreadsTyped
  BY DEF MultiSubTypeOK
<1> QED
  BY <1>1, <1>2, <1>3 DEF Idle, ThreadsTyped, Others

LEMMA EndedFacts ==
    ASSUME MultiSubTypeOK, NEW t \in Threads, Return(t) \/ ReturnError(t)
    PROVE  Ended(t)
<1>1. Idle(t)
  BY DEF Return, ReturnError
<1>2. ev[t] \in Work /\ inbox \subseteq Work /\ done \subseteq Work
  BY DEF MultiSubTypeOK, ThreadsTyped, EventsTyped
<1>3. inbox' \subseteq Work /\ done' \subseteq Work
  BY <1>2 DEF Return, ReturnError
<1> QED
  BY <1>1, <1>3, IdleFacts DEF Ended, Own, EventsTyped

LEMMA HoldFacts ==
    ASSUME MultiSubTypeOK, NEW t \in Threads, NEW S \in SUBSET Bindings,
           NEW new \in [Bindings -> RowSet], NEW l \in Labels, Hold(t, S, new, l)
    PROVE  Own(t) /\ Resting(t) /\ pc'[t] = l /\ todo'[t] = S /\ mem'[t] = new
  BY DEF MultiSubTypeOK, ThreadsTyped, EventsTyped, Hold, Own, Others, Resting

LEMMA GotoFacts ==
    ASSUME MultiSubTypeOK, NEW t \in Threads, NEW l \in Labels, Goto(t, l)
    PROVE  /\ Own(t) /\ Resting(t) /\ pc'[t] = l
           /\ todo'[t] = todo[t] /\ mem'[t] = mem[t]
  BY DEF MultiSubTypeOK, ThreadsTyped, EventsTyped, Goto, Own, Others, Resting

\* The loop goes on after b, or has ended.
LoopsOn(t, b, l) ==
    /\ Own(t) /\ Resting(t)
    /\ pc'[t] = IF listed[t] = {} THEN l ELSE "get"
    /\ listed[t] = {} => todo'[t] # {}
    /\ todo'[t] = todo[t] \ {b} /\ mem'[t] = mem[t]

LEMMA FinishedFacts ==
    ASSUME MultiSubTypeOK, NEW t \in Threads, NEW b, NEW l \in Labels, Finished(t, b, l)
    PROVE  Ended(t) \/ LoopsOn(t, b, l)
<1>1. CASE todo[t] \subseteq {b} /\ listed[t] = {}
  BY <1>1, EndedFacts DEF Finished
<1>2. CASE ~(todo[t] \subseteq {b} /\ listed[t] = {})
  <2>1. /\ pc' = [pc EXCEPT ![t] = IF listed[t] = {} THEN l ELSE "get"]
        /\ todo' = [todo EXCEPT ![t] = @ \ {b}]
        /\ UNCHANGED <<ev, listed, mem, step, inbox, done>>
    BY <1>2 DEF Finished
  <2>2. "get" \in Labels
    BY DEF Labels
  <2>3. ThreadsTyped /\ EventsTyped
    BY DEF MultiSubTypeOK
  <2>4. ThreadsTyped' /\ EventsTyped' /\ Others(t)
    BY <2>1, <2>2, <2>3 DEF ThreadsTyped, EventsTyped, Others
  <2>5. /\ pc'[t] = IF listed[t] = {} THEN l ELSE "get"
        /\ todo'[t] = todo[t] \ {b} /\ mem'[t] = mem[t] /\ Resting(t)
    BY <2>1, <2>3 DEF ThreadsTyped, Resting
  <2> QED
    BY <1>2, <2>4, <2>5 DEF LoopsOn, Own
<1> QED
  BY <1>1, <1>2

LEMMA WriteRowsFacts ==
    ASSUME MultiSubTypeOK, NEW t \in Threads, NEW S \in SUBSET Bindings,
           NEW new \in [Bindings -> RowSet], WriteRows(t, S, new)
    PROVE  /\ StoreTyped'
           /\ rows' = new
           /\ overlap \subseteq overlap'
           /\ \A b \in S : \A u \in Threads \ {t} : b \in todo[u] => b \in overlap'
  BY DEF MultiSubTypeOK, StoreTyped, WriteRows

LEMMA UpdateFacts ==
    ASSUME MultiSubTypeOK, NEW t \in Threads, NEW b \in Bindings, Update(t, b)
    PROVE  /\ StoreTyped'
           /\ rows'[b] = mem[t][b]
           /\ \A c \in Bindings \ {b} : rows'[c] = rows[c]
           /\ overlap \subseteq overlap'
           /\ \A u \in Threads \ {t} : b \in todo[u] => b \in overlap'
<1>1. rows \in [Bindings -> RowSet] /\ mem[t][b] \in RowSet
  BY DEF MultiSubTypeOK, StoreTyped, ThreadsTyped
<1> DEFINE new == [rows EXCEPT ![b] = mem[t][b]]
<1>2. /\ new \in [Bindings -> RowSet]
      /\ new[b] = mem[t][b]
      /\ \A c \in Bindings \ {b} : new[c] = rows[c]
  BY <1>1
<1>3. WriteRows(t, {b}, new)
  BY DEF Update
<1> HIDE DEF new
<1> QED
  BY <1>2, <1>3, WriteRowsFacts

LEMMA SpendFacts ==
    ASSUME MultiSubTypeOK, NEW k \in Kinds, NEW S \in SUBSET Bindings, Spend(k, S)
    PROVE  FaultsTyped' /\ upset \subseteq upset' /\ S \subseteq upset'
  BY DEF MultiSubTypeOK, FaultsTyped, Spend

LEMMA NoFaultFacts ==
    ASSUME MultiSubTypeOK, NoFault
    PROVE  FaultsTyped' /\ upset' = upset
  BY DEF MultiSubTypeOK, FaultsTyped, NoFault

\* A call without a fault, or one that meets a fault of kind k.
LEMMA FaultFacts ==
    ASSUME MultiSubTypeOK, NEW k \in Kinds, NEW S \in SUBSET Bindings,
           NoFault \/ Spend(k, S)
    PROVE  FaultsTyped' /\ upset \subseteq upset'
  BY SpendFacts, NoFaultFacts

LEMMA StoreFrame ==
    ASSUME MultiSubTypeOK, UNCHANGED dbVars
    PROVE  StoreTyped' /\ rows' = rows /\ overlap' = overlap
  BY DEF MultiSubTypeOK, StoreTyped, dbVars

\* The binding a goroutine works on is one it holds.
LEMMA CurHeld ==
    ASSUME MultiSubTypeOK, NEW t \in Threads, todo[t] # {}
    PROVE  Cur(t) \in todo[t] /\ Cur(t) \in Bindings
  BY MinOf DEF MultiSubTypeOK, ThreadsTyped, Cur

\* Control: the goroutines that do not move stand where they stood.
LEMMA AtWorkStep ==
    ASSUME ThreadsAtWork, NEW t \in Threads, Others(t), AtWork(t)'
    PROVE  ThreadsAtWork'
  BY DEF ThreadsAtWork, Others, AtWork

LEMMA EndedAtWork ==
    ASSUME ThreadsAtWork, NEW t \in Threads, Ended(t)
    PROVE  ThreadsAtWork'
<1>1. AtWork(t)'
  BY DEF Ended, AtWork, OneBinding
<1> QED
  BY <1>1, AtWorkStep DEF Ended, Own

-----------------------------------------------------------------------------
(* Steps that call nothing and write at most the status of claims.           *)

\* The claims change between failed and reconciling, whatever is still unborn.
RowKept(b) ==
    /\ rows'[b].uuid = rows[b].uuid
    /\ \/ rows'[b].st = rows[b].st
       \/ /\ ~Raw(rows[b])
          /\ rows[b].st \in {"failed", "reconciling"}
          /\ rows'[b].st \in {"failed", "reconciling"}
Quiet ==
    /\ panel' = panel
    /\ \A b \in Bindings : RowKept(b)
    /\ overlap \subseteq overlap'
    /\ upset \subseteq upset'

\* A copy that t may hold after the step.
GoodCopy(t, b) ==
    /\ rows[b].st # "none"
    /\ mem'[t][b].st # "none"
    /\ mem'[t][b].st = "deprovisioned" => panel[b] = "deleted"
    /\ ~mem'[t][b].uuid
       => ~rows[b].uuid \/ panel[b] = "deleted" \/ b \in overlap' \cup upset'
    /\ Raw(rows[b]) /\ panel[b] = "none" /\ pc'[t] \notin Bearing
       => \/ pc'[t] \in {"mark", "fetch"} /\ Raw(mem'[t][b])
          \/ \A u \in Threads \ {t} : ~(pc[u] = "user" /\ b \in todo[u])

\* A goroutine that bears a user goes on bearing it, or the binding is upset.
StillBearing(t) ==
    /\ pc[t] \in Bearing
       => \/ pc'[t] \in Bearing /\ todo'[t] = todo[t] /\ mem'[t] = mem[t]
          \/ todo[t] \subseteq upset'
    /\ pc'[t] \in Bearing => pc[t] \in Bearing /\ todo'[t] = todo[t] /\ mem'[t] = mem[t]

LEMMA QuietStep ==
    ASSUME MultiSubTypeOK, BindInv, Quiet, NEW t \in Threads, Own(t),
           pc'[t] # "user", StillBearing(t),
           \A b \in todo'[t] : GoodCopy(t, b),
           \A b \in listed'[t] : rows[b].st # "none"
    PROVE  BindInv'
<1>0. /\ \A u \in Threads : todo[u] \subseteq Bindings /\ listed[u] \subseteq Bindings
      /\ \A u \in Threads : todo'[u] \subseteq Bindings /\ listed'[u] \subseteq Bindings
  BY DEF MultiSubTypeOK, ThreadsTyped, Own
<1>1. \A b \in Bindings : /\ rows'[b].uuid = rows[b].uuid
                          /\ rows'[b].st = "none" <=> rows[b].st = "none"
                          /\ rows'[b].st = "deprovisioned" <=> rows[b].st = "deprovisioned"
                          /\ Raw(rows[b]) => Raw(rows'[b])
                          /\ panel'[b] = panel[b]
  BY DEF Quiet, RowKept, Raw
<1>2. /\ pc'[t] # "user"
      /\ \A u \in Threads \ {t} : /\ pc'[u] = pc[u] /\ listed'[u] = listed[u]
                                  /\ todo'[u] = todo[u] /\ mem'[u] = mem[u]
  BY DEF Own, Others
<1>3. RowsStay'
  BY <1>0, <1>1, <1>2 DEF BindInv, RowsStay, GoodCopy
<1>4. DeprovisionedIsGone'
  BY <1>1 DEF BindInv, DeprovisionedIsGone
<1>5. CopiesGone'
  BY <1>0, <1>1, <1>2 DEF BindInv, CopiesGone, GoodCopy
<1>6. UsersUnborn'
  <2> SUFFICES ASSUME NEW u \in Threads, pc'[u] = "user", NEW b \in todo'[u]
               PROVE  Unborn(u, b)'
    BY DEF UsersUnborn
  <2>1. u # t /\ pc[u] = "user" /\ b \in todo[u] /\ b \in Bindings
    BY <1>0, <1>2
  <2>2. Unborn(u, b)
    BY <2>1 DEF BindInv, UsersUnborn
  <2>3. panel'[b] = "none" /\ Raw(rows'[b])
    BY <1>1, <2>1, <2>2 DEF Unborn
  <2>4. ASSUME NEW v \in Threads \ {u}, b \in todo'[v]
        PROVE  pc'[v] \in {"mark", "fetch"} /\ Raw(mem'[v][b])
    <3>1. CASE v # t
      BY <1>2, <2>2, <2>4, <3>1 DEF Unborn
    <3>2. CASE v = t
      <4>1. GoodCopy(t, b)
        BY <2>4, <3>2
      <4>2. pc'[t] \notin Bearing
        BY <2>1, <2>2, <2>4, <3>2 DEF StillBearing, Unborn, Bearing
      <4> QED
        BY <2>1, <2>2, <3>2, <4>1, <4>2 DEF GoodCopy, Unborn
    <3> QED
      BY <3>1, <3>2
  <2> QED
    BY <2>3, <2>4 DEF Unborn
<1>7. UsersKnown'
  <2> SUFFICES ASSUME NEW b \in Bindings, b \notin overlap' \cup upset', OnPanel(b)'
               PROVE  rows'[b].uuid \/ Borne(b)'
    BY DEF UsersKnown
  <2>1. b \notin overlap \cup upset /\ OnPanel(b)
    BY <1>1 DEF Quiet, OnPanel
  <2>2. rows[b].uuid \/ Borne(b)
    BY <2>1 DEF BindInv, UsersKnown
  <2>3. CASE Borne(b)
    <3>1. PICK u \in Threads : pc[u] \in Bearing /\ b \in todo[u]
      BY <2>3 DEF Borne
    <3>2. pc'[u] \in Bearing /\ b \in todo'[u]
      BY <1>2, <3>1 DEF StillBearing
    <3> QED
      BY <3>2 DEF Borne
  <2> QED
    BY <1>1, <2>2, <2>3
<1>8. CopiesKnow'
  <2> SUFFICES ASSUME NEW u \in Threads, NEW b \in todo'[u]
               PROVE  /\ pc'[u] \in Bearing => mem'[u][b].uuid
                      /\ b \notin overlap' \cup upset' /\ ~mem'[u][b].uuid
                         => ~rows'[b].uuid \/ panel'[b] = "deleted"
    BY DEF CopiesKnow
  <2>0. b \in Bindings
    BY <1>0
  <2>1. CASE u # t
    BY <1>1, <1>2, <2>0, <2>1 DEF BindInv, CopiesKnow, Quiet
  <2>2. CASE u = t
    <3>1. GoodCopy(t, b)
      BY <2>2
    <3>2. pc'[t] \in Bearing => mem'[t][b].uuid
      BY <2>2 DEF BindInv, CopiesKnow, StillBearing
    <3> QED
      BY <1>1, <2>0, <2>2, <3>1, <3>2 DEF GoodCopy
  <2> QED
    BY <2>1, <2>2
<1> QED
  BY <1>3, <1>4, <1>5, <1>6, <1>7, <1>8 DEF BindInv

\* Rows and panel stay, t drops bindings or all it holds.
LEMMA DropStep ==
    ASSUME MultiSubTypeOK, BindInv, NEW t \in Threads, Own(t),
           rows' = rows, panel' = panel, overlap' = overlap, upset \subseteq upset',
           pc'[t] # "user", StillBearing(t),
           listed'[t] \subseteq listed[t],
           todo'[t] = {} \/ /\ todo'[t] \subseteq todo[t]
                            /\ mem'[t] = mem[t]
                            /\ pc[t] \in {"mark", "fetch"} => pc'[t] \in {"mark", "fetch"}
    PROVE  BindInv'
<1>1. Quiet
  BY DEF Quiet, RowKept
<1>2. ASSUME NEW b \in todo'[t]
      PROVE  GoodCopy(t, b)
  <2>1. b \in todo[t] /\ mem'[t] = mem[t]
    BY <1>2
  <2>2. ASSUME NEW u \in Threads \ {t}, pc[u] = "user", b \in todo[u]
        PROVE  pc'[t] \in {"mark", "fetch"} /\ Raw(mem'[t][b])
    <3>1. Unborn(u, b)
      BY <2>2 DEF BindInv, UsersUnborn
    <3> QED
      BY <1>2, <2>1, <3>1 DEF Unborn
  <2> QED
    BY <2>1, <2>2 DEF GoodCopy, BindInv, RowsStay, CopiesGone, CopiesKnow
<1>3. \A b \in listed'[t] : rows[b].st # "none"
  BY DEF BindInv, RowsStay
<1> QED
  BY <1>1, <1>2, <1>3, QuietStep

\* t returns without having written anything, and bears no user.
LEMMA EndStep ==
    ASSUME MultiSubTypeOK, BindInv, NEW t \in Threads, Ended(t),
           rows' = rows, panel' = panel, overlap' = overlap, upset \subseteq upset',
           pc[t] \notin Bearing
    PROVE  BindInv'
<1>1. StillBearing(t)
  BY DEF StillBearing, Ended, Bearing
<1> QED
  BY <1>1, DropStep DEF Ended

-----------------------------------------------------------------------------
(* Update: t writes its copy of b over the row and lets go of b.             *)

LEMMA UpdateStep ==
    ASSUME MultiSubTypeOK, BindInv, NEW t \in Threads, Own(t),
           NEW b \in Bindings, b \in todo[t], Update(t, b),
           panel' = panel, upset \subseteq upset',
           pc[t] # "user", pc[t] \in Bearing => todo[t] = {b},
           pc'[t] # "user", pc'[t] \notin Bearing,
           listed'[t] \subseteq listed[t],
           todo'[t] = {} \/ /\ todo'[t] = todo[t] \ {b}
                            /\ mem'[t] = mem[t]
                            /\ pc[t] = "mark" => pc'[t] = "mark"
                            /\ pc[t] # "fetch"
    PROVE  BindInv'
<1>0. /\ \A u \in Threads : todo[u] \subseteq Bindings /\ listed[u] \subseteq Bindings
      /\ \A u \in Threads : todo'[u] \subseteq Bindings /\ listed'[u] \subseteq Bindings
  BY DEF MultiSubTypeOK, ThreadsTyped, Own
<1>1. /\ rows'[b] = mem[t][b]
      /\ \A c \in Bindings \ {b} : rows'[c] = rows[c]
      /\ overlap \subseteq overlap'
      /\ \A u \in Threads \ {t} : b \in todo[u] => b \in overlap'
  BY UpdateFacts
<1>2. \A u \in Threads \ {t} : /\ pc'[u] = pc[u] /\ listed'[u] = listed[u]
                               /\ todo'[u] = todo[u] /\ mem'[u] = mem[u]
  BY DEF Own, Others
<1>3. \A c \in todo'[t] : c \in todo[t] /\ c # b /\ mem'[t] = mem[t]
  OBVIOUS
<1>4. rows[b].st # "none" /\ rows'[b].st # "none"
  BY <1>1 DEF BindInv, RowsStay
<1>5. RowsStay'
  <2>1. \A c \in Bindings : rows'[c].st = "none" => rows[c].st = "none"
    BY <1>1, <1>4
  <2>2. \A c \in Bindings : rows'[c].st = "none" => panel'[c] = "none"
    BY <2>1 DEF BindInv, RowsStay
  <2>3. \A u \in Threads : \A c \in todo'[u] : rows[c].st # "none" /\ mem'[u][c].st # "none"
    BY <1>2, <1>3 DEF BindInv, RowsStay
  <2>4. \A u \in Threads : \A c \in listed'[u] : rows[c].st # "none"
    BY <1>2 DEF BindInv, RowsStay
  <2> QED
    BY <1>0, <2>1, <2>2, <2>3, <2>4 DEF RowsStay
<1>6. DeprovisionedIsGone'
  BY <1>1 DEF BindInv, DeprovisionedIsGone, CopiesGone
<1>7. CopiesGone'
  BY <1>2, <1>3 DEF BindInv, CopiesGone
<1>8. UsersUnborn'
  <2> SUFFICES ASSUME NEW u \in Threads, pc'[u] = "user", NEW c \in todo'[u]
               PROVE  Unborn(u, c)'
    BY DEF UsersUnborn
  <2>1. u # t /\ pc[u] = "user" /\ c \in todo[u] /\ c \in Bindings
    BY <1>0, <1>2
  <2>2. Unborn(u, c)
    BY <2>1 DEF BindInv, UsersUnborn
  <2>3. Raw(rows'[c])
    BY <1>1, <2>1, <2>2 DEF Unborn
  <2>4. ASSUME NEW v \in Threads \ {u}, c \in todo'[v]
        PROVE  pc'[v] \in {"mark", "fetch"} /\ Raw(mem'[v][c])
    <3>1. CASE v # t
      BY <1>2, <2>2, <2>4, <3>1 DEF Unborn
    <3>2. CASE v = t
      <4>1. c \in todo[t] /\ mem'[t] = mem[t]
        BY <1>3, <2>4, <3>2
      <4>2. pc[t] \in {"mark", "fetch"} /\ Raw(mem[t][c])
        BY <2>2, <2>1, <4>1 DEF Unborn
      <4> QED
        BY <2>4, <3>2, <4>1, <4>2
    <3> QED
      BY <3>1, <3>2
  <2> QED
    BY <2>2, <2>3, <2>4 DEF Unborn
<1>9. UsersKnown'
  <2> SUFFICES ASSUME NEW c \in Bindings, c \notin overlap' \cup upset', OnPanel(c)'
               PROVE  rows'[c].uuid \/ Borne(c)'
    BY DEF UsersKnown
  <2>1. c \notin overlap \cup upset /\ OnPanel(c) /\ panel[c] # "deleted"
    BY <1>1 DEF OnPanel
  <2>2. rows[c].uuid \/ Borne(c)
    BY <2>1 DEF BindInv, UsersKnown
  <2>3. ASSUME NEW u \in Threads \ {t}, pc[u] \in Bearing, c \in todo[u]
        PROVE  Borne(c)'
    BY <1>2, <2>3 DEF Borne
  <2>4. CASE c # b
    BY <1>1, <2>2, <2>3, <2>4 DEF Borne
  <2>5. CASE c = b /\ ~mem[t][b].uuid
    <3>1. ~rows[b].uuid /\ pc[t] \notin Bearing
      BY <2>1, <2>5 DEF BindInv, CopiesKnow
    <3>2. PICK u \in Threads : pc[u] \in Bearing /\ b \in todo[u]
      BY <2>2, <2>5, <3>1 DEF Borne
    <3> QED
      BY <1>1, <2>5, <3>1, <3>2
  <2> QED
    BY <1>1, <2>4, <2>5
<1>10. CopiesKnow'
  <2> SUFFICES ASSUME NEW u \in Threads, NEW c \in todo'[u]
               PROVE  /\ pc'[u] \in Bearing => mem'[u][c].uuid
                      /\ c \notin overlap' \cup upset' /\ ~mem'[u][c].uuid
                         => ~rows'[c].uuid \/ panel'[c] = "deleted"
    BY DEF CopiesKnow
  <2>1. CASE u # t
    BY <1>0, <1>1, <1>2, <2>1 DEF BindInv, CopiesKnow
  <2>2. CASE u = t
    BY <1>0, <1>1, <1>3, <2>2 DEF BindInv, CopiesKnow
  <2> QED
    BY <2>1, <2>2
<1> QED
  BY <1>5, <1>6, <1>7, <1>8, <1>9, <1>10 DEF BindInv

-----------------------------------------------------------------------------
(* A call of the panel for a user that is there, or a user that comes or     *)
(* goes without a call.                                                      *)

\* b is a row whose user is not to be created any more.
HasUser(b) ==
    rows[b].st # "none" /\ \A u \in Threads : ~(pc[u] = "user" /\ b \in todo[u])

LEMMA ExistingUser ==
    ASSUME BindInv, NEW b \in Bindings, OnPanel(b)
    PROVE  HasUser(b)
  BY DEF BindInv, RowsStay, UsersUnborn, Unborn, OnPanel, HasUser

\* A goroutine holds on to what it holds, or lets go of it, and only a copy of b
\* changes, in keeping with what becomes of the user.
HeldOn(b, user) ==
    \A u \in Threads :
        /\ listed'[u] \subseteq listed[u]
        /\ todo'[u] \subseteq todo[u]
        /\ pc'[u] = "user" => pc[u] = "user" /\ todo'[u] = todo[u]
        /\ pc[u] \in Bearing
           => \/ pc'[u] \in Bearing /\ todo'[u] = todo[u]
              \/ \A c \in todo[u] : c = b /\ (user = "deleted" \/ b \in upset')
        /\ \A c \in todo'[u] :
              \/ /\ mem'[u][c] = mem[u][c]
                 /\ pc[u] \in {"mark", "fetch"} => pc'[u] \in {"mark", "fetch"}
                 /\ pc'[u] \in Bearing => pc[u] \in Bearing
              \/ /\ c = b /\ pc'[u] \notin Bearing
                 /\ mem'[u][b].st # "none"
                 /\ mem'[u][b].st = "deprovisioned"
                    => mem[u][b].st = "deprovisioned" \/ user = "deleted"
                 /\ mem'[u][b].uuid = mem[u][b].uuid \/ user = "deleted"

\* The user of b changes, and b has had one before.  A goroutine holds what it
\* held; the copy of t alone may change.
LEMMA PanelStep ==
    ASSUME MultiSubTypeOK, BindInv, NEW b \in Bindings, HasUser(b),
           NEW user \in Users, panel' = [panel EXCEPT ![b] = user],
           OnPanel(b) \/ user = "deleted",
           rows' = rows, overlap' = overlap, upset \subseteq upset',
           user # "none",
           ThreadsTyped', HeldOn(b, user)
    PROVE  BindInv'
<1>0. /\ \A u \in Threads : todo[u] \subseteq Bindings
      /\ panel'[b] = user /\ \A c \in Bindings \ {b} : panel'[c] = panel[c]
      /\ panel[b] = "deleted" => user = "deleted"
      /\ rows[b].st # "none"
  BY DEF MultiSubTypeOK, PanelTyped, ThreadsTyped, OnPanel, HasUser
<1>1. RowsStay'
  <2>1. \A u \in Threads : \A c \in todo'[u] : rows[c].st # "none" /\ mem'[u][c].st # "none"
    BY DEF BindInv, RowsStay, HeldOn
  <2> QED
    BY <1>0, <2>1 DEF BindInv, RowsStay, HeldOn
<1>2. DeprovisionedIsGone'
  BY <1>0 DEF BindInv, DeprovisionedIsGone
<1>3. CopiesGone'
  BY <1>0 DEF BindInv, CopiesGone, HeldOn
<1>4. UsersUnborn'
  <2> SUFFICES ASSUME NEW u \in Threads, pc'[u] = "user", NEW c \in todo'[u]
               PROVE  Unborn(u, c)'
    BY DEF UsersUnborn
  <2>1. pc[u] = "user" /\ c \in todo[u] /\ c \in Bindings
    BY <1>0 DEF HeldOn
  <2>2. Unborn(u, c)
    BY <2>1 DEF BindInv, UsersUnborn
  <2>3. c # b
    BY <2>1 DEF HasUser
  <2> QED
    BY <1>0, <2>1, <2>2, <2>3 DEF Unborn, HeldOn
<1>5. UsersKnown'
  <2> SUFFICES ASSUME NEW c \in Bindings, c \notin overlap' \cup upset', OnPanel(c)'
               PROVE  rows'[c].uuid \/ Borne(c)'
    BY DEF UsersKnown
  <2>1. c \notin overlap \cup upset /\ OnPanel(c) /\ ~(c = b /\ user = "deleted")
    BY <1>0 DEF OnPanel
  <2>2. CASE Borne(c)
    <3>1. PICK u \in Threads : pc[u] \in Bearing /\ c \in todo[u]
      BY <2>2 DEF Borne
    <3>2. pc'[u] \in Bearing /\ c \in todo'[u]
      BY <2>1, <3>1 DEF HeldOn
    <3> QED
      BY <3>2 DEF Borne
  <2> QED
    BY <2>1, <2>2 DEF BindInv, UsersKnown
<1>6. CopiesKnow'
  <2> SUFFICES ASSUME NEW u \in Threads, NEW c \in todo'[u]
               PROVE  /\ pc'[u] \in Bearing => mem'[u][c].uuid
                      /\ c \notin overlap' \cup upset' /\ ~mem'[u][c].uuid
                         => ~rows'[c].uuid \/ panel'[c] = "deleted"
    BY DEF CopiesKnow
  <2>1. c \in todo[u] /\ c \in Bindings
    BY <1>0 DEF HeldOn
  <2>2. /\ pc[u] \in Bearing => mem[u][c].uuid
        /\ c \notin overlap \cup upset /\ ~mem[u][c].uuid
           => ~rows[c].uuid \/ panel[c] = "deleted"
    BY <2>1 DEF BindInv, CopiesKnow
  <2> QED
    BY <1>0, <2>1, <2>2 DEF HeldOn
<1> QED
  BY <1>1, <1>2, <1>3, <1>4, <1>5, <1>6 DEF BindInv

-----------------------------------------------------------------------------
(* The user of a binding is created, or its creation fails.                  *)

LEMMA BirthStep ==
    ASSUME MultiSubTypeOK, ThreadsAtWork, BindInv, NEW t \in Threads, Own(t), Resting(t),
           pc[t] = "user", NEW b \in Bindings, todo[t] = {b}, todo'[t] = {b},
           rows' = rows, overlap' = overlap, upset \subseteq upset',
           \/ /\ panel' = [panel EXCEPT ![b] = "enabled"]
              /\ pc'[t] = "persist" /\ mem'[t][b] = Row("active", TRUE)
           \/ /\ panel' = [panel EXCEPT ![b] = "enabled"] /\ b \in upset'
              /\ pc'[t] = "failure" /\ mem'[t][b] = Row("failed", FALSE)
           \/ /\ panel' = panel
              /\ pc'[t] = "failure" /\ mem'[t][b] = Row("failed", FALSE)
    PROVE  BindInv'
<1>0. /\ \A u \in Threads : todo[u] \subseteq Bindings /\ listed[u] \subseteq Bindings
      /\ \A c \in Bindings \ {b} : panel'[c] = panel[c]
      /\ panel'[b] \in {"none", "enabled"}
      /\ pc'[t] = "failure" => panel'[b] = "none" \/ b \in upset'
      /\ pc'[t] # "user"
  BY DEF MultiSubTypeOK, PanelTyped, ThreadsTyped, BindInv, UsersUnborn, Unborn
<1>1. Unborn(t, b)
  BY DEF BindInv, UsersUnborn
<1>2. /\ listed'[t] = listed[t]
      /\ \A u \in Threads \ {t} : /\ pc'[u] = pc[u] /\ listed'[u] = listed[u]
                                  /\ todo'[u] = todo[u] /\ mem'[u] = mem[u]
  BY DEF Own, Others, Resting
<1>3. /\ mem'[t][b].st \in {"active", "failed"}
      /\ pc'[t] = "persist" => mem'[t][b].uuid
  BY DEF Row
<1>4. /\ rows[b].st \in {"pending", "failed"} /\ ~rows[b].uuid /\ panel[b] = "none"
      /\ \A u \in Threads \ {t} : b \in todo[u] => pc[u] \in {"mark", "fetch"} /\ Raw(mem[u][b])
  BY <1>1 DEF Unborn, Raw
<1>5. RowsStay'
  BY <1>0, <1>2, <1>3, <1>4 DEF BindInv, RowsStay
<1>6. DeprovisionedIsGone'
  BY <1>0, <1>4 DEF BindInv, DeprovisionedIsGone
<1>7. CopiesGone'
  BY <1>0, <1>2, <1>3, <1>4 DEF BindInv, CopiesGone, Raw
<1>8. UsersUnborn'
  <2> SUFFICES ASSUME NEW u \in Threads, pc'[u] = "user", NEW c \in todo'[u]
               PROVE  Unborn(u, c)'
    BY DEF UsersUnborn
  <2>1. u # t /\ pc[u] = "user" /\ c \in todo[u] /\ c \in Bindings
    BY <1>0, <1>2
  <2>2. Unborn(u, c) /\ c # b
    BY <1>4, <2>1 DEF BindInv, UsersUnborn
  <2> QED
    BY <1>0, <1>2, <2>1, <2>2 DEF Unborn
<1>9. UsersKnown'
  <2> SUFFICES ASSUME NEW c \in Bindings, c \notin overlap' \cup upset', OnPanel(c)'
               PROVE  rows'[c].uuid \/ Borne(c)'
    BY DEF UsersKnown
  <2>1. CASE c = b
    <3>1. pc'[t] = "persist"
      BY <1>0, <2>1 DEF OnPanel
    <3> QED
      BY <2>1, <3>1 DEF Borne, Bearing
  <2>2. CASE c # b
    <3>1. c \notin overlap \cup upset /\ OnPanel(c)
      BY <1>0, <2>2 DEF OnPanel
    <3>2. CASE Borne(c)
      <4>1. PICK u \in Threads : pc[u] \in Bearing /\ c \in todo[u]
        BY <3>2 DEF Borne
      <4>2. pc'[u] \in Bearing /\ c \in todo'[u]
        BY <1>2, <4>1 DEF Bearing
      <4> QED
        BY <4>2 DEF Borne
    <3> QED
      BY <3>1, <3>2 DEF BindInv, UsersKnown
  <2> QED
    BY <2>1, <2>2
<1>10. CopiesKnow'
  <2> SUFFICES ASSUME NEW u \in Threads, NEW c \in todo'[u]
               PROVE  /\ pc'[u] \in Bearing => mem'[u][c].uuid
                      /\ c \notin overlap' \cup upset' /\ ~mem'[u][c].uuid
                         => ~rows'[c].uuid \/ panel'[c] = "deleted"
    BY DEF CopiesKnow
  <2>1. CASE u # t
    BY <1>0, <1>2, <1>4, <2>1 DEF BindInv, CopiesKnow
  <2>2. CASE u = t
    BY <1>3, <1>4, <2>2 DEF Bearing
  <2> QED
    BY <2>1, <2>2
<1> QED
  BY <1>5, <1>6, <1>7, <1>8, <1>9, <1>10 DEF BindInv

\* A row is created: nobody has seen it.
LEMMA CreateRowStep ==
    ASSUME MultiSubInv, NEW t \in Threads, CreateRow(t)
    PROVE  MultiSubInv'
<1>0. MultiSubTypeOK /\ ThreadsAtWork /\ BindInv
  BY DEF MultiSubInv
<1>1. /\ rows \in [Bindings -> RowSet] /\ mem[t] \in [Bindings -> RowSet]
      /\ \A u \in Threads : todo[u] \subseteq Bindings /\ listed[u] \subseteq Bindings
  BY <1>0 DEF MultiSubTypeOK, StoreTyped, ThreadsTyped
<1>2. PICK b \in Bindings : /\ rows[b].st = "none"
                            /\ b = Min(With("none"))
  BY MinOf DEF CreateRow, With
<1> DEFINE new == Row("pending", FALSE)
           newRows == [rows EXCEPT ![b] = new]
           newMem == [mem[t] EXCEPT ![b] = new]
<1>3. new \in RowSet /\ new.st = "pending" /\ new.uuid = FALSE
  BY DEF Row, RowSet, Statuses
<1>4. /\ newRows \in [Bindings -> RowSet] /\ newMem \in [Bindings -> RowSet]
      /\ newRows[b] = new /\ newMem[b] = new
      /\ \A c \in Bindings \ {b} : newRows[c] = rows[c]
  BY <1>1, <1>3
<1>5. /\ WriteRows(t, {b}, newRows)
      /\ Hold(t, {b}, newMem, "user")
      /\ UNCHANGED <<sub, panel>> /\ NoFault /\ pc[t] = "create"
  BY <1>2 DEF CreateRow
<1> HIDE DEF new, newRows, newMem
<1>6. /\ StoreTyped' /\ rows' = newRows /\ overlap \subseteq overlap'
  BY <1>0, <1>4, <1>5, WriteRowsFacts
<1>7. "user" \in Labels
  BY DEF Labels
<1>8. Own(t) /\ Resting(t) /\ pc'[t] = "user" /\ todo'[t] = {b} /\ mem'[t] = newMem
  BY <1>0, <1>4, <1>5, <1>7, HoldFacts
<1>9. /\ listed'[t] = listed[t]
      /\ \A u \in Threads \ {t} : /\ pc'[u] = pc[u] /\ listed'[u] = listed[u]
                                  /\ todo'[u] = todo[u] /\ mem'[u] = mem[u]
  BY <1>8 DEF Own, Others, Resting
<1>10. FaultsTyped' /\ upset' = upset /\ panel' = panel
  BY <1>0, <1>5, NoFaultFacts
<1>11. MultiSubTypeOK'
  BY <1>0, <1>6, <1>8, <1>10 DEF MultiSubTypeOK, Own, PanelTyped
<1>12. ThreadsAtWork'
  <2>1. AtWork(t)
    BY <1>0 DEF ThreadsAtWork
  <2>2. AtWork(t)'
    BY <1>8, <2>1 DEF AtWork, Resting, OneBinding
  <2> QED
    BY <1>0, <1>8, <2>2, AtWorkStep DEF Own
<1>13. /\ panel[b] = "none"
       /\ \A u \in Threads : b \notin todo[u] /\ b \notin listed[u]
  BY <1>0, <1>2 DEF BindInv, RowsStay
<1>14. /\ rows'[b].st = "pending" /\ ~rows'[b].uuid
       /\ mem'[t][b].st = "pending" /\ ~mem'[t][b].uuid
       /\ \A c \in Bindings \ {b} : rows'[c] = rows[c]
  BY <1>3, <1>4, <1>6, <1>8
<1>15. RowsStay'
  BY <1>0, <1>1, <1>8, <1>9, <1>10, <1>14 DEF BindInv, RowsStay
<1>16. DeprovisionedIsGone'
  BY <1>0, <1>10, <1>14 DEF BindInv, DeprovisionedIsGone
<1>17. CopiesGone'
  BY <1>0, <1>8, <1>9, <1>10, <1>14 DEF BindInv, CopiesGone
<1>18. UsersUnborn'
  <2> SUFFICES ASSUME NEW u \in Threads, pc'[u] = "user", NEW c \in todo'[u]
               PROVE  Unborn(u, c)'
    BY DEF UsersUnborn
  <2>1. CASE u = t
    BY <1>8, <1>9, <1>10, <1>13, <1>14, <2>1 DEF Unborn, Raw
  <2>2. CASE u # t
    <3>1. pc[u] = "user" /\ c \in todo[u] /\ c \in Bindings /\ c # b
      BY <1>1, <1>9, <1>13, <2>2
    <3>2. Unborn(u, c)
      BY <1>0, <3>1 DEF BindInv, UsersUnborn
    <3> QED
      BY <1>8, <1>9, <1>10, <1>14, <3>1, <3>2 DEF Unborn
  <2> QED
    BY <2>1, <2>2
<1>19. UsersKnown'
  <2> SUFFICES ASSUME NEW c \in Bindings, c \notin overlap' \cup upset', OnPanel(c)'
               PROVE  rows'[c].uuid \/ Borne(c)'
    BY DEF UsersKnown
  <2>1. c \notin overlap \cup upset /\ OnPanel(c) /\ c # b
    BY <1>6, <1>10, <1>13 DEF OnPanel
  <2>2. CASE Borne(c)
    <3>1. PICK u \in Threads : pc[u] \in Bearing /\ c \in todo[u]
      BY <2>2 DEF Borne
    <3>2. pc'[u] \in Bearing /\ c \in todo'[u]
      BY <1>5, <1>9, <3>1 DEF Bearing
    <3> QED
      BY <3>2 DEF Borne
  <2> QED
    BY <1>0, <1>14, <2>1, <2>2 DEF BindInv, UsersKnown
<1>20. CopiesKnow'
  <2> SUFFICES ASSUME NEW u \in Threads, NEW c \in todo'[u]
               PROVE  /\ pc'[u] \in Bearing => mem'[u][c].uuid
                      /\ c \notin overlap' \cup upset' /\ ~mem'[u][c].uuid
                         => ~rows'[c].uuid \/ panel'[c] = "deleted"
    BY DEF CopiesKnow
  <2>1. CASE u # t
    BY <1>0, <1>1, <1>6, <1>9, <1>10, <1>13, <1>14, <2>1 DEF BindInv, CopiesKnow
  <2>2. CASE u = t
    BY <1>8, <1>14, <2>2 DEF Bearing
  <2> QED
    BY <2>1, <2>2
<1> QED
  BY <1>11, <1>12, <1>15, <1>16, <1>17, <1>18, <1>19, <1>20 DEF MultiSubInv, BindInv

-----------------------------------------------------------------------------
(* The actions of a handler, one by one.                                     *)

LEMMA Together ==
    ASSUME MultiSubInv, NEW t \in Threads, Own(t), AtWork(t)',
           StoreTyped', FaultsTyped', PanelTyped', BindInv'
    PROVE  MultiSubInv'
  BY AtWorkStep DEF MultiSubInv, MultiSubTypeOK, Own

LEMMA ReturnsStep ==
    ASSUME MultiSubInv, NEW t \in Threads, pc[t] \notin Bearing,
           Return(t) \/ ReturnError(t), UNCHANGED panel, UNCHANGED dbVars,
           FaultsTyped', upset \subseteq upset'
    PROVE  MultiSubInv'
<1>0. MultiSubTypeOK /\ ThreadsAtWork /\ BindInv
  BY DEF MultiSubInv
<1>1. Ended(t)
  BY <1>0, EndedFacts
<1>2. StoreTyped' /\ rows' = rows /\ overlap' = overlap /\ PanelTyped'
  BY <1>0, StoreFrame DEF MultiSubTypeOK, PanelTyped
<1>3. BindInv'
  BY <1>0, <1>1, <1>2, EndStep
<1>4. AtWork(t)'
  BY <1>1 DEF Ended, AtWork, OneBinding
<1> QED
  BY <1>1, <1>2, <1>3, <1>4, Together DEF Ended

\* t moves on to another label with what it holds.
LEMMA MovesStep ==
    ASSUME MultiSubInv, NEW t \in Threads, Own(t), AtWork(t)',
           UNCHANGED panel, UNCHANGED dbVars, FaultsTyped', upset \subseteq upset',
           listed'[t] \subseteq listed[t], todo'[t] = todo[t], mem'[t] = mem[t],
           pc'[t] # "user", pc[t] \notin {"mark", "fetch"},
           pc[t] \in Bearing <=> pc'[t] \in Bearing
    PROVE  MultiSubInv'
<1>0. MultiSubTypeOK /\ ThreadsAtWork /\ BindInv
  BY DEF MultiSubInv
<1>1. StoreTyped' /\ rows' = rows /\ overlap' = overlap /\ PanelTyped'
  BY <1>0, StoreFrame DEF MultiSubTypeOK, PanelTyped
<1>2. StillBearing(t)
  BY DEF StillBearing
<1>3. BindInv'
  BY <1>0, <1>1, <1>2, DropStep
<1> QED
  BY <1>1, <1>3, Together

LEMMA TakeStep ==
    ASSUME MultiSubInv, NEW t \in Threads, NEW e, Take(t, e)
    PROVE  MultiSubInv'
<1>0. MultiSubTypeOK /\ AtWork(t)
  BY DEF MultiSubInv, ThreadsAtWork
<1>1. /\ ThreadsTyped /\ EventsTyped /\ FaultsTyped
  BY <1>0 DEF MultiSubTypeOK
<1>2. e \in Work /\ "read" \in Labels
  BY <1>1 DEF Take, EventsTyped, Labels
<1>3. /\ Own(t)
      /\ pc'[t] = "read" /\ listed'[t] = listed[t] /\ todo'[t] = todo[t] /\ mem'[t] = mem[t]
  BY <1>1, <1>2 DEF Take, ThreadsTyped, EventsTyped, Own, Others
<1>4. pc[t] = "idle" /\ UNCHANGED panel /\ UNCHANGED dbVars
  BY DEF Take
<1>5. FaultsTyped' /\ upset \subseteq upset'
  BY <1>1 DEF Take, FaultsTyped
<1>6. listed[t] = {}
  BY <1>0, <1>4 DEF AtWork
<1>7. AtWork(t)'
  BY <1>3, <1>6 DEF AtWork, OneBinding
<1> QED
  BY <1>3, <1>4, <1>5, <1>7, MovesStep DEF Bearing

\* Whatever a goroutine does, its faults are of a known kind.
LEMMA KindsKnown == {"refused", "lost", "db", "crash", "slow", "sync", "pause", "traffic"} = Kinds
  BY DEF Kinds

LEMMA ErrorSteps ==
    ASSUME MultiSubInv, NEW t \in Threads, ReadError(t) \/ CreateRowError(t)
    PROVE  MultiSubInv'
<1>1. NoFault \/ Spend("db", {})
  BY DEF ReadError, CreateRowError
<1>2. FaultsTyped' /\ upset \subseteq upset'
  BY <1>1, KindsKnown, FaultFacts DEF MultiSubInv
<1>3. /\ pc[t] \notin Bearing /\ UNCHANGED panel /\ UNCHANGED dbVars
      /\ Return(t) \/ ReturnError(t)
  BY DEF ReadError, CreateRowError, Bearing
<1> QED
  BY <1>2, <1>3, ReturnsStep

LEMMA CheckExistingStep ==
    ASSUME MultiSubInv, NEW t \in Threads, CheckExisting(t)
    PROVE  MultiSubInv'
<1>0. MultiSubTypeOK /\ AtWork(t)
  BY DEF MultiSubInv, ThreadsAtWork
<1>1. /\ FaultsTyped' /\ upset \subseteq upset' /\ pc[t] = "read" /\ ev[t] = "activated"
      /\ UNCHANGED panel /\ UNCHANGED dbVars
  BY <1>0, NoFaultFacts DEF CheckExisting
<1>2. CASE Return(t)
  BY <1>1, <1>2, ReturnsStep DEF Bearing
<1>3. CASE Goto(t, "guard")
  <2>1. "guard" \in Labels
    BY DEF Labels
  <2>2. /\ Own(t) /\ Resting(t) /\ pc'[t] = "guard"
        /\ todo'[t] = todo[t] /\ mem'[t] = mem[t]
    BY <1>0, <1>3, <2>1, GotoFacts
  <2>3. AtWork(t)'
    BY <1>0, <1>1, <2>2 DEF AtWork, Resting, OneBinding
  <2> QED
    BY <1>1, <2>2, <2>3, MovesStep DEF Bearing, Resting
<1> QED
  BY <1>2, <1>3 DEF CheckExisting

LEMMA GuardStep ==
    ASSUME MultiSubInv, NEW t \in Threads, GuardSubscription(t)
    PROVE  MultiSubInv'
<1>0. MultiSubTypeOK /\ AtWork(t)
  BY DEF MultiSubInv, ThreadsAtWork
<1>1. /\ FaultsTyped' /\ upset \subseteq upset' /\ pc[t] = "guard"
      /\ UNCHANGED panel /\ UNCHANGED dbVars
  BY <1>0, NoFaultFacts DEF GuardSubscription
<1>2. CASE Return(t) \/ ReturnError(t)
  BY <1>1, <1>2, ReturnsStep DEF Bearing
<1>3. CASE /\ pc' = [pc EXCEPT ![t] = "create"]
           /\ step' = [step EXCEPT ![t] = 1]
           /\ UNCHANGED <<ev, listed, todo, mem, inbox, done>>
  <2>1. "create" \in Labels
    BY DEF Labels
  <2>2. /\ Own(t) /\ Resting(t) /\ pc'[t] = "create"
        /\ todo'[t] = todo[t] /\ mem'[t] = mem[t]
    BY <1>0, <1>3, <2>1
      DEF MultiSubTypeOK, ThreadsTyped, EventsTyped, Own, Others, Resting
  <2>3. AtWork(t)'
    BY <1>0, <1>1, <2>2 DEF AtWork, Resting, OneBinding
  <2> QED
    BY <1>1, <2>2, <2>3, MovesStep DEF Bearing, Resting
<1> QED
  BY <1>2, <1>3 DEF GuardSubscription

LEMMA CheckActiveStep ==
    ASSUME MultiSubInv, NEW t \in Threads, CheckActive(t)
    PROVE  MultiSubInv'
<1>0. MultiSubTypeOK /\ AtWork(t)
  BY DEF MultiSubInv, ThreadsAtWork
<1>1. /\ FaultsTyped' /\ upset \subseteq upset' /\ pc[t] = "read" /\ ev[t] = "cancelled"
      /\ UNCHANGED panel /\ UNCHANGED dbVars
  BY <1>0, NoFaultFacts DEF CheckActive
<1>2. PICK l \in {"pending", "list"} : Goto(t, l)
  BY DEF CheckActive
<1>3. l \in Labels
  BY DEF Labels
<1>4. /\ Own(t) /\ Resting(t) /\ pc'[t] = l
      /\ todo'[t] = todo[t] /\ mem'[t] = mem[t]
  BY <1>0, <1>2, <1>3, GotoFacts
<1>5. AtWork(t)'
  BY <1>0, <1>1, <1>4 DEF AtWork, Resting, OneBinding
<1> QED
  BY <1>1, <1>4, <1>5, MovesStep DEF Bearing, Resting

LEMMA PersistErrorStep ==
    ASSUME MultiSubInv, NEW t \in Threads, PersistProvisionedError(t)
    PROVE  MultiSubInv'
<1>0. MultiSubTypeOK /\ AtWork(t)
  BY DEF MultiSubInv, ThreadsAtWork
<1>1. /\ Goto(t, "compensate") /\ pc[t] = "persist"
      /\ UNCHANGED panel /\ UNCHANGED dbVars /\ Spend("db", {})
  BY DEF PersistProvisionedError
<1>2. FaultsTyped' /\ upset \subseteq upset'
  BY <1>0, <1>1, KindsKnown, SpendFacts
<1>3. "compensate" \in Labels
  BY DEF Labels
<1>4. /\ Own(t) /\ Resting(t) /\ pc'[t] = "compensate"
      /\ todo'[t] = todo[t] /\ mem'[t] = mem[t]
  BY <1>0, <1>1, <1>3, GotoFacts
<1>5. AtWork(t)'
  BY <1>0, <1>1, <1>4 DEF AtWork, Resting, OneBinding
<1> QED
  BY <1>1, <1>2, <1>4, <1>5, MovesStep DEF Bearing, Resting

\* The binding of a goroutine that works on one.
LEMMA OneHeld ==
    ASSUME MultiSubInv, NEW t \in Threads,
           pc[t] \in OneBinding \/ (pc[t] = "write" /\ ev[t] = "sync")
    PROVE  Cur(t) \in Bindings /\ todo[t] = {Cur(t)}
<1>1. PICK b \in Bindings : todo[t] = {b}
  BY DEF MultiSubInv, ThreadsAtWork, AtWork
<1>2. Cur(t) \in todo[t]
  BY <1>1, CurHeld DEF MultiSubInv
<1> QED
  BY <1>1, <1>2

LEMMA CreateUserSteps ==
    ASSUME MultiSubInv, NEW t \in Threads, CreateUser(t) \/ CreateUserError(t)
    PROVE  MultiSubInv'
<1>0. MultiSubTypeOK /\ ThreadsAtWork /\ BindInv /\ AtWork(t)
  BY DEF MultiSubInv, ThreadsAtWork
<1>1. pc[t] = "user" /\ UNCHANGED dbVars
  BY DEF CreateUser, CreateUserError
<1>2. PICK b \in Bindings : b = Cur(t) /\ todo[t] = {b}
  BY <1>1, OneHeld DEF OneBinding
<1>3. StoreTyped' /\ rows' = rows /\ overlap' = overlap
  BY <1>0, <1>1, StoreFrame
<1>4. mem[t] \in [Bindings -> RowSet] /\ panel \in [Bindings -> Users]
  BY <1>0 DEF MultiSubTypeOK, ThreadsTyped, PanelTyped
<1>5. {"persist", "failure"} \subseteq Labels /\ "enabled" \in Users
  BY DEF Labels, Users
<1>6. ASSUME NEW r \in RowSet, NEW l \in Labels,
             Hold(t, todo[t], [mem[t] EXCEPT ![Cur(t)] = r], l)
      PROVE  /\ Own(t) /\ Resting(t) /\ pc'[t] = l
             /\ todo'[t] = {b} /\ mem'[t][b] = r
  <2> DEFINE new == [mem[t] EXCEPT ![b] = r]
  <2>1. new \in [Bindings -> RowSet] /\ new[b] = r
    BY <1>4
  <2>2. Hold(t, {b}, new, l)
    BY <1>2, <1>6
  <2> HIDE DEF new
  <2> QED
    BY <1>0, <2>1, <2>2, HoldFacts
<1>7. Row("active", TRUE) \in RowSet /\ Row("failed", FALSE) \in RowSet
  BY DEF Row, RowSet, Statuses
<1>8. ASSUME Own(t), Resting(t), pc'[t] \in {"persist", "failure"}, todo'[t] = {b}
      PROVE  AtWork(t)'
  BY <1>0, <1>1, <1>8 DEF AtWork, Resting, OneBinding
<1>9. CASE CreateUser(t)
  <2>1. /\ Own(t) /\ Resting(t) /\ pc'[t] = "persist"
        /\ todo'[t] = {b} /\ mem'[t][b] = Row("active", TRUE)
    BY <1>5, <1>6, <1>7, <1>9 DEF CreateUser
  <2>2. FaultsTyped' /\ upset \subseteq upset'
    BY <1>0, <1>9, NoFaultFacts DEF CreateUser
  <2>3. panel' = [panel EXCEPT ![b] = "enabled"] /\ PanelTyped'
    BY <1>2, <1>4, <1>5, <1>9 DEF CreateUser, PanelTyped
  <2>4. BindInv'
    BY <1>0, <1>1, <1>2, <1>3, <2>1, <2>2, <2>3, BirthStep
  <2> QED
    BY <1>3, <1>8, <2>1, <2>2, <2>3, <2>4, Together
<1>10. CASE CreateUserError(t)
  <2>1. /\ Own(t) /\ Resting(t) /\ pc'[t] = "failure"
        /\ todo'[t] = {b} /\ mem'[t][b] = Row("failed", FALSE)
    BY <1>5, <1>6, <1>7, <1>10 DEF CreateUserError
  <2>2. \/ Spend("refused", {}) /\ UNCHANGED panel
        \/ Spend("lost", {b}) /\ panel' = [panel EXCEPT ![b] = "enabled"]
    BY <1>2, <1>10 DEF CreateUserError
  <2>3. /\ FaultsTyped' /\ upset \subseteq upset' /\ PanelTyped'
        /\ \/ UNCHANGED panel
           \/ b \in upset' /\ panel' = [panel EXCEPT ![b] = "enabled"]
    <3>1. CASE Spend("refused", {}) /\ UNCHANGED panel
      BY <1>0, <1>4, <3>1, KindsKnown, SpendFacts DEF PanelTyped
    <3>2. CASE Spend("lost", {b}) /\ panel' = [panel EXCEPT ![b] = "enabled"]
      <4>1. FaultsTyped' /\ upset \subseteq upset' /\ b \in upset'
        BY <1>0, <3>2, KindsKnown, SpendFacts
      <4> QED
        BY <1>4, <1>5, <3>2, <4>1 DEF PanelTyped
    <3> QED
      BY <2>2, <3>1, <3>2
  <2>4. BindInv'
    BY <1>0, <1>1, <1>2, <1>3, <2>1, <2>3, BirthStep
  <2> QED
    BY <1>3, <1>8, <2>1, <2>3, <2>4, Together
<1> QED
  BY <1>9, <1>10

\* t writes its binding and returns.
LEMMA UpdateAndReturn ==
    ASSUME MultiSubInv, NEW t \in Threads, pc[t] \in OneBinding, pc[t] # "user",
           Update(t, Cur(t)), Return(t) \/ ReturnError(t), UNCHANGED panel, NoFault
    PROVE  MultiSubInv'
<1>0. MultiSubTypeOK /\ ThreadsAtWork /\ BindInv
  BY DEF MultiSubInv
<1>1. PICK b \in Bindings : b = Cur(t) /\ todo[t] = {b}
  BY OneHeld
<1>2. Ended(t)
  BY <1>0, EndedFacts
<1>3. Own(t) /\ pc'[t] = "idle" /\ listed'[t] = {} /\ todo'[t] = {}
  BY <1>2 DEF Ended
<1>4. FaultsTyped' /\ upset \subseteq upset' /\ PanelTyped'
  BY <1>0, NoFaultFacts DEF MultiSubTypeOK, PanelTyped
<1>5. StoreTyped'
  BY <1>0, <1>1, UpdateFacts
<1>6. BindInv'
  BY <1>0, <1>1, <1>3, <1>4, UpdateStep DEF Bearing
<1>7. AtWork(t)'
  BY <1>2 DEF Ended, AtWork, OneBinding
<1> QED
  BY <1>3, <1>4, <1>5, <1>6, <1>7, Together

LEMMA PersistFailureStep ==
    ASSUME MultiSubInv, NEW t \in Threads, PersistFailure(t)
    PROVE  MultiSubInv'
<1>1. pc[t] = "failure" /\ ReturnError(t) /\ UNCHANGED panel
  BY DEF PersistFailure
<1>2. CASE Update(t, Cur(t)) /\ NoFault
  BY <1>1, <1>2, UpdateAndReturn DEF OneBinding
<1>3. CASE UNCHANGED dbVars /\ Spend("db", {})
  <2>1. FaultsTyped' /\ upset \subseteq upset'
    BY <1>3, KindsKnown, SpendFacts DEF MultiSubInv
  <2> QED
    BY <1>1, <1>3, <2>1, ReturnsStep DEF Bearing
<1> QED
  BY <1>2, <1>3 DEF PersistFailure

LEMMA PersistProvisionedStep ==
    ASSUME MultiSubInv, NEW t \in Threads, PersistProvisioned(t)
    PROVE  MultiSubInv'
<1>0. MultiSubTypeOK /\ BindInv /\ AtWork(t)
  BY DEF MultiSubInv, ThreadsAtWork
<1>1. pc[t] = "persist" /\ Update(t, Cur(t)) /\ UNCHANGED panel /\ NoFault
  BY DEF PersistProvisioned
<1>2. CASE Return(t)
  BY <1>1, <1>2, UpdateAndReturn DEF OneBinding
<1>3. CASE /\ pc' = [pc EXCEPT ![t] = "create"]
           /\ step' = [step EXCEPT ![t] = @ + 1]
           /\ todo' = [todo EXCEPT ![t] = {}]
           /\ UNCHANGED <<ev, listed, mem, inbox, done>>
  <2>1. PICK b \in Bindings : b = Cur(t) /\ todo[t] = {b}
    BY <1>1, OneHeld DEF OneBinding
  <2>2. "create" \in Labels
    BY DEF Labels
  <2>3. /\ Own(t) /\ Resting(t) /\ pc'[t] = "create" /\ todo'[t] = {}
    BY <1>0, <1>3, <2>2
      DEF MultiSubTypeOK, ThreadsTyped, EventsTyped, Own, Others, Resting
  <2>4. AtWork(t)'
    BY <1>0, <1>1, <2>3 DEF AtWork, Resting, OneBinding
  <2>5. FaultsTyped' /\ upset \subseteq upset' /\ PanelTyped'
    BY <1>0, <1>1, NoFaultFacts DEF MultiSubTypeOK, PanelTyped
  <2>6. StoreTyped'
    BY <1>0, <1>1, <2>1, UpdateFacts
  <2>7. BindInv'
    BY <1>0, <1>1, <2>1, <2>3, <2>5, UpdateStep DEF Bearing, Resting
  <2> QED
    BY <2>3, <2>4, <2>5, <2>6, <2>7, Together
<1> QED
  BY <1>2, <1>3 DEF PersistProvisioned

LEMMA CompensateStep ==
    ASSUME MultiSubInv, NEW t \in Threads, CompensateDeleteUser(t)
    PROVE  MultiSubInv'
<1>0. MultiSubTypeOK /\ ThreadsAtWork /\ BindInv
  BY DEF MultiSubInv
<1>1. pc[t] = "compensate" /\ ReturnError(t) /\ UNCHANGED dbVars
  BY DEF CompensateDeleteUser
<1>2. PICK b \in Bindings : b = Cur(t) /\ todo[t] = {b}
  BY <1>1, OneHeld DEF OneBinding
<1>3. Ended(t)
  BY <1>0, <1>1, EndedFacts
<1>4. StoreTyped' /\ rows' = rows /\ overlap' = overlap
  BY <1>0, <1>1, StoreFrame
<1>5. AtWork(t)' /\ Own(t)
  BY <1>3 DEF Ended, AtWork, OneBinding
<1>6. CASE panel' = [panel EXCEPT ![Cur(t)] = "deleted"] /\ NoFault
  <2>1. "deleted" \in Users /\ panel \in [Bindings -> Users]
    BY <1>0 DEF Users, MultiSubTypeOK, PanelTyped
  <2>2. panel' = [panel EXCEPT ![b] = "deleted"] /\ PanelTyped'
    BY <1>2, <1>6, <2>1 DEF PanelTyped
  <2>3. FaultsTyped' /\ upset \subseteq upset'
    BY <1>0, <1>6, NoFaultFacts
  <2>4. HasUser(b)
    <3>1. rows[b].st # "none"
      BY <1>0, <1>2 DEF BindInv, RowsStay
    <3>2. ASSUME NEW u \in Threads, pc[u] = "user", b \in todo[u]
          PROVE  FALSE
      <4>1. Unborn(u, b)
        BY <1>0, <3>2 DEF BindInv, UsersUnborn
      <4> QED
        BY <1>1, <1>2, <3>2, <4>1 DEF Unborn
    <3> QED
      BY <3>1, <3>2 DEF HasUser
  <2>5. /\ ThreadsTyped' /\ todo'[t] = {} /\ pc'[t] = "idle" /\ listed'[t] = {}
        /\ \A u \in Threads \ {t} : /\ pc'[u] = pc[u] /\ listed'[u] = listed[u]
                                    /\ todo'[u] = todo[u] /\ mem'[u] = mem[u]
    BY <1>3 DEF Ended, Own, Others
  <2>6. HeldOn(b, "deleted")
    BY <1>2, <2>5 DEF HeldOn, Bearing
  <2>7. BindInv'
    BY <1>0, <1>2, <1>4, <2>1, <2>2, <2>3, <2>4, <2>5, <2>6, PanelStep
  <2> QED
    BY <1>4, <1>5, <2>2, <2>3, <2>7, Together
<1>7. CASE UNCHANGED panel /\ Spend("refused", todo[t])
  <2>1. FaultsTyped' /\ upset \subseteq upset' /\ todo[t] \subseteq upset'
    BY <1>0, <1>2, <1>7, KindsKnown, SpendFacts
  <2>2. StillBearing(t)
    BY <1>3, <2>1 DEF StillBearing, Ended, Bearing
  <2>3. BindInv'
    BY <1>0, <1>3, <1>4, <1>7, <2>1, <2>2, DropStep DEF Ended
  <2>4. PanelTyped'
    BY <1>0, <1>7 DEF MultiSubTypeOK, PanelTyped
  <2> QED
    BY <1>4, <1>5, <2>1, <2>3, <2>4, Together
<1> QED
  BY <1>6, <1>7 DEF CompensateDeleteUser

-----------------------------------------------------------------------------
(* Reading bindings.                                                         *)

LEMMA ReadPendingStep ==
    ASSUME MultiSubInv, NEW t \in Threads, ReadPending(t)
    PROVE  MultiSubInv'
<1>0. MultiSubTypeOK /\ BindInv /\ AtWork(t)
  BY DEF MultiSubInv, ThreadsAtWork
<1>1. /\ pc[t] = "pending" /\ UNCHANGED panel /\ UNCHANGED dbVars
      /\ FaultsTyped' /\ upset \subseteq upset'
  BY <1>0, NoFaultFacts DEF ReadPending
<1>2. CASE Return(t)
  BY <1>1, <1>2, ReturnsStep DEF Bearing
<1>3. CASE /\ With("pending") # {}
           /\ Hold(t, With("pending"),
                   [b \in Bindings |-> transitionTo(rows[b], "failed")], "mark")
  <2> DEFINE S == With("pending")
             new == [b \in Bindings |-> transitionTo(rows[b], "failed")]
  <2>1. rows \in [Bindings -> RowSet] /\ "failed" \in Statuses /\ "mark" \in Labels
    BY <1>0 DEF MultiSubTypeOK, StoreTyped, Statuses, Labels
  <2>2. /\ new \in [Bindings -> RowSet]
        /\ \A b \in Bindings : new[b].uuid = rows[b].uuid /\ new[b].st \in {rows[b].st, "failed"}
    BY <2>1, TransitionFields
  <2>3. S \in SUBSET Bindings /\ S # {} /\ \A b \in S : rows[b].st = "pending"
    BY <1>3 DEF With
  <2>4. Hold(t, S, new, "mark")
    BY <1>3
  <2> HIDE DEF S, new
  <2>5. Own(t) /\ Resting(t) /\ pc'[t] = "mark" /\ todo'[t] = S /\ mem'[t] = new
    BY <1>0, <2>1, <2>2, <2>3, <2>4, HoldFacts
  <2>6. StoreTyped' /\ rows' = rows /\ overlap' = overlap /\ PanelTyped'
    BY <1>0, <1>1, StoreFrame DEF MultiSubTypeOK, PanelTyped
  <2>7. Quiet
    BY <1>1, <2>6 DEF Quiet, RowKept
  <2>8. \A b \in todo'[t] : GoodCopy(t, b)
    BY <2>2, <2>3, <2>5 DEF GoodCopy, Raw
  <2>9. StillBearing(t)
    BY <1>1, <2>5 DEF StillBearing, Bearing
  <2>10. \A b \in listed'[t] : rows[b].st # "none"
    BY <1>0, <2>5 DEF Resting, BindInv, RowsStay
  <2>11. BindInv'
    BY <1>0, <2>5, <2>7, <2>8, <2>9, <2>10, QuietStep
  <2>12. AtWork(t)'
    BY <1>0, <1>1, <2>3, <2>5 DEF AtWork, Resting, OneBinding
  <2> QED
    BY <1>1, <2>5, <2>6, <2>11, <2>12, Together
<1> QED
  BY <1>2, <1>3 DEF ReadPending

LEMMA ReadTargetsStep ==
    ASSUME MultiSubInv, NEW t \in Threads, ReadTargets(t)
    PROVE  MultiSubInv'
<1>0. MultiSubTypeOK /\ BindInv /\ AtWork(t)
  BY DEF MultiSubInv, ThreadsAtWork
<1>1. /\ \/ pc[t] = "list" /\ ev[t] = "cancelled"
         \/ pc[t] = "read" /\ ev[t] \in {"paused", "resumed"}
      /\ UNCHANGED panel /\ UNCHANGED dbVars
      /\ FaultsTyped' /\ upset \subseteq upset'
  BY <1>0, NoFaultFacts DEF ReadTargets, AtWork
<1>2. CASE Return(t)
  BY <1>1, <1>2, ReturnsStep DEF Bearing
<1>3. CASE Targets(t) # {} /\ Hold(t, Targets(t), rows, "call")
  <2> DEFINE S == Targets(t)
  <2>1. rows \in [Bindings -> RowSet] /\ "call" \in Labels
    BY <1>0 DEF MultiSubTypeOK, StoreTyped, Labels
  <2>2. S \subseteq Bindings /\ \A b \in S : rows[b].st \in {"active", "disabled"}
    <3>1. CASE pc[t] = "list"
      BY <3>1 DEF Targets, With
    <3>2. CASE pc[t] = "read" /\ ev[t] = "paused"
      BY <3>2 DEF Targets, With
    <3>3. CASE pc[t] = "read" /\ ev[t] = "resumed"
      BY <3>3 DEF Targets, With
    <3> QED
      BY <1>1, <3>1, <3>2, <3>3
  <2>3. Hold(t, S, rows, "call") /\ S # {}
    BY <1>3
  <2> HIDE DEF S
  <2>5. Own(t) /\ Resting(t) /\ pc'[t] = "call" /\ todo'[t] = S /\ mem'[t] = rows
    BY <1>0, <2>1, <2>2, <2>3, HoldFacts
  <2>6. StoreTyped' /\ rows' = rows /\ overlap' = overlap /\ PanelTyped'
    BY <1>0, <1>1, StoreFrame DEF MultiSubTypeOK, PanelTyped
  <2>7. Quiet
    BY <1>1, <2>6 DEF Quiet, RowKept
  <2>8. \A b \in todo'[t] : GoodCopy(t, b)
    BY <2>2, <2>5 DEF GoodCopy, Raw
  <2>9. StillBearing(t)
    BY <1>1, <2>5 DEF StillBearing, Bearing
  <2>10. \A b \in listed'[t] : rows[b].st # "none"
    BY <1>0, <2>5 DEF Resting, BindInv, RowsStay
  <2>11. BindInv'
    BY <1>0, <2>5, <2>7, <2>8, <2>9, <2>10, QuietStep
  <2>12. AtWork(t)'
    BY <1>0, <1>1, <2>3, <2>5 DEF AtWork, Resting, OneBinding
  <2> QED
    BY <1>1, <2>5, <2>6, <2>11, <2>12, Together
<1> QED
  BY <1>2, <1>3 DEF ReadTargets

-----------------------------------------------------------------------------
(* Calls of the panel, and the writes that record them.                      *)

\* t's copy of c changes its status, and no goroutine is creating c's user.
LEMMA CopyKept ==
    ASSUME BindInv, NEW t \in Threads, NEW c \in todo[t],
           pc[t] \notin {"mark", "fetch"} \/ mem[t][c].uuid,
           mem'[t][c].uuid = mem[t][c].uuid,
           mem'[t][c].st \in {mem[t][c].st, "failed", "active", "disabled"},
           overlap \subseteq overlap', upset \subseteq upset'
    PROVE  GoodCopy(t, c)
<1>1. ASSUME NEW u \in Threads \ {t}, pc[u] = "user", c \in todo[u]
      PROVE  FALSE
  <2>1. Unborn(u, c)
    BY <1>1 DEF BindInv, UsersUnborn
  <2> QED
    BY <2>1 DEF Unborn, Raw
<1>2. /\ rows[c].st # "none" /\ mem'[t][c].st # "none"
      /\ mem'[t][c].st = "deprovisioned" => panel[c] = "deleted"
  BY DEF BindInv, RowsStay, CopiesGone
<1>3. ~mem'[t][c].uuid => ~rows[c].uuid \/ panel[c] = "deleted" \/ c \in overlap' \cup upset'
  BY DEF BindInv, CopiesKnow
<1> QED
  BY <1>1, <1>2, <1>3 DEF GoodCopy

\* The goroutine at a call, its binding and what it may make of the copy.
LEMMA CallFacts ==
    ASSUME MultiSubInv, NEW t \in Threads, pc[t] = "call"
    PROVE  /\ Cur(t) \in todo[t] /\ Cur(t) \in Bindings
           /\ ev[t] \in {"cancelled", "paused", "resumed", "reconcile"}
           /\ listed[t] = {}
           /\ mem[t] \in [Bindings -> RowSet] /\ todo[t] \subseteq Bindings
<1>1. MultiSubTypeOK /\ AtWork(t)
  BY DEF MultiSubInv, ThreadsAtWork
<1>2. /\ todo[t] # {} /\ ev[t] \in {"cancelled", "paused", "resumed", "reconcile"}
      /\ listed[t] = {}
  BY <1>1 DEF AtWork
<1> QED
  BY <1>1, <1>2, CurHeld DEF MultiSubTypeOK, ThreadsTyped

LEMMA GatewayOkStep ==
    ASSUME MultiSubInv, NEW t \in Threads, GatewayOk(t)
    PROVE  MultiSubInv'
<1>0. MultiSubTypeOK /\ BindInv /\ AtWork(t)
  BY DEF MultiSubInv, ThreadsAtWork
<1>1. pc[t] = "call" /\ UNCHANGED dbVars /\ FaultsTyped' /\ upset \subseteq upset'
  BY <1>0, NoFaultFacts DEF GatewayOk
<1>2. PICK b \in Bindings : b = Cur(t) /\ b \in todo[t]
  BY <1>1, CallFacts
<1>3. PICK k \in {"cancelled", "paused", "resumed", "reconcile"} : k = ev[t]
  BY <1>1, CallFacts
<1>4. listed[t] = {} /\ mem[t] \in [Bindings -> RowSet] /\ todo[t] \subseteq Bindings
  BY <1>1, CallFacts
<1> DEFINE r == Success(k, mem[t][b])
           user == Effect(k)
           new == [mem[t] EXCEPT ![b] = r]
<1>5. /\ OnPanel(b)
      /\ panel' = [panel EXCEPT ![b] = user]
      /\ Hold(t, todo[t], new, "write")
  BY <1>2, <1>3 DEF GatewayOk
<1>6. mem[t][b] \in RowSet /\ mem[t][b].st # "none"
  BY <1>0, <1>2, <1>4 DEF BindInv, RowsStay
<1>7. /\ r \in RowSet /\ r.st # "none"
      /\ user \in {"deleted", "disabled", "enabled"}
      /\ r.st = "deprovisioned" => mem[t][b].st = "deprovisioned" \/ user = "deleted"
      /\ r.uuid = mem[t][b].uuid \/ user = "deleted"
  BY <1>6, SuccessFields
<1> HIDE DEF r, user
<1>8. /\ new \in [Bindings -> RowSet] /\ new[b] = r
      /\ \A c \in Bindings \ {b} : new[c] = mem[t][c]
  BY <1>4, <1>7
<1> HIDE DEF new
<1>9. "write" \in Labels /\ user \in Users /\ user # "none"
  BY <1>7 DEF Labels, Users
<1>10. Own(t) /\ Resting(t) /\ pc'[t] = "write" /\ todo'[t] = todo[t] /\ mem'[t] = new
  BY <1>0, <1>4, <1>5, <1>8, <1>9, HoldFacts
<1>11. StoreTyped' /\ rows' = rows /\ overlap' = overlap
  BY <1>0, <1>1, StoreFrame
<1>12. PanelTyped'
  BY <1>0, <1>5, <1>9 DEF MultiSubTypeOK, PanelTyped
<1>13. /\ ThreadsTyped'
       /\ \A u \in Threads : listed'[u] = listed[u] /\ todo'[u] = todo[u]
       /\ \A u \in Threads \ {t} : pc'[u] = pc[u] /\ mem'[u] = mem[u]
  BY <1>10 DEF Own, Others, Resting
<1>14. HasUser(b)
  BY <1>0, <1>5, ExistingUser
<1>15. HeldOn(b, user)
  <2>1. ASSUME NEW c \in todo'[t]
        PROVE  \/ /\ c # b
                  /\ mem'[t][c] = mem[t][c]
               \/ /\ c = b
                  /\ mem'[t][b].st # "none"
                  /\ mem'[t][b].st = "deprovisioned"
                     => mem[t][b].st = "deprovisioned" \/ user = "deleted"
                  /\ mem'[t][b].uuid = mem[t][b].uuid \/ user = "deleted"
    <3>1. CASE c # b
      BY <1>4, <1>8, <1>10, <2>1, <3>1
    <3>2. CASE c = b
      BY <1>7, <1>8, <1>10, <3>2
    <3> QED
      BY <3>1, <3>2
  <2>2. pc[t] = "call" /\ pc'[t] = "write"
    BY <1>1, <1>10
  <2> QED
    BY <1>13, <2>1, <2>2 DEF HeldOn, Bearing
<1>16. BindInv'
  BY <1>0, <1>1, <1>5, <1>9, <1>11, <1>13, <1>14, <1>15, PanelStep
<1>17. AtWork(t)'
  BY <1>0, <1>1, <1>2, <1>3, <1>4, <1>10 DEF AtWork, Resting, OneBinding
<1> QED
  BY <1>1, <1>10, <1>11, <1>12, <1>16, <1>17, Together

\* What a failing call makes of the goroutine: it goes on, or marks the copy.
LEMMA CallFailed ==
    ASSUME MultiSubInv, NEW t \in Threads, pc[t] = "call", NEW b \in Bindings, b = Cur(t),
           IF ev[t] = "resumed"
           THEN Finished(t, Cur(t), "call")
           ELSE Hold(t, todo[t], [mem[t] EXCEPT ![Cur(t)] = transitionTo(@, "failed")], "write")
    PROVE  /\ Own(t) /\ AtWork(t)'
           /\ pc'[t] \in {"idle", "call", "write"}
           /\ listed'[t] = {} /\ todo'[t] \subseteq todo[t]
           /\ \A c \in todo'[t] :
                 \/ mem'[t][c] = mem[t][c]
                 \/ /\ c = b
                    /\ mem'[t][b].uuid = mem[t][b].uuid
                    /\ mem'[t][b].st \in {mem[t][b].st, "failed"}
<1>0. MultiSubTypeOK /\ AtWork(t)
  BY DEF MultiSubInv, ThreadsAtWork
<1>1. /\ b \in todo[t] /\ listed[t] = {}
      /\ ev[t] \in {"cancelled", "paused", "resumed", "reconcile"}
      /\ mem[t] \in [Bindings -> RowSet] /\ todo[t] \subseteq Bindings
  BY CallFacts
<1>2. "call" \in Labels /\ "write" \in Labels
  BY DEF Labels
<1>3. CASE ev[t] = "resumed"
  <2>1. Ended(t) \/ LoopsOn(t, b, "call")
    BY <1>0, <1>2, <1>3, FinishedFacts
  <2>2. CASE Ended(t)
    BY <2>2 DEF Ended, AtWork, OneBinding
  <2>3. CASE LoopsOn(t, b, "call")
    <3>1. /\ Own(t) /\ pc'[t] = "call" /\ listed'[t] = {} /\ ev'[t] = "resumed"
          /\ todo'[t] = todo[t] \ {b} /\ todo'[t] # {} /\ mem'[t] = mem[t]
      BY <1>1, <1>3, <2>3 DEF LoopsOn, Resting
    <3>2. AtWork(t)'
      BY <3>1 DEF AtWork, OneBinding
    <3> QED
      BY <3>1, <3>2
  <2> QED
    BY <2>1, <2>2, <2>3
<1>4. CASE ev[t] # "resumed"
  <2> DEFINE r == transitionTo(mem[t][b], "failed")
             new == [mem[t] EXCEPT ![b] = r]
  <2>1. Hold(t, todo[t], new, "write")
    BY <1>4
  <2>2. "failed" \in Statuses /\ mem[t][b] \in RowSet
    BY <1>1 DEF Statuses
  <2>3. r \in RowSet /\ r.uuid = mem[t][b].uuid /\ r.st \in {mem[t][b].st, "failed"}
    BY <2>2, TransitionFields
  <2> HIDE DEF r
  <2>4. /\ new \in [Bindings -> RowSet] /\ new[b] = r
        /\ \A c \in Bindings \ {b} : new[c] = mem[t][c]
    BY <1>1, <2>3
  <2> HIDE DEF new
  <2>5. Own(t) /\ Resting(t) /\ pc'[t] = "write" /\ todo'[t] = todo[t] /\ mem'[t] = new
    BY <1>0, <1>1, <1>2, <2>1, <2>4, HoldFacts
  <2>6. AtWork(t)' /\ listed'[t] = {}
    BY <1>1, <2>5 DEF AtWork, Resting, OneBinding
  <2> QED
    BY <1>1, <2>3, <2>4, <2>5, <2>6
<1> QED
  BY <1>3, <1>4

LEMMA GatewayErrorStep ==
    ASSUME MultiSubInv, NEW t \in Threads, GatewayError(t)
    PROVE  MultiSubInv'
<1>0. MultiSubTypeOK /\ BindInv
  BY DEF MultiSubInv
<1>1. /\ pc[t] = "call" /\ UNCHANGED dbVars
      /\ IF ev[t] = "resumed"
         THEN Finished(t, Cur(t), "call")
         ELSE Hold(t, todo[t], [mem[t] EXCEPT ![Cur(t)] = transitionTo(@, "failed")], "write")
  BY DEF GatewayError
<1>2. PICK b \in Bindings : b = Cur(t) /\ b \in todo[t]
  BY <1>1, CallFacts
<1>3. PICK k \in {"cancelled", "paused", "resumed", "reconcile"} : k = ev[t]
  BY <1>1, CallFacts
<1>4. /\ Own(t) /\ AtWork(t)'
      /\ pc'[t] \in {"idle", "call", "write"}
      /\ listed'[t] = {} /\ todo'[t] \subseteq todo[t]
      /\ \A c \in todo'[t] :
            \/ mem'[t][c] = mem[t][c]
            \/ /\ c = b
               /\ mem'[t][b].uuid = mem[t][b].uuid
               /\ mem'[t][b].st \in {mem[t][b].st, "failed"}
  BY <1>1, <1>2, CallFailed
<1>5. StoreTyped' /\ rows' = rows /\ overlap' = overlap
  BY <1>0, <1>1, StoreFrame
<1>6. CASE panel' = panel /\ (NoFault \/ Spend("refused", {}))
  <2>1. FaultsTyped' /\ upset \subseteq upset'
    BY <1>0, <1>6, KindsKnown, FaultFacts
  <2>2. Quiet
    BY <1>5, <1>6, <2>1 DEF Quiet, RowKept
  <2>3. ASSUME NEW c \in todo'[t]
        PROVE  GoodCopy(t, c)
    <3>1. /\ c \in todo[t] /\ mem'[t][c].uuid = mem[t][c].uuid
          /\ mem'[t][c].st \in {mem[t][c].st, "failed"}
      BY <1>4, <2>3
    <3> QED
      BY <1>0, <1>1, <1>5, <2>1, <3>1, CopyKept
  <2>4. StillBearing(t) /\ pc'[t] # "user"
    BY <1>1, <1>4 DEF StillBearing, Bearing
  <2>5. BindInv'
    BY <1>0, <1>4, <2>2, <2>3, <2>4, QuietStep
  <2>6. PanelTyped'
    BY <1>0, <1>6 DEF MultiSubTypeOK, PanelTyped
  <2> QED
    BY <1>4, <1>5, <2>1, <2>5, <2>6, Together
<1>7. CASE /\ OnPanel(b)
           /\ panel' = [panel EXCEPT ![b] = Effect(k)]
           /\ Spend("lost", {b})
  <2> DEFINE user == Effect(k)
  <2>1. FaultsTyped' /\ upset \subseteq upset'
    BY <1>0, <1>7, KindsKnown, SpendFacts
  <2>2. user \in Users /\ user # "none" /\ panel' = [panel EXCEPT ![b] = user]
    BY <1>3, <1>7 DEF Effect, Users
  <2> HIDE DEF user
  <2>3. HasUser(b)
    BY <1>0, <1>7, ExistingUser
  <2>4. PanelTyped'
    BY <1>0, <2>2 DEF MultiSubTypeOK, PanelTyped
  <2>5. /\ ThreadsTyped'
        /\ \A u \in Threads \ {t} : /\ listed'[u] = listed[u] /\ todo'[u] = todo[u]
                                    /\ pc'[u] = pc[u] /\ mem'[u] = mem[u]
    BY <1>4 DEF Own, Others
  <2>6. mem[t][b].st # "none"
    BY <1>0, <1>2 DEF BindInv, RowsStay
  <2>7. HeldOn(b, user)
    BY <1>1, <1>4, <2>5, <2>6 DEF HeldOn, Bearing
  <2>8. BindInv'
    BY <1>0, <1>5, <1>7, <2>1, <2>2, <2>3, <2>5, <2>7, PanelStep
  <2> QED
    BY <1>4, <1>5, <2>1, <2>4, <2>8, Together
<1> QED
  BY <1>2, <1>3, <1>6, <1>7 DEF GatewayError

LEMMA WriteStep ==
    ASSUME MultiSubInv, NEW t \in Threads, Write(t)
    PROVE  MultiSubInv'
<1>0. MultiSubTypeOK /\ BindInv /\ AtWork(t)
  BY DEF MultiSubInv, ThreadsAtWork
<1>9. pc[t] \in {"mark", "write"}
  BY DEF Write
<1>1. PICK l \in {"mark", "call"} :
         /\ Finished(t, Cur(t), l)
         /\ l = IF pc[t] = "mark" THEN "mark" ELSE "call"
  BY DEF Write
<1>2. todo[t] # {} /\ l \in Labels /\ UNCHANGED panel
  BY <1>0, <1>9, <1>1 DEF AtWork, Labels, Write
<1>3. PICK b \in Bindings : b = Cur(t) /\ b \in todo[t]
  BY <1>0, <1>2, CurHeld
<1>4. Ended(t) \/ LoopsOn(t, b, l)
  BY <1>0, <1>1, <1>2, <1>3, FinishedFacts
<1>5. /\ Own(t) /\ pc'[t] \in {"idle", "get", l} /\ listed'[t] \subseteq listed[t]
      /\ todo'[t] = {} \/ /\ todo'[t] = todo[t] \ {b}
                          /\ mem'[t] = mem[t]
                          /\ pc[t] = "mark" => pc'[t] = "mark"
                          /\ pc[t] # "fetch"
      /\ AtWork(t)'
  <2>1. CASE Ended(t)
    BY <2>1 DEF Ended, AtWork, OneBinding
  <2>2. CASE LoopsOn(t, b, l)
    <3>1. /\ Own(t) /\ ev'[t] = ev[t] /\ listed'[t] = listed[t]
          /\ pc'[t] = IF listed[t] = {} THEN l ELSE "get"
          /\ listed[t] = {} => todo'[t] # {}
          /\ todo'[t] = todo[t] \ {b} /\ mem'[t] = mem[t]
      BY <2>2 DEF LoopsOn, Resting
    <3>2. /\ pc[t] = "mark" => ev[t] = "cancelled" /\ listed[t] = {}
          /\ pc[t] = "write" /\ listed[t] = {} =>
                ev[t] \in {"cancelled", "paused", "resumed", "reconcile"}
      <4>1. pc[t] = "mark" => ev[t] = "cancelled" /\ listed[t] = {}
        BY <1>0 DEF AtWork
      <4>2. CASE pc[t] = "write" /\ listed[t] = {} /\ ev[t] = "sync"
        <5>1. PICK c \in Bindings : todo[t] = {c}
          BY <1>0, <4>2 DEF AtWork
        <5> QED
          BY <1>3, <3>1, <4>2, <5>1
      <4> QED
        BY <1>0, <4>1, <4>2 DEF AtWork
    <3>3. AtWork(t)'
      <4>1. CASE listed[t] = {}
        BY <1>9, <1>1, <3>1, <3>2, <4>1 DEF AtWork, OneBinding
      <4>2. CASE listed[t] # {}
        BY <1>0, <1>9, <1>1, <3>1, <3>2, <4>2 DEF AtWork, OneBinding
      <4> QED
        BY <4>1, <4>2
    <3> QED
      BY <1>9, <1>1, <3>1, <3>2, <3>3
  <2> QED
    BY <1>4, <2>1, <2>2
<1>6. CASE Update(t, Cur(t)) /\ NoFault
  <2>1. FaultsTyped' /\ upset \subseteq upset' /\ PanelTyped'
    BY <1>0, <1>2, <1>6, NoFaultFacts DEF MultiSubTypeOK, PanelTyped
  <2>2. StoreTyped'
    BY <1>0, <1>3, <1>6, UpdateFacts
  <2>3. pc[t] \notin Bearing /\ pc[t] # "user" /\ pc'[t] \notin Bearing /\ pc'[t] # "user"
    BY <1>9, <1>1, <1>5 DEF Bearing
  <2>4. BindInv'
    BY <1>0, <1>2, <1>3, <1>5, <1>6, <2>1, <2>3, UpdateStep
  <2> QED
    BY <1>5, <2>1, <2>2, <2>4, Together
<1>7. CASE UNCHANGED dbVars /\ Spend("db", {})
  <2>1. FaultsTyped' /\ upset \subseteq upset' /\ PanelTyped'
    BY <1>0, <1>2, <1>7, KindsKnown, SpendFacts DEF MultiSubTypeOK, PanelTyped
  <2>2. StoreTyped' /\ rows' = rows /\ overlap' = overlap
    BY <1>0, <1>7, StoreFrame
  <2>3. StillBearing(t) /\ pc'[t] # "user"
    BY <1>9, <1>1, <1>5 DEF StillBearing, Bearing
  <2>4. BindInv'
    BY <1>0, <1>9, <1>1, <1>2, <1>5, <2>1, <2>2, <2>3, DropStep
  <2> QED
    BY <1>5, <2>1, <2>2, <2>4, Together
<1> QED
  BY <1>6, <1>7 DEF Write

-----------------------------------------------------------------------------
(* The reconciler and the sync service.                                      *)

\* An idle goroutine starts a pass at label l.
LEMMA StartFacts ==
    ASSUME MultiSubTypeOK, NEW t \in Threads, NEW l \in Labels, NEW e \in Work,
           NEW L \in SUBSET Bindings,
           pc' = [pc EXCEPT ![t] = l], ev' = [ev EXCEPT ![t] = e],
           listed' = [listed EXCEPT ![t] = L],
           UNCHANGED <<inbox, todo, mem, step, done>>
    PROVE  /\ Own(t) /\ pc'[t] = l /\ ev'[t] = e /\ listed'[t] = L
           /\ todo'[t] = todo[t] /\ mem'[t] = mem[t]
  BY DEF MultiSubTypeOK, ThreadsTyped, EventsTyped, Own, Others

LEMMA ResetAbandonedStep ==
    ASSUME MultiSubInv, NEW t \in Threads, ResetAbandoned(t)
    PROVE  MultiSubInv'
<1>0. MultiSubTypeOK /\ BindInv /\ AtWork(t)
  BY DEF MultiSubInv, ThreadsAtWork
<1>1. pc[t] = "idle" /\ listed[t] = {} /\ UNCHANGED panel
  BY <1>0 DEF ResetAbandoned, AtWork
<1>2. "claim" \in Labels /\ "reconcile" \in Work
  BY DEF Labels, Work
<1>3. /\ Own(t) /\ pc'[t] = "claim" /\ ev'[t] = "reconcile" /\ listed'[t] = {}
      /\ todo'[t] = todo[t] /\ mem'[t] = mem[t]
  BY <1>0, <1>1, <1>2 DEF ResetAbandoned, MultiSubTypeOK, ThreadsTyped, EventsTyped, Own, Others
<1>4. AtWork(t)'
  BY <1>3 DEF AtWork, OneBinding
<1>5. PanelTyped'
  BY <1>0, <1>1 DEF MultiSubTypeOK, PanelTyped
<1>6. rows \in [Bindings -> RowSet] /\ old \subseteq Bindings
  BY <1>0 DEF MultiSubTypeOK, StoreTyped
<1> DEFINE S == {b \in old : visible /\ rows[b].st = "reconciling"}
           new == [b \in Bindings |->
                     IF b \in S THEN Row("failed", rows[b].uuid) ELSE rows[b]]
<1>7. CASE WriteRows(t, S, new) /\ NoFault
  <2>1. \A b \in Bindings : rows[b] \in RowSet /\ rows[b].uuid \in BOOLEAN
    BY <1>6 DEF RowSet
  <2>2. \A b \in Bindings : Row("failed", rows[b].uuid) \in RowSet
    BY <2>1 DEF Row, RowSet, Statuses
  <2>3. new \in [Bindings -> RowSet] /\ S \in SUBSET Bindings
    BY <1>6, <2>1, <2>2
  <2>4. \A b \in Bindings :
           \/ new[b] = rows[b]
           \/ /\ rows[b].st = "reconciling"
              /\ new[b].st = "failed" /\ new[b].uuid = rows[b].uuid
    BY RowFields
  <2>5. WriteRows(t, S, new)
    BY <1>7
  <2> HIDE DEF S, new
  <2>6. StoreTyped' /\ rows' = new /\ overlap \subseteq overlap'
    BY <1>0, <2>3, <2>5, WriteRowsFacts
  <2>7. FaultsTyped' /\ upset \subseteq upset'
    BY <1>0, <1>7, NoFaultFacts
  <2>8. Quiet
    BY <1>1, <2>4, <2>6, <2>7 DEF Quiet, RowKept, Raw
  <2>9. ASSUME NEW b \in todo'[t]
        PROVE  GoodCopy(t, b)
    BY <1>0, <1>1, <1>3, <2>6, <2>7, <2>9, CopyKept
  <2>10. StillBearing(t) /\ pc'[t] # "user"
    BY <1>1, <1>3 DEF StillBearing, Bearing
  <2>11. BindInv'
    BY <1>0, <1>3, <2>8, <2>9, <2>10, QuietStep
  <2> QED
    BY <1>3, <1>4, <1>5, <2>6, <2>7, <2>11, Together
<1>8. CASE UNCHANGED dbVars /\ Spend("db", {})
  <2>1. FaultsTyped' /\ upset \subseteq upset'
    BY <1>0, <1>8, KindsKnown, SpendFacts
  <2> QED
    BY <1>1, <1>3, <1>4, <1>8, <2>1, MovesStep DEF Bearing
<1> QED
  BY <1>7, <1>8 DEF ResetAbandoned

LEMMA ClaimStep ==
    ASSUME MultiSubInv, NEW t \in Threads, Claim(t)
    PROVE  MultiSubInv'
<1>0. MultiSubTypeOK /\ BindInv /\ AtWork(t)
  BY DEF MultiSubInv, ThreadsAtWork
<1> DEFINE S == {b \in With("failed") : visible /\ rows[b].uuid}
           new == [b \in Bindings |-> IF b \in S THEN transitionTo(rows[b], "reconciling")
                                                 ELSE rows[b]]
<1>1. /\ pc[t] = "claim" /\ ev[t] = "reconcile" /\ listed[t] = {} /\ UNCHANGED panel
      /\ FaultsTyped' /\ upset \subseteq upset'
  BY <1>0, NoFaultFacts DEF Claim, AtWork
<1>2. WriteRows(t, S, new) /\ IF S = {} THEN Return(t) ELSE Hold(t, S, new, "call")
  BY DEF Claim
<1>3. /\ rows \in [Bindings -> RowSet] /\ "reconciling" \in Statuses /\ "call" \in Labels
  BY <1>0 DEF MultiSubTypeOK, StoreTyped, Statuses, Labels
<1>4. new \in [Bindings -> RowSet] /\ S \in SUBSET Bindings
  BY <1>3, TransitionFields DEF With
<1>5. \A b \in S : rows[b].st = "failed" /\ rows[b].uuid
  BY DEF With
<1>6. \A b \in Bindings :
         /\ b \notin S => new[b] = rows[b]
         /\ b \in S => new[b].st \in {"failed", "reconciling"} /\ new[b].uuid = rows[b].uuid
  BY <1>3, <1>5, TransitionFields
<1> HIDE DEF S, new
<1>7. StoreTyped' /\ rows' = new /\ overlap \subseteq overlap'
  BY <1>0, <1>2, <1>4, WriteRowsFacts
<1>8. Quiet
  BY <1>1, <1>5, <1>6, <1>7 DEF Quiet, RowKept, Raw
<1>9. PanelTyped'
  BY <1>0, <1>1 DEF MultiSubTypeOK, PanelTyped
<1>10. CASE S = {}
  <2>1. Ended(t)
    BY <1>0, <1>2, <1>10, EndedFacts
  <2>2. /\ Own(t) /\ AtWork(t)' /\ pc'[t] # "user" /\ StillBearing(t)
        /\ todo'[t] = {} /\ listed'[t] = {}
    BY <1>1, <2>1 DEF Ended, AtWork, OneBinding, StillBearing, Bearing
  <2>3. BindInv'
    BY <1>0, <1>8, <2>2, QuietStep
  <2> QED
    BY <1>1, <1>7, <1>9, <2>2, <2>3, Together
<1>11. CASE S # {}
  <2>1. Own(t) /\ Resting(t) /\ pc'[t] = "call" /\ todo'[t] = S /\ mem'[t] = new
    BY <1>0, <1>2, <1>3, <1>4, <1>11, HoldFacts
  <2>2. \A b \in todo'[t] : GoodCopy(t, b)
    BY <1>4, <1>5, <1>6, <2>1 DEF GoodCopy, Raw
  <2>3. /\ AtWork(t)' /\ pc'[t] # "user" /\ StillBearing(t) /\ listed'[t] = {}
    BY <1>1, <1>11, <2>1 DEF Resting, AtWork, OneBinding, StillBearing, Bearing
  <2>4. BindInv'
    BY <1>0, <1>8, <2>1, <2>2, <2>3, QuietStep
  <2> QED
    BY <1>1, <1>7, <1>9, <2>1, <2>3, <2>4, Together
<1> QED
  BY <1>10, <1>11

LEMMA ListForSyncStep ==
    ASSUME MultiSubInv, NEW t \in Threads, ListForSync(t)
    PROVE  MultiSubInv'
<1>0. MultiSubTypeOK /\ BindInv /\ AtWork(t)
  BY DEF MultiSubInv, ThreadsAtWork
<1> DEFINE L == With("active")
<1>1. L \in SUBSET Bindings /\ \A b \in L : rows[b].st = "active"
  BY DEF With
<1>2. /\ pc[t] = "idle" /\ L # {} /\ UNCHANGED panel /\ UNCHANGED dbVars
      /\ pc' = [pc EXCEPT ![t] = "get"] /\ ev' = [ev EXCEPT ![t] = "sync"]
      /\ listed' = [listed EXCEPT ![t] = L]
      /\ UNCHANGED <<inbox, todo, mem, step, done>> /\ Spend("sync", {})
  BY DEF ListForSync
<1> HIDE DEF L
<1>3. "get" \in Labels /\ "sync" \in Work
  BY DEF Labels, Work
<1>4. /\ Own(t) /\ pc'[t] = "get" /\ ev'[t] = "sync" /\ listed'[t] = L
      /\ todo'[t] = todo[t] /\ mem'[t] = mem[t]
  BY <1>0, <1>1, <1>2, <1>3, StartFacts
<1>5. FaultsTyped' /\ upset \subseteq upset'
  BY <1>0, <1>2, KindsKnown, SpendFacts
<1>6. StoreTyped' /\ rows' = rows /\ overlap' = overlap /\ PanelTyped'
  BY <1>0, <1>2, StoreFrame DEF MultiSubTypeOK, PanelTyped
<1>7. Quiet
  BY <1>2, <1>5, <1>6 DEF Quiet, RowKept
<1>8. ASSUME NEW b \in todo'[t]
      PROVE  GoodCopy(t, b)
  BY <1>0, <1>2, <1>4, <1>5, <1>6, <1>8, CopyKept
<1>9. /\ AtWork(t)' /\ pc'[t] # "user" /\ StillBearing(t)
  BY <1>2, <1>4 DEF AtWork, OneBinding, StillBearing, Bearing
<1>10. BindInv'
  BY <1>0, <1>1, <1>4, <1>7, <1>8, <1>9, QuietStep
<1> QED
  BY <1>4, <1>5, <1>6, <1>9, <1>10, Together

LEMMA GetByIDStep ==
    ASSUME MultiSubInv, NEW t \in Threads, GetByID(t)
    PROVE  MultiSubInv'
<1>0. MultiSubTypeOK /\ BindInv /\ AtWork(t)
  BY DEF MultiSubInv, ThreadsAtWork
<1>1. /\ pc[t] = "get" /\ ev[t] = "sync" /\ listed[t] # {} /\ UNCHANGED panel
      /\ UNCHANGED dbVars /\ FaultsTyped' /\ upset \subseteq upset'
  BY <1>0, NoFaultFacts DEF GetByID, AtWork
<1>2. ThreadsTyped /\ EventsTyped /\ rows \in [Bindings -> RowSet]
  BY <1>0 DEF MultiSubTypeOK, StoreTyped
<1>3. PICK b \in Bindings : b = Min(listed[t]) /\ b \in listed[t]
  BY <1>1, <1>2, MinOf DEF ThreadsTyped
<1>4. /\ listed' = [listed EXCEPT ![t] = @ \ {b}]
      /\ todo' = [todo EXCEPT ![t] = {b}]
      /\ mem' = [mem EXCEPT ![t][b] = rows[b]]
      /\ pc' = [pc EXCEPT ![t] = "fetch"]
      /\ UNCHANGED <<inbox, ev, step, done>>
  BY <1>3 DEF GetByID
<1>5. "fetch" \in Labels
  BY DEF Labels
<1>6. /\ Own(t) /\ pc'[t] = "fetch" /\ ev'[t] = "sync" /\ listed'[t] = listed[t] \ {b}
      /\ todo'[t] = {b} /\ mem'[t][b] = rows[b]
  BY <1>1, <1>2, <1>4, <1>5 DEF ThreadsTyped, EventsTyped, Own, Others
<1>7. StoreTyped' /\ rows' = rows /\ overlap' = overlap /\ PanelTyped'
  BY <1>0, <1>1, StoreFrame DEF MultiSubTypeOK, PanelTyped
<1>8. Quiet
  BY <1>1, <1>7 DEF Quiet, RowKept
<1>9. rows[b].st # "none" /\ (rows[b].st = "deprovisioned" => panel[b] = "deleted")
  BY <1>0, <1>3 DEF BindInv, RowsStay, DeprovisionedIsGone
<1>10. \A c \in todo'[t] : GoodCopy(t, c)
  BY <1>6, <1>9 DEF GoodCopy
<1>11. \A c \in listed'[t] : rows[c].st # "none"
  BY <1>0, <1>6 DEF BindInv, RowsStay
<1>12. /\ AtWork(t)' /\ pc'[t] # "user" /\ StillBearing(t)
  BY <1>1, <1>6 DEF AtWork, OneBinding, StillBearing, Bearing
<1>13. BindInv'
  BY <1>0, <1>6, <1>8, <1>10, <1>11, <1>12, QuietStep
<1> QED
  BY <1>1, <1>6, <1>7, <1>12, <1>13, Together

\* A sync pass is finished with its binding.
LEMMA SyncFinished ==
    ASSUME MultiSubInv, NEW t \in Threads, pc[t] = "fetch", Finished(t, Cur(t), "get"),
           UNCHANGED panel, UNCHANGED dbVars, FaultsTyped', upset \subseteq upset'
    PROVE  MultiSubInv'
<1>0. MultiSubTypeOK /\ BindInv /\ AtWork(t)
  BY DEF MultiSubInv, ThreadsAtWork
<1>1. PICK b \in Bindings : b = Cur(t) /\ todo[t] = {b}
  BY OneHeld DEF OneBinding
<1>2. "get" \in Labels
  BY DEF Labels
<1>3. Ended(t) \/ LoopsOn(t, b, "get")
  BY <1>0, <1>1, <1>2, FinishedFacts
<1>4. /\ Own(t) /\ pc'[t] \in {"idle", "get"} /\ listed'[t] \subseteq listed[t]
      /\ todo'[t] = {} /\ AtWork(t)'
  <2>1. CASE Ended(t)
    BY <2>1 DEF Ended, AtWork, OneBinding
  <2>2. CASE LoopsOn(t, b, "get")
    BY <1>0, <1>1, <2>2 DEF LoopsOn, Resting, AtWork, OneBinding
  <2> QED
    BY <1>3, <2>1, <2>2
<1>5. StoreTyped' /\ rows' = rows /\ overlap' = overlap /\ PanelTyped'
  BY <1>0, StoreFrame DEF MultiSubTypeOK, PanelTyped
<1>6. StillBearing(t) /\ pc'[t] # "user"
  BY <1>4 DEF StillBearing, Bearing
<1>7. BindInv'
  BY <1>0, <1>4, <1>5, <1>6, DropStep
<1> QED
  BY <1>4, <1>5, <1>7, Together

LEMMA GetUserErrorStep ==
    ASSUME MultiSubInv, NEW t \in Threads, GetUserError(t)
    PROVE  MultiSubInv'
<1>1. FaultsTyped' /\ upset \subseteq upset'
  BY KindsKnown, SpendFacts DEF GetUserError, MultiSubInv
<1> QED
  BY <1>1, SyncFinished DEF GetUserError

LEMMA GetUserStep ==
    ASSUME MultiSubInv, NEW t \in Threads, GetUser(t)
    PROVE  MultiSubInv'
<1>0. MultiSubTypeOK /\ BindInv /\ AtWork(t)
  BY DEF MultiSubInv, ThreadsAtWork
<1>1. /\ pc[t] = "fetch" /\ UNCHANGED panel /\ UNCHANGED dbVars
      /\ FaultsTyped' /\ upset \subseteq upset'
  BY <1>0, NoFaultFacts DEF GetUser
<1>2. PICK b \in Bindings : b = Cur(t) /\ todo[t] = {b}
  BY <1>1, OneHeld DEF OneBinding
<1>3. CASE ~(mem[t][Cur(t)].uuid /\ OnPanel(Cur(t)))
  BY <1>1, <1>3, SyncFinished DEF GetUser
<1>4. CASE mem[t][Cur(t)].uuid /\ OnPanel(Cur(t))
  <2>1. mem[t] \in [Bindings -> RowSet] /\ mem[t][b] \in RowSet /\ mem[t][b].uuid
    BY <1>0, <1>2, <1>4 DEF MultiSubTypeOK, ThreadsTyped
  <2>2. panel[b] \in {"enabled", "disabled", "limited"}
    BY <1>2, <1>4 DEF OnPanel
  <2> DEFINE r == SyncStatus(mem[t][b], panel[b])
             new == [mem[t] EXCEPT ![b] = r]
  <2>3. r \in RowSet /\ r.uuid = mem[t][b].uuid /\ r.st \in {mem[t][b].st, "active", "disabled"}
    BY <2>1, <2>2, SyncFields
  <2>4. Hold(t, {b}, new, "write")
    BY <1>2, <1>4 DEF GetUser
  <2> HIDE DEF r
  <2>5. new \in [Bindings -> RowSet] /\ new[b] = r
    BY <2>1, <2>3
  <2> HIDE DEF new
  <2>6. "write" \in Labels
    BY DEF Labels
  <2>7. Own(t) /\ Resting(t) /\ pc'[t] = "write" /\ todo'[t] = {b} /\ mem'[t] = new
    BY <1>0, <2>4, <2>5, <2>6, HoldFacts
  <2>8. StoreTyped' /\ rows' = rows /\ overlap' = overlap /\ PanelTyped'
    BY <1>0, <1>1, StoreFrame DEF MultiSubTypeOK, PanelTyped
  <2>9. Quiet
    BY <1>1, <2>8 DEF Quiet, RowKept
  <2>10. GoodCopy(t, b)
    BY <1>0, <1>1, <1>2, <2>1, <2>3, <2>5, <2>7, <2>8, CopyKept
  <2>11. \A c \in listed'[t] : rows[c].st # "none"
    BY <1>0, <2>7 DEF Resting, BindInv, RowsStay
  <2>12. AtWork(t)' /\ pc'[t] # "user" /\ StillBearing(t)
    BY <1>0, <1>1, <2>7 DEF Resting, AtWork, OneBinding, StillBearing, Bearing
  <2>13. BindInv'
    BY <1>0, <2>7, <2>9, <2>10, <2>11, <2>12, QuietStep
  <2> QED
    BY <1>1, <2>7, <2>8, <2>12, <2>13, Together
<1> QED
  BY <1>3, <1>4

-----------------------------------------------------------------------------
(* The environment.                                                          *)

\* Nothing that the invariant relates changes.
LEMMA Stutter ==
    ASSUME MultiSubInv, UNCHANGED <<visible, rows, panel, threadVars, overlap>>,
           upset \subseteq upset', FaultsTyped', EventsTyped', old' \in SUBSET Bindings
    PROVE  MultiSubInv'
<1>1. /\ pc' = pc /\ ev' = ev /\ listed' = listed /\ todo' = todo /\ mem' = mem
      /\ step' = step /\ visible' = visible /\ rows' = rows /\ panel' = panel
      /\ overlap' = overlap
  BY DEF threadVars
<1>2. MultiSubTypeOK'
  BY <1>1 DEF MultiSubInv, MultiSubTypeOK, StoreTyped, ThreadsTyped, PanelTyped
<1>3. ThreadsAtWork'
  BY <1>1 DEF MultiSubInv, ThreadsAtWork, AtWork
<1>4. (RowsStay /\ UsersUnborn /\ DeprovisionedIsGone /\ CopiesGone)'
  BY <1>1 DEF MultiSubInv, BindInv, RowsStay, UsersUnborn, Unborn, DeprovisionedIsGone,
              CopiesGone
<1>5. UsersKnown' /\ CopiesKnow'
  BY <1>1 DEF MultiSubInv, BindInv, UsersKnown, Borne, OnPanel, CopiesKnow
<1> QED
  BY <1>2, <1>3, <1>4, <1>5 DEF MultiSubInv, BindInv

LEMMA AgeSteps ==
    ASSUME MultiSubInv, NEW b \in Bindings, Abandon(b) \/ Outlive(b)
    PROVE  MultiSubInv'
<1>0. MultiSubTypeOK
  BY DEF MultiSubInv
<1>1. FaultsTyped' /\ upset \subseteq upset'
  BY <1>0, KindsKnown, SpendFacts, NoFaultFacts DEF Abandon, Outlive
<1>2. Age(b)
  BY DEF Abandon, Outlive
<1>3. EventsTyped' /\ old' \in SUBSET Bindings
  BY <1>0, <1>2 DEF Age, MultiSubTypeOK, EventsTyped, StoreTyped
<1> QED
  BY <1>1, <1>2, <1>3, Stutter DEF Age

LEMMA BillSteps ==
    ASSUME MultiSubInv, Cancel \/ Pause \/ Resume
    PROVE  MultiSubInv'
<1>0. MultiSubTypeOK
  BY DEF MultiSubInv
<1>1. FaultsTyped' /\ upset \subseteq upset'
  BY <1>0, KindsKnown, SpendFacts, NoFaultFacts DEF Cancel, Pause, Resume
<1>2. PICK e \in {"cancelled", "paused", "resumed"} : inbox' = inbox \cup {e}
  BY DEF Cancel, Pause, Resume, Bill
<1>3. UNCHANGED <<panel, threadVars, dbVars, done>>
  BY DEF Cancel, Pause, Resume, Bill
<1>4. EventsTyped' /\ old' \in SUBSET Bindings
  BY <1>0, <1>2, <1>3 DEF MultiSubTypeOK, EventsTyped, StoreTyped, dbVars, Work, Events
<1> QED
  BY <1>1, <1>3, <1>4, Stutter DEF dbVars

LEMMA TrafficSteps ==
    ASSUME MultiSubInv, NEW b \in Bindings, TrafficExceeded(b) \/ TrafficReset(b)
    PROVE  MultiSubInv'
<1>0. MultiSubTypeOK /\ ThreadsAtWork /\ BindInv
  BY DEF MultiSubInv
<1>1. FaultsTyped' /\ upset \subseteq upset'
  BY <1>0, KindsKnown, SpendFacts, NoFaultFacts DEF TrafficExceeded, TrafficReset
<1>2. PICK user \in {"enabled", "limited"} :
         OnPanel(b) /\ panel' = [panel EXCEPT ![b] = user]
  BY DEF TrafficExceeded, TrafficReset, Traffic, OnPanel
<1>3. UNCHANGED <<inbox, threadVars, dbVars, done>>
  BY DEF TrafficExceeded, TrafficReset, Traffic
<1>4. /\ pc' = pc /\ ev' = ev /\ listed' = listed /\ todo' = todo /\ mem' = mem
      /\ step' = step /\ visible' = visible /\ rows' = rows /\ overlap' = overlap /\ old' = old
  BY <1>3 DEF threadVars, dbVars
<1>5. user \in Users /\ user # "none"
  BY DEF Users
<1>6. MultiSubTypeOK'
  BY <1>0, <1>1, <1>2, <1>3, <1>4, <1>5
    DEF MultiSubTypeOK, StoreTyped, ThreadsTyped, EventsTyped, PanelTyped
<1>7. ThreadsAtWork'
  BY <1>0, <1>4 DEF ThreadsAtWork, AtWork
<1>8. HeldOn(b, user)
  BY <1>4 DEF HeldOn
<1>9. HasUser(b)
  BY <1>0, <1>2, ExistingUser
<1>10. BindInv'
  BY <1>0, <1>1, <1>2, <1>4, <1>5, <1>6, <1>8, <1>9, PanelStep DEF MultiSubTypeOK
<1> QED
  BY <1>6, <1>7, <1>10 DEF MultiSubInv

LEMMA CrashStep ==
    ASSUME MultiSubInv, NEW p \in Instances, Crash(p)
    PROVE  MultiSubInv'
<1>0. MultiSubTypeOK /\ ThreadsAtWork /\ BindInv
  BY DEF MultiSubInv
<1> DEFINE Dead == {t \in Threads : t[1] = p}
<1>1. /\ Spend("crash", UNION {todo[t] : t \in Dead})
      /\ pc' = [t \in Threads |-> IF t \in Dead THEN "idle" ELSE pc[t]]
      /\ ev' = [t \in Threads |-> IF t \in Dead THEN "none" ELSE ev[t]]
      /\ listed' = [t \in Threads |-> IF t \in Dead THEN {} ELSE listed[t]]
      /\ todo' = [t \in Threads |-> IF t \in Dead THEN {} ELSE todo[t]]
      /\ mem' = [t \in Threads |-> IF t \in Dead THEN [b \in Bindings |-> NoRow] ELSE mem[t]]
      /\ step' = [t \in Threads |-> IF t \in Dead THEN 0 ELSE step[t]]
      /\ UNCHANGED <<inbox, panel, dbVars, done>>
  BY DEF Crash
<1>2. Dead \subseteq Threads
  OBVIOUS
<1> HIDE DEF Dead
<1>3. ThreadsTyped /\ StoreTyped /\ EventsTyped /\ PanelTyped
  BY <1>0 DEF MultiSubTypeOK
<1>4. UNION {todo[t] : t \in Dead} \in SUBSET Bindings
  BY <1>2, <1>3 DEF ThreadsTyped
<1>5. /\ FaultsTyped' /\ upset \subseteq upset'
      /\ UNION {todo[t] : t \in Dead} \subseteq upset'
  BY <1>0, <1>1, <1>4, KindsKnown, SpendFacts
<1>6. \A t \in Dead : todo[t] \subseteq upset'
  BY <1>5
<1>7. NoRow \in RowSet /\ "idle" \in Labels /\ "none" \in Work
  BY DEF NoRow, Row, RowSet, Statuses, Labels, Work
<1>8. ThreadsTyped'
  BY <1>1, <1>3, <1>7 DEF ThreadsTyped
<1>9. StoreTyped' /\ EventsTyped' /\ PanelTyped' /\ rows' = rows /\ overlap' = overlap /\ panel' = panel
  BY <1>1, <1>3 DEF StoreTyped, EventsTyped, PanelTyped, dbVars
<1>10. /\ \A t \in Dead : pc'[t] = "idle" /\ ev'[t] = "none" /\ listed'[t] = {} /\ todo'[t] = {}
       /\ \A t \in Threads \ Dead : /\ pc'[t] = pc[t] /\ ev'[t] = ev[t] /\ listed'[t] = listed[t]
                                    /\ todo'[t] = todo[t] /\ mem'[t] = mem[t]
  BY <1>1, <1>2
<1>11. ThreadsAtWork'
  <2> SUFFICES ASSUME NEW t \in Threads
               PROVE  AtWork(t)'
    BY DEF ThreadsAtWork
  <2>1. CASE t \in Dead
    BY <1>10, <2>1 DEF AtWork, OneBinding
  <2>2. CASE t \notin Dead
    BY <1>0, <1>10, <2>2 DEF ThreadsAtWork, AtWork
  <2> QED
    BY <2>1, <2>2
<1>12. RowsStay' /\ DeprovisionedIsGone' /\ CopiesGone'
  BY <1>0, <1>9, <1>10 DEF BindInv, RowsStay, DeprovisionedIsGone, CopiesGone
<1>13. UsersUnborn'
  BY <1>0, <1>9, <1>10 DEF BindInv, UsersUnborn, Unborn
<1>14. UsersKnown'
  <2> SUFFICES ASSUME NEW b \in Bindings, b \notin overlap' \cup upset', OnPanel(b)'
               PROVE  rows'[b].uuid \/ Borne(b)'
    BY DEF UsersKnown
  <2>1. b \notin overlap \cup upset /\ OnPanel(b)
    BY <1>5, <1>9 DEF OnPanel
  <2>2. CASE Borne(b)
    <3>1. PICK t \in Threads : pc[t] \in Bearing /\ b \in todo[t]
      BY <2>2 DEF Borne
    <3>2. t \notin Dead
      BY <1>6, <3>1
    <3> QED
      BY <1>10, <3>1, <3>2 DEF Borne
  <2> QED
    BY <1>0, <1>9, <2>1, <2>2 DEF BindInv, UsersKnown
<1>15. CopiesKnow'
  BY <1>0, <1>5, <1>9, <1>10 DEF BindInv, CopiesKnow
<1> QED
  BY <1>5, <1>8, <1>9, <1>11, <1>12, <1>13, <1>14, <1>15 DEF MultiSubInv, MultiSubTypeOK, BindInv

-----------------------------------------------------------------------------
(* The theorems.                                                             *)

\* Where the rows of an initial state come from.
LEMMA Beginning ==
    ASSUME Init
    PROVE  \E kept \in SUBSET Bindings :
              /\ kept # {} => 1 .. Specs \subseteq kept
              /\ inbox = IF kept = {} THEN {"activated"} ELSE {}
              /\ done = IF kept = {} THEN {} ELSE {"activated"}
              /\ rows = [b \in Bindings |-> IF b \in kept THEN Row("active", TRUE) ELSE NoRow]
              /\ panel = [b \in Bindings |-> IF b \in kept THEN "enabled" ELSE "none"]
<1>1. \A kept \in {{}} \cup {1 .. n : n \in Specs .. MaxBindings} :
         kept \in SUBSET Bindings /\ (kept # {} => 1 .. Specs \subseteq kept)
  BY MultiSubAssumption DEF Bindings
<1> QED
  BY <1>1 DEF Init

LEMMA MultiSubInit == Init => MultiSubInv
<1> SUFFICES ASSUME Init PROVE MultiSubInv
  OBVIOUS
<1>1. /\ NoRow \in RowSet /\ NoRow.st = "none" /\ ~NoRow.uuid
      /\ Row("active", TRUE) \in RowSet /\ Row("active", TRUE).st = "active"
      /\ Row("active", TRUE).uuid
  BY DEF NoRow, Row, RowSet, Statuses
<1>2. /\ {"activated", "none"} \subseteq Work /\ "idle" \in Labels
      /\ {"none", "enabled"} \subseteq Users
  BY DEF Work, Events, Labels, Users
<1>3. PICK kept \in SUBSET Bindings :
         /\ inbox = IF kept = {} THEN {"activated"} ELSE {}
         /\ done = IF kept = {} THEN {} ELSE {"activated"}
         /\ rows = [b \in Bindings |-> IF b \in kept THEN Row("active", TRUE) ELSE NoRow]
         /\ panel = [b \in Bindings |-> IF b \in kept THEN "enabled" ELSE "none"]
  BY Beginning
<1>4. MultiSubTypeOK
  <2>1. StoreTyped /\ EventsTyped /\ PanelTyped
    BY <1>1, <1>2, <1>3, MultiSubAssumption DEF Init, StoreTyped, EventsTyped, PanelTyped
  <2>2. ThreadsTyped /\ FaultsTyped
    BY <1>1, <1>2, MultiSubAssumption DEF Init, ThreadsTyped, FaultsTyped
  <2> QED
    BY <2>1, <2>2 DEF MultiSubTypeOK
<1>5. ThreadsAtWork
  BY DEF Init, ThreadsAtWork, AtWork, OneBinding
<1>6. \A b \in Bindings :
         \/ panel[b] = "none" /\ rows[b].st = "none"
         \/ panel[b] = "enabled" /\ rows[b].st = "active" /\ rows[b].uuid
  BY <1>1, <1>3
<1>7. \A t \in Threads : pc[t] = "idle" /\ todo[t] = {} /\ listed[t] = {}
  BY DEF Init
<1>8. BindInv
  BY <1>6, <1>7 DEF BindInv, RowsStay, UsersUnborn, DeprovisionedIsGone, CopiesGone,
                    UsersKnown, OnPanel, CopiesKnow
<1> QED
  BY <1>4, <1>5, <1>8 DEF MultiSubInv

LEMMA MultiSubStep == MultiSubInv /\ [Next]_vars => MultiSubInv'
<1> SUFFICES ASSUME MultiSubInv, [Next]_vars PROVE MultiSubInv'
  OBVIOUS
<1>1. ASSUME NEW t \in Threads, EventStep(t)
      PROVE  MultiSubInv'
  <2>1. ASSUME NEW e \in inbox, Take(t, e)
        PROVE  MultiSubInv'
    BY <2>1, TakeStep
  <2> QED
    BY <1>1, <2>1, ErrorSteps, CheckExistingStep, GuardStep, CreateRowStep, CreateUserSteps,
       PersistFailureStep, PersistProvisionedStep, PersistErrorStep, CompensateStep,
       CheckActiveStep, ReadPendingStep, ReadTargetsStep
    DEF EventStep
<1>2. ASSUME NEW t \in Threads, BackgroundStep(t)
      PROVE  MultiSubInv'
  BY <1>2, ResetAbandonedStep, ClaimStep, GetByIDStep, GetUserStep, GetUserErrorStep
    DEF BackgroundStep
<1>3. ASSUME NEW t \in Threads, ThreadStep(t) \/ ListForSync(t)
      PROVE  MultiSubInv'
  BY <1>1, <1>2, <1>3, GatewayOkStep, GatewayErrorStep, WriteStep, ListForSyncStep
    DEF ThreadStep
<1>4. ASSUME NEW b \in Bindings,
             Abandon(b) \/ Outlive(b) \/ TrafficExceeded(b) \/ TrafficReset(b)
      PROVE  MultiSubInv'
  BY <1>4, AgeSteps, TrafficSteps
<1>5. CASE Cancel \/ Pause \/ Resume
  BY <1>5, BillSteps
<1>6. ASSUME NEW p \in Instances, Crash(p)
      PROVE  MultiSubInv'
  BY <1>6, CrashStep
<1>7. CASE UNCHANGED vars
  <2>1. MultiSubTypeOK
    BY DEF MultiSubInv
  <2>2. /\ FaultsTyped' /\ EventsTyped' /\ old' \in SUBSET Bindings /\ upset' = upset
    BY <1>7, <2>1 DEF vars, MultiSubTypeOK, FaultsTyped, EventsTyped, StoreTyped
  <2> QED
    BY <1>7, <2>2, Stutter DEF vars, threadVars
<1> QED
  BY <1>3, <1>4, <1>5, <1>6, <1>7 DEF Next

\* MultiSubInv is an invariant, whatever the number of pods and bindings, and
\* whatever is refused, lost, delayed or crashes.
THEOREM MultiSubInvariant == Spec => []MultiSubInv
  BY MultiSubInit, MultiSubStep, PTL DEF Spec

\* A binding the database shows as deprovisioned has no user on the panel.
THEOREM DeprovisionedUsersAreGone == Spec => []DeprovisionedIsGone
<1>1. MultiSubInv => DeprovisionedIsGone
  BY DEF MultiSubInv, BindInv
<1> QED
  BY <1>1, MultiSubInvariant, PTL

\* A user that no lost answer, crash, exhausted compensation or overlapping write
\* has touched is known to its row or to a goroutine at work.
THEOREM UsersAreTracked == Spec => []TrackedUsers
<1>1. MultiSubInv => TrackedUsers
  BY DEF MultiSubInv, BindInv, UsersKnown, Borne, TrackedUsers
<1> QED
  BY <1>1, MultiSubInvariant, PTL

-----------------------------------------------------------------------------
(* Provisioning, as long as nothing is refused, lost, fails or crashes and   *)
(* the subscription is not cancelled: the rows that have a user keep it, and *)
(* the one goroutine that provisions has a user for every spec behind it.    *)

Faults == {"refused", "lost", "db", "crash"}
Calm == sub # "cancelled" /\ \A k \in Faults : budget[k] = Budget[k]
WithinBudget == \A k \in Kinds : budget[k] <= Budget[k]

Provisioned == {b \in Bindings : rows[b].uuid}

SoundCopy(r) == r.uuid /\ r.st \in {"active", "disabled"}
SteadyRow(b) ==
    /\ rows[b].st \in {"none", "pending", "active", "disabled"}
    /\ rows[b].uuid => rows[b].st \in {"active", "disabled"} /\ OnPanel(b)
    /\ rows[b].st \in {"active", "disabled"} => rows[b].uuid
SteadyThread(t) ==
    /\ ev[t] # "cancelled"
    /\ pc[t] \notin {"failure", "compensate", "mark", "pending", "list"}
    /\ pc[t] \in {"call", "write"} => ev[t] \in {"paused", "resumed", "sync"}
    /\ \A b \in listed[t] : rows[b].uuid
    /\ pc[t] \in {"call", "write", "fetch"}
       => \A b \in todo[t] : rows[b].uuid /\ SoundCopy(mem[t][b])
    /\ pc[t] = "persist"
       => \A b \in todo[t] : OnPanel(b) /\ mem[t][b] = Row("active", TRUE)
Steady ==
    /\ "cancelled" \notin inbox
    /\ \A b \in Bindings : SteadyRow(b)
    /\ \A t \in Threads : SteadyThread(t)

NoRows == \A b \in Bindings : rows[b].st = "none"

\* The event is in the inbox, with the goroutine that provisions, or done.
Provisions(t) ==
    /\ pc[t] \in {"read", "guard", "create", "user", "persist"}
    /\ "activated" \notin inbox \cup done
    /\ \A u \in Threads \ {t} : ev[u] # "activated"
    /\ pc[t] \in {"read", "guard"} => NoRows
    /\ pc[t] \in {"create", "user", "persist"} => Cardinality(Provisioned) + 1 >= step[t]
    /\ pc[t] \in {"user", "persist"} => \A b \in todo[t] : ~rows[b].uuid
Progress ==
    /\ "activated" \in inbox => NoRows /\ "activated" \notin done
    /\ \A t \in Threads : ev[t] = "activated" => Provisions(t)
    /\ \A t \in Threads : pc[t] \in {"guard", "create", "user", "persist"} => ev[t] = "activated"
    /\ "activated" \in done => Cardinality(Provisioned) >= Specs

\* Rows are created by a goroutine that sees the subscription.
Creating == {"create", "user", "persist"}
Seen == \A t \in Threads : pc[t] \in Creating => visible

CalmInv == WithinBudget /\ Seen /\ (Calm => Steady /\ Progress)

CalmState == MultiSubInv /\ WithinBudget /\ Calm /\ Steady /\ Progress

\* A fault ends the calm.
LEMMA FaultEndsCalm ==
    ASSUME MultiSubInv, WithinBudget, NEW k \in Faults, NEW S, Spend(k, S)
    PROVE  ~Calm'
<1>1. k \in Kinds /\ budget \in [Kinds -> Nat] /\ Budget \in [Kinds -> Nat]
  BY MultiSubAssumption DEF Faults, Kinds, MultiSubInv, MultiSubTypeOK, FaultsTyped
<1>2. budget'[k] = budget[k] - 1 /\ budget[k] <= Budget[k]
  BY <1>1 DEF Spend, WithinBudget
<1> QED
  BY <1>1, <1>2 DEF Calm

\* Budgets are spent and a cancelled subscription stays cancelled.
SpendsOnly ==
    /\ budget' \in [Kinds -> Nat] /\ \A k \in Kinds : budget'[k] <= budget[k]
    /\ sub = "cancelled" => sub' = "cancelled"

LEMMA BudgetSpent ==
    ASSUME MultiSubInv, NEW k \in Kinds, NEW S, NoFault \/ Spend(k, S)
    PROVE  budget' \in [Kinds -> Nat] /\ \A j \in Kinds : budget'[j] <= budget[j]
<1>1. budget \in [Kinds -> Nat]
  BY DEF MultiSubInv, MultiSubTypeOK, FaultsTyped
<1>2. CASE NoFault
  BY <1>1, <1>2 DEF NoFault
<1>3. CASE Spend(k, S)
  BY <1>1, <1>3 DEF Spend
<1> QED
  BY <1>2, <1>3

LEMMA SpendsOnlyStep ==
    ASSUME MultiSubInv, [Next]_vars
    PROVE  SpendsOnly
<1> USE KindsKnown
<1>1. ASSUME NEW t \in Threads, EventStep(t)
      PROVE  SpendsOnly
  <2>1. CASE \E e \in inbox : Take(t, e)
    BY <2>1 DEF Take, SpendsOnly, MultiSubInv, MultiSubTypeOK, FaultsTyped
  <2>2. CASE ReadError(t) \/ CreateRowError(t) \/ PersistProvisionedError(t)
    BY <2>2, BudgetSpent DEF ReadError, CreateRowError, PersistProvisionedError, SpendsOnly
  <2>3. CASE CheckExisting(t) \/ GuardSubscription(t) \/ CreateRow(t) \/ CreateUser(t)
    BY <2>3, BudgetSpent DEF CheckExisting, GuardSubscription, CreateRow, CreateUser, SpendsOnly
  <2>4. CASE PersistProvisioned(t) \/ CheckActive(t) \/ ReadPending(t) \/ ReadTargets(t)
    BY <2>4, BudgetSpent DEF PersistProvisioned, CheckActive, ReadPending, ReadTargets, SpendsOnly
  <2>5. CASE CreateUserError(t) \/ PersistFailure(t) \/ CompensateDeleteUser(t)
    BY <2>5, BudgetSpent DEF CreateUserError, PersistFailure, CompensateDeleteUser, SpendsOnly
  <2> QED
    BY <1>1, <2>1, <2>2, <2>3, <2>4, <2>5 DEF EventStep
<1>2. ASSUME NEW t \in Threads, BackgroundStep(t)
      PROVE  SpendsOnly
  <2>1. CASE ResetAbandoned(t) \/ Claim(t)
    BY <2>1, BudgetSpent DEF ResetAbandoned, Claim, SpendsOnly
  <2>2. CASE GetByID(t) \/ GetUser(t) \/ GetUserError(t)
    BY <2>2, BudgetSpent DEF GetByID, GetUser, GetUserError, SpendsOnly
  <2> QED
    BY <1>2, <2>1, <2>2 DEF BackgroundStep
<1>3. ASSUME NEW t \in Threads, ThreadStep(t) \/ ListForSync(t)
      PROVE  SpendsOnly
  <2>1. CASE GatewayOk(t) \/ GatewayError(t)
    BY <2>1, BudgetSpent DEF GatewayOk, GatewayError, SpendsOnly
  <2>2. CASE Write(t) \/ ListForSync(t)
    BY <2>2, BudgetSpent DEF Write, ListForSync, SpendsOnly
  <2> QED
    BY <1>1, <1>2, <1>3, <2>1, <2>2 DEF ThreadStep
<1>4. ASSUME NEW b \in Bindings,
             Abandon(b) \/ Outlive(b) \/ TrafficExceeded(b) \/ TrafficReset(b)
      PROVE  SpendsOnly
  BY <1>4, BudgetSpent
    DEF Abandon, Outlive, Age, TrafficExceeded, TrafficReset, Traffic, SpendsOnly
<1>5. CASE Cancel \/ Pause \/ Resume
  BY <1>5, BudgetSpent DEF Cancel, Pause, Resume, Bill, SpendsOnly
<1>6. ASSUME NEW p \in Instances, Crash(p)
      PROVE  SpendsOnly
  BY <1>6, BudgetSpent DEF Crash, SpendsOnly
<1>7. CASE UNCHANGED vars
  BY <1>7 DEF vars, SpendsOnly, MultiSubInv, MultiSubTypeOK, FaultsTyped
<1> QED
  BY <1>3, <1>4, <1>5, <1>6, <1>7 DEF Next

LEMMA CalmBefore ==
    ASSUME MultiSubInv, WithinBudget, SpendsOnly
    PROVE  WithinBudget' /\ (Calm' => Calm)
<1>1. budget \in [Kinds -> Nat] /\ Budget \in [Kinds -> Nat] /\ Faults \subseteq Kinds
  BY MultiSubAssumption DEF Faults, Kinds, MultiSubInv, MultiSubTypeOK, FaultsTyped
<1>2. \A k \in Kinds : budget'[k] <= budget[k] /\ budget[k] <= Budget[k] /\ budget'[k] \in Nat
  BY DEF SpendsOnly, WithinBudget
<1>3. \A k \in Kinds : /\ budget'[k] <= Budget[k]
                       /\ budget'[k] = Budget[k] => budget[k] = Budget[k]
  BY <1>1, <1>2
<1> QED
  BY <1>1, <1>3 DEF WithinBudget, Calm, SpendsOnly

\* The rows of the other goroutines' bindings keep their users.
LEMMA SteadyStep ==
    ASSUME CalmState, NEW t \in Threads, Own(t), "cancelled" \notin inbox',
           \A b \in Bindings : SteadyRow(b)',
           \A b \in Bindings : rows[b].uuid => rows'[b].uuid,
           \A b \in Bindings : OnPanel(b) => OnPanel(b)',
           SteadyThread(t)'
    PROVE  Steady'
<1>1. \A u \in Threads : todo[u] \subseteq Bindings /\ listed[u] \subseteq Bindings
  BY DEF CalmState, MultiSubInv, MultiSubTypeOK, ThreadsTyped
<1>2. ASSUME NEW u \in Threads \ {t}
      PROVE  SteadyThread(u)'
  <2>1. /\ pc'[u] = pc[u] /\ ev'[u] = ev[u] /\ listed'[u] = listed[u]
        /\ todo'[u] = todo[u] /\ mem'[u] = mem[u] /\ SteadyThread(u)
    BY DEF Own, Others, CalmState, Steady
  <2> QED
    BY <1>1, <2>1 DEF SteadyThread
<1> QED
  BY <1>2 DEF Steady

LEMMA SteadyFrame ==
    ASSUME CalmState, NEW t \in Threads, Own(t), "cancelled" \notin inbox',
           rows' = rows, panel' = panel, SteadyThread(t)'
    PROVE  Steady'
<1>1. \A b \in Bindings : OnPanel(b)' <=> OnPanel(b)
  BY DEF OnPanel
<1>2. \A b \in Bindings : SteadyRow(b)'
  BY <1>1 DEF CalmState, Steady, SteadyRow
<1> QED
  BY <1>1, <1>2, SteadyStep

\* Neither the event nor the rows' users change hands.
SameUsers ==
    /\ \A b \in Bindings : /\ rows'[b].uuid = rows[b].uuid
                           /\ rows'[b].st = "none" <=> rows[b].st = "none"
    /\ "activated" \in inbox' <=> "activated" \in inbox
    /\ "activated" \in done' <=> "activated" \in done

LEMMA SameCount ==
    ASSUME SameUsers
    PROVE  Provisioned' = Provisioned /\ (NoRows' <=> NoRows)
  BY DEF SameUsers, Provisioned, NoRows

\* A goroutine that does not provision leaves the one that does alone.
LEMMA BystanderStep ==
    ASSUME CalmState, NEW t \in Threads, Own(t), SameUsers,
           ev[t] # "activated", ev'[t] # "activated",
           pc'[t] \notin {"guard", "create", "user", "persist"}
    PROVE  Progress'
<1>1. Provisioned' = Provisioned /\ (NoRows' <=> NoRows)
  BY SameCount
<1>2. \A u \in Threads : todo[u] \subseteq Bindings
  BY DEF CalmState, MultiSubInv, MultiSubTypeOK, ThreadsTyped
<1>3. \A u \in Threads \ {t} : /\ pc'[u] = pc[u] /\ ev'[u] = ev[u] /\ step'[u] = step[u]
                               /\ todo'[u] = todo[u]
  BY DEF Own, Others
<1>4. ASSUME NEW u \in Threads, ev'[u] = "activated"
      PROVE  Provisions(u)'
  <2>1. u # t /\ ev[u] = "activated" /\ Provisions(u)
    BY <1>3, <1>4 DEF CalmState, Progress
  <2>2. /\ pc'[u] = pc[u] /\ step'[u] = step[u] /\ todo'[u] = todo[u]
        /\ \A v \in Threads \ {u} : ev'[v] # "activated"
    BY <1>3, <2>1 DEF Provisions
  <2>3. "activated" \notin inbox' \cup done' /\ pc'[u] \in {"read", "guard", "create", "user", "persist"}
    BY <2>1, <2>2 DEF Provisions, SameUsers
  <2>4. /\ pc'[u] \in {"read", "guard"} => NoRows'
        /\ pc'[u] \in {"create", "user", "persist"} => Cardinality(Provisioned') + 1 >= step'[u]
    BY <1>1, <2>1, <2>2 DEF Provisions
  <2>5. pc'[u] \in {"user", "persist"} => \A b \in todo'[u] : ~rows'[b].uuid
    BY <1>2, <2>1, <2>2 DEF Provisions, SameUsers
  <2> QED
    BY <2>2, <2>3, <2>4, <2>5 DEF Provisions
<1>5. /\ "activated" \in inbox' => NoRows' /\ "activated" \notin done'
      /\ "activated" \in done' => Cardinality(Provisioned') >= Specs
  BY <1>1 DEF CalmState, Progress, SameUsers
<1>6. \A u \in Threads :
         pc'[u] \in {"guard", "create", "user", "persist"} => ev'[u] = "activated"
  BY <1>3 DEF CalmState, Progress
<1> QED
  BY <1>4, <1>5, <1>6 DEF Progress

\* A goroutine that does not provision returns.
LEMMA ReturnEvents ==
    ASSUME NEW t \in Threads, Return(t), ev[t] # "activated"
    PROVE  inbox' = inbox /\ ("activated" \in done' <=> "activated" \in done)
  BY DEF Return

LEMMA BystanderReturns ==
    ASSUME CalmState, NEW t \in Threads, Return(t), ev[t] # "activated",
           rows' = rows, panel' = panel
    PROVE  Steady' /\ Progress'
<1>1. Ended(t)
  BY EndedFacts DEF CalmState, MultiSubInv
<1>2. /\ Own(t) /\ pc'[t] = "idle" /\ ev'[t] = "none" /\ listed'[t] = {} /\ todo'[t] = {}
  BY <1>1 DEF Ended
<1>3. SameUsers /\ inbox' = inbox
  BY ReturnEvents DEF SameUsers
<1>4. SteadyThread(t)'
  BY <1>2 DEF SteadyThread
<1>5. Steady'
  BY <1>2, <1>3, <1>4, SteadyFrame DEF CalmState, Steady
<1> QED
  BY <1>2, <1>3, <1>5, BystanderStep

\* Where the goroutine stands tells that it does not provision.
LEMMA NotProvisioning ==
    ASSUME CalmState, NEW t \in Threads,
           pc[t] \notin {"read", "guard", "create", "user", "persist"}
    PROVE  ev[t] # "activated"
  BY DEF CalmState, Progress, Provisions

\* Where it cannot stand.
LEMMA CalmLabels ==
    ASSUME CalmState, NEW t \in Threads
    PROVE  /\ pc[t] \notin {"failure", "compensate", "mark", "pending", "list"}
           /\ ev[t] # "cancelled"
           /\ pc[t] \in {"call", "write"} => ev[t] \in {"paused", "resumed", "sync"}
  BY DEF CalmState, Steady, SteadyThread

LEMMA CountIsNat == Cardinality(Provisioned) \in Nat /\ IsFiniteSet(Provisioned)
<1>1. IsFiniteSet(Bindings)
  BY MultiSubAssumption, FS_Interval DEF Bindings
<1>2. Provisioned \in SUBSET Bindings
  BY DEF Provisioned
<1>3. IsFiniteSet(Provisioned)
  BY <1>1, <1>2, FS_Subset
<1> QED
  BY <1>3, FS_CardinalityType

\* The goroutine that provisions goes on.
LEMMA ProviderStep ==
    ASSUME CalmState, NEW t \in Threads, Own(t), inbox' = inbox, done' = done,
           ev[t] = "activated", ev'[t] = "activated",
           pc'[t] \in {"guard", "create", "user", "persist"},
           pc'[t] = "guard" => NoRows',
           pc'[t] # "guard" => Cardinality(Provisioned') + 1 >= step'[t],
           pc'[t] \in {"user", "persist"} => \A b \in todo'[t] : ~rows'[b].uuid
    PROVE  Progress'
<1>1. Provisions(t)
  BY DEF CalmState, Progress
<1>2. \A u \in Threads \ {t} : ev[u] # "activated" /\ ev'[u] = ev[u] /\ pc'[u] = pc[u]
  BY <1>1 DEF Provisions, Own, Others
<1>3. Provisions(t)'
  BY <1>1, <1>2 DEF Provisions
<1>4. \A u \in Threads : ev'[u] = "activated" => u = t
  BY <1>2
<1>5. \A u \in Threads :
         pc'[u] \in {"guard", "create", "user", "persist"} => ev'[u] = "activated"
  BY <1>2 DEF CalmState, Progress
<1>6. "activated" \notin inbox' /\ "activated" \notin done'
  BY <1>1 DEF Provisions
<1> QED
  BY <1>3, <1>4, <1>5, <1>6 DEF Progress

LEMMA CalmTake ==
    ASSUME CalmState, NEW t \in Threads, NEW e \in inbox, Take(t, e)
    PROVE  Steady' /\ Progress'
<1>0. MultiSubTypeOK /\ AtWork(t)
  BY DEF CalmState, MultiSubInv, ThreadsAtWork
<1>1. e # "cancelled" /\ e \in Work /\ "read" \in Labels /\ ThreadsTyped /\ EventsTyped
  BY <1>0 DEF CalmState, Steady, MultiSubTypeOK, EventsTyped, Labels
<1>2. /\ Own(t) /\ pc'[t] = "read" /\ ev'[t] = e
      /\ listed'[t] = listed[t] /\ todo'[t] = todo[t]
      /\ inbox' = inbox \ {e} /\ done' = done
  BY <1>1 DEF Take, ThreadsTyped, EventsTyped, Own, Others
<1>3. rows' = rows /\ panel' = panel /\ pc[t] = "idle"
  BY DEF Take, dbVars
<1>4. listed'[t] = {} /\ ev[t] # "activated"
  BY <1>0, <1>2, <1>3, NotProvisioning DEF AtWork
<1>5. SteadyThread(t)'
  BY <1>1, <1>2, <1>4 DEF SteadyThread
<1>6. Steady'
  BY <1>2, <1>3, <1>5, SteadyFrame DEF CalmState, Steady
<1>7. CASE e # "activated"
  <2>1. SameUsers
    BY <1>2, <1>3, <1>7 DEF SameUsers
  <2> QED
    BY <1>2, <1>4, <1>6, <1>7, <2>1, BystanderStep
<1>8. CASE e = "activated"
  <2>1. NoRows /\ "activated" \notin done /\ \A u \in Threads : ev[u] # "activated"
    BY <1>8 DEF CalmState, Progress, Provisions
  <2>2. \A u \in Threads \ {t} : ev'[u] # "activated" /\ pc'[u] = pc[u]
    BY <1>2, <2>1 DEF Own, Others
  <2>3. NoRows' /\ "activated" \notin inbox' \cup done'
    BY <1>2, <1>3, <1>8, <2>1 DEF NoRows
  <2>4. Provisions(t)'
    BY <1>2, <2>2, <2>3 DEF Provisions
  <2>5. \A u \in Threads : pc'[u] \notin {"guard", "create", "user", "persist"}
    BY <1>2, <2>1, <2>2 DEF CalmState, Progress
  <2>6. \A u \in Threads : ev'[u] = "activated" => u = t
    BY <2>2
  <2>7. Progress'
    BY <2>3, <2>4, <2>5, <2>6 DEF Progress
  <2> QED
    BY <1>6, <2>7
<1> QED
  BY <1>7, <1>8

LEMMA CalmCheckExisting ==
    ASSUME CalmState, NEW t \in Threads, CheckExisting(t)
    PROVE  Steady' /\ Progress'
<1>0. MultiSubTypeOK /\ SteadyThread(t)
  BY DEF CalmState, MultiSubInv, Steady
<1>1. pc[t] = "read" /\ ev[t] = "activated" /\ rows' = rows /\ panel' = panel
  BY DEF CheckExisting, dbVars
<1>2. NoRows
  BY <1>1 DEF CalmState, Progress, Provisions
<1>3. With("active") = {}
  BY <1>2 DEF With, NoRows
<1>4. Goto(t, "guard")
  BY <1>3 DEF CheckExisting
<1>5. "guard" \in Labels
  BY DEF Labels
<1>6. /\ Own(t) /\ Resting(t) /\ pc'[t] = "guard" /\ inbox' = inbox /\ done' = done
  BY <1>0, <1>4, <1>5, GotoFacts DEF Goto
<1>7. SteadyThread(t)'
  BY <1>0, <1>1, <1>6 DEF SteadyThread, Resting
<1>8. Steady'
  BY <1>1, <1>6, <1>7, SteadyFrame DEF CalmState, Steady
<1>9. NoRows'
  BY <1>1, <1>2 DEF NoRows
<1>10. Progress'
  BY <1>1, <1>6, <1>9, ProviderStep DEF Resting
<1> QED
  BY <1>8, <1>10

LEMMA CalmGuard ==
    ASSUME CalmState, NEW t \in Threads, GuardSubscription(t)
    PROVE  Steady' /\ Progress'
<1>0. MultiSubTypeOK /\ SteadyThread(t)
  BY DEF CalmState, MultiSubInv, Steady
<1>1. pc[t] = "guard" /\ rows' = rows /\ panel' = panel
  BY DEF GuardSubscription, dbVars
<1>2. ev[t] = "activated"
  BY <1>1 DEF CalmState, Progress
<1>3. CASE visible
  <2>3. /\ pc' = [pc EXCEPT ![t] = "create"]
        /\ step' = [step EXCEPT ![t] = 1]
        /\ UNCHANGED <<ev, listed, todo, mem, inbox, done>>
    BY <1>3 DEF GuardSubscription, CalmState, Calm
  <2>4. "create" \in Labels
    BY DEF Labels
  <2>5. /\ Own(t) /\ Resting(t) /\ pc'[t] = "create" /\ step'[t] = 1
    BY <1>0, <2>3, <2>4
      DEF MultiSubTypeOK, ThreadsTyped, EventsTyped, Own, Others, Resting
  <2>6. SteadyThread(t)'
    BY <1>0, <1>1, <2>5 DEF SteadyThread, Resting
  <2>7. Steady'
    BY <1>1, <2>3, <2>5, <2>6, SteadyFrame DEF CalmState, Steady
  <2>8. Provisioned' = Provisioned
    BY <1>1 DEF Provisioned
  <2>9. Cardinality(Provisioned') + 1 >= step'[t]
    BY <2>5, <2>8, CountIsNat
  <2>10. Progress'
    BY <1>2, <2>3, <2>5, <2>9, ProviderStep DEF Resting
  <2> QED
    BY <2>7, <2>10
<1>4. CASE ~visible
  <2>1. ReturnError(t)
    BY <1>4 DEF GuardSubscription
  <2>2. Ended(t)
    BY <1>0, <2>1, EndedFacts
  <2>3. /\ Own(t) /\ pc'[t] = "idle" /\ ev'[t] = "none" /\ listed'[t] = {} /\ todo'[t] = {}
        /\ inbox' \in {inbox, inbox \cup {"activated"}} /\ done' = done
    BY <1>2, <2>1, <2>2 DEF Ended, ReturnError
  <2>4. SteadyThread(t)'
    BY <2>3 DEF SteadyThread
  <2>5. Steady'
    BY <1>1, <2>3, <2>4, SteadyFrame DEF CalmState, Steady
  <2>6. NoRows /\ "activated" \notin done /\ \A u \in Threads \ {t} : ev[u] # "activated"
    BY <1>1, <1>2 DEF CalmState, Progress, Provisions
  <2>7. NoRows'
    BY <1>1, <2>6 DEF NoRows
  <2>8. \A u \in Threads :
           /\ ev'[u] # "activated"
           /\ pc'[u] \notin {"guard", "create", "user", "persist"}
    BY <2>3, <2>6 DEF Own, Others, CalmState, Progress
  <2> QED
    BY <2>3, <2>5, <2>6, <2>7, <2>8 DEF Progress
<1> QED
  BY <1>3, <1>4

LEMMA CalmCreateRow ==
    ASSUME CalmState, NEW t \in Threads, CreateRow(t)
    PROVE  Steady' /\ Progress'
<1>0. MultiSubTypeOK /\ SteadyThread(t) /\ \A b \in Bindings : SteadyRow(b)
  BY DEF CalmState, MultiSubInv, Steady
<1>1. /\ rows \in [Bindings -> RowSet] /\ mem[t] \in [Bindings -> RowSet]
  BY <1>0 DEF MultiSubTypeOK, StoreTyped, ThreadsTyped
<1>2. PICK b \in Bindings : rows[b].st = "none" /\ b = Min(With("none"))
  BY MinOf DEF CreateRow, With
<1> DEFINE new == Row("pending", FALSE)
           newMem == [mem[t] EXCEPT ![b] = new]
<1>3. new \in RowSet /\ new.st = "pending" /\ new.uuid = FALSE
  BY DEF Row, RowSet, Statuses
<1>4. newMem \in [Bindings -> RowSet] /\ "user" \in Labels
  BY <1>1, <1>3 DEF Labels
<1>5. /\ rows' = [rows EXCEPT ![b] = new]
      /\ Hold(t, {b}, newMem, "user")
      /\ panel' = panel /\ pc[t] = "create"
  BY <1>2 DEF CreateRow, WriteRows
<1> HIDE DEF new, newMem
<1>6. /\ Own(t) /\ Resting(t) /\ pc'[t] = "user" /\ todo'[t] = {b}
      /\ inbox' = inbox /\ done' = done /\ step' = step
  BY <1>0, <1>4, <1>5, HoldFacts DEF Hold
<1>7. /\ rows'[b].st = "pending" /\ ~rows'[b].uuid
      /\ \A c \in Bindings \ {b} : rows'[c] = rows[c]
  BY <1>1, <1>3, <1>5
<1>8. ~rows[b].uuid
  BY <1>0, <1>2 DEF SteadyRow
<1>9. Provisioned' = Provisioned
  BY <1>7, <1>8 DEF Provisioned
<1>10. ev[t] = "activated"
  BY <1>5 DEF CalmState, Progress
<1>11. Cardinality(Provisioned') + 1 >= step'[t]
  BY <1>5, <1>6, <1>9, <1>10 DEF CalmState, Progress, Provisions
<1>12. Progress'
  BY <1>6, <1>7, <1>10, <1>11, ProviderStep DEF Resting
<1>13. \A c \in Bindings : OnPanel(c)' <=> OnPanel(c)
  BY <1>5 DEF OnPanel
<1>14. \A c \in Bindings : rows[c].uuid => rows'[c].uuid
  BY <1>7, <1>8
<1>15. ASSUME NEW c \in Bindings
       PROVE  SteadyRow(c)'
  BY <1>0, <1>7, <1>13 DEF SteadyRow
<1>16. listed[t] \subseteq Bindings
  BY <1>0 DEF MultiSubTypeOK, ThreadsTyped
<1>17. SteadyThread(t)'
  BY <1>0, <1>6, <1>10, <1>14, <1>16 DEF SteadyThread, Resting
<1>18. Steady'
  BY <1>6, <1>13, <1>14, <1>15, <1>17, SteadyStep DEF CalmState, Steady
<1> QED
  BY <1>12, <1>18

LEMMA CalmCreateUser ==
    ASSUME CalmState, NEW t \in Threads, CreateUser(t)
    PROVE  Steady' /\ Progress'
<1>0. MultiSubInv /\ MultiSubTypeOK /\ SteadyThread(t) /\ \A b \in Bindings : SteadyRow(b)
  BY DEF CalmState, MultiSubInv, Steady
<1>1. pc[t] = "user" /\ rows' = rows
  BY DEF CreateUser, dbVars
<1>2. PICK b \in Bindings : b = Cur(t) /\ todo[t] = {b}
  BY <1>0, <1>1, OneHeld DEF OneBinding
<1>3. mem[t] \in [Bindings -> RowSet] /\ panel \in [Bindings -> Users] /\ listed[t] \subseteq Bindings
  BY <1>0 DEF MultiSubTypeOK, ThreadsTyped, PanelTyped
<1> DEFINE r == Row("active", TRUE)
           new == [mem[t] EXCEPT ![b] = r]
<1>4. r \in RowSet /\ "persist" \in Labels
  BY DEF Row, RowSet, Statuses, Labels
<1>5. new \in [Bindings -> RowSet] /\ new[b] = r
  BY <1>3, <1>4
<1>6. /\ panel' = [panel EXCEPT ![b] = "enabled"]
      /\ Hold(t, {b}, new, "persist")
  BY <1>2 DEF CreateUser
<1> HIDE DEF new, r
<1>7. /\ Own(t) /\ Resting(t) /\ pc'[t] = "persist" /\ todo'[t] = {b} /\ mem'[t] = new
      /\ inbox' = inbox /\ done' = done /\ step' = step
  BY <1>0, <1>4, <1>5, <1>6, HoldFacts DEF Hold
<1>8. ev[t] = "activated"
  BY <1>1 DEF CalmState, Progress
<1>9. Provisions(t)
  BY <1>8 DEF CalmState, Progress
<1>10. Provisioned' = Provisioned /\ ~rows'[b].uuid
  BY <1>1, <1>2, <1>9 DEF Provisioned, Provisions
<1>11. Cardinality(Provisioned') + 1 >= step'[t]
  BY <1>1, <1>7, <1>9, <1>10 DEF Provisions
<1>12. Progress'
  BY <1>7, <1>8, <1>10, <1>11, ProviderStep DEF Resting
<1>13. OnPanel(b)' /\ \A c \in Bindings : OnPanel(c) => OnPanel(c)'
  BY <1>3, <1>6 DEF OnPanel
<1>14. ASSUME NEW c \in Bindings
       PROVE  SteadyRow(c)'
  BY <1>0, <1>1, <1>13 DEF SteadyRow
<1>15. SteadyThread(t)'
  BY <1>0, <1>1, <1>5, <1>7, <1>8, <1>13 DEF SteadyThread, Resting, r
<1>16. Steady'
  BY <1>1, <1>7, <1>13, <1>14, <1>15, SteadyStep DEF CalmState, Steady
<1> QED
  BY <1>12, <1>16

LEMMA CalmPersist ==
    ASSUME CalmState, NEW t \in Threads, PersistProvisioned(t)
    PROVE  Steady' /\ Progress'
<1>0. MultiSubInv /\ MultiSubTypeOK /\ SteadyThread(t) /\ \A b \in Bindings : SteadyRow(b)
  BY DEF CalmState, MultiSubInv, Steady
<1>1. pc[t] = "persist" /\ Update(t, Cur(t)) /\ panel' = panel
  BY DEF PersistProvisioned
<1>2. PICK b \in Bindings : b = Cur(t) /\ todo[t] = {b}
  BY <1>0, <1>1, OneHeld DEF OneBinding
<1>3. ev[t] = "activated"
  BY <1>1 DEF CalmState, Progress
<1>4. Provisions(t)
  BY <1>3 DEF CalmState, Progress
<1>5. mem[t][b] = Row("active", TRUE) /\ OnPanel(b) /\ ~rows[b].uuid
  BY <1>0, <1>1, <1>2, <1>4 DEF SteadyThread, Provisions
<1>6. /\ rows'[b] = mem[t][b]
      /\ \A c \in Bindings \ {b} : rows'[c] = rows[c]
  BY <1>0, <1>1, <1>2, UpdateFacts
<1>7. rows'[b].st = "active" /\ rows'[b].uuid
  BY <1>5, <1>6 DEF Row
<1>8. Provisioned' = Provisioned \cup {b} /\ b \notin Provisioned
  BY <1>5, <1>6, <1>7 DEF Provisioned
<1>9. Cardinality(Provisioned') = Cardinality(Provisioned) + 1
  BY <1>8, CountIsNat, FS_AddElement
<1>10. step[t] \in Nat /\ Cardinality(Provisioned) \in Nat /\ Cardinality(Provisioned) + 1 >= step[t]
  BY <1>0, <1>1, <1>4, CountIsNat DEF Provisions, MultiSubTypeOK, ThreadsTyped
<1>11. \A c \in Bindings : OnPanel(c)' <=> OnPanel(c)
  BY <1>1 DEF OnPanel
<1>12. \A c \in Bindings : rows[c].uuid => rows'[c].uuid
  BY <1>6, <1>7
<1>13. ASSUME NEW c \in Bindings
       PROVE  SteadyRow(c)'
  BY <1>0, <1>5, <1>6, <1>7, <1>11 DEF SteadyRow
<1>14. CASE step[t] = Specs /\ Return(t)
  <2>1. Ended(t)
    BY <1>0, <1>14, EndedFacts
  <2>2. /\ Own(t) /\ pc'[t] = "idle" /\ ev'[t] = "none" /\ listed'[t] = {} /\ todo'[t] = {}
    BY <2>1 DEF Ended
  <2>3. inbox' = inbox
    BY <1>14 DEF Return
  <2>4. SteadyThread(t)'
    BY <2>2 DEF SteadyThread
  <2>5. Steady'
    BY <1>11, <1>12, <1>13, <2>2, <2>3, <2>4, SteadyStep DEF CalmState, Steady
  <2>6. \A u \in Threads : ev'[u] # "activated"
    BY <1>4, <2>2 DEF Provisions, Own, Others
  <2>7. \A u \in Threads : pc'[u] \notin {"guard", "create", "user", "persist"}
    BY <1>4, <2>2 DEF Provisions, Own, Others, CalmState, Progress
  <2>8. Cardinality(Provisioned') >= Specs /\ "activated" \notin inbox'
    BY <1>4, <1>9, <1>10, <1>14, <2>3 DEF Provisions
  <2>9. Progress'
    BY <2>6, <2>7, <2>8 DEF Progress
  <2> QED
    BY <2>5, <2>9
<1>15. CASE /\ pc' = [pc EXCEPT ![t] = "create"]
            /\ step' = [step EXCEPT ![t] = @ + 1]
            /\ todo' = [todo EXCEPT ![t] = {}]
            /\ UNCHANGED <<ev, listed, mem, inbox, done>>
  <2>1. "create" \in Labels
    BY DEF Labels
  <2>2. /\ Own(t) /\ Resting(t) /\ pc'[t] = "create" /\ todo'[t] = {} /\ step'[t] = step[t] + 1
    BY <1>0, <1>15, <2>1
      DEF MultiSubTypeOK, ThreadsTyped, EventsTyped, Own, Others, Resting
  <2>3. Cardinality(Provisioned') + 1 >= step'[t]
    BY <1>9, <1>10, <2>2
  <2>4. Progress'
    BY <1>3, <1>15, <2>2, <2>3, ProviderStep DEF Resting
  <2>5. listed[t] \subseteq Bindings
    BY <1>0 DEF MultiSubTypeOK, ThreadsTyped
  <2>6. SteadyThread(t)'
    BY <1>0, <1>3, <1>12, <2>2, <2>5 DEF SteadyThread, Resting
  <2>7. Steady'
    BY <1>11, <1>12, <1>13, <1>15, <2>2, <2>6, SteadyStep DEF CalmState, Steady
  <2> QED
    BY <2>4, <2>7
<1> QED
  BY <1>14, <1>15 DEF PersistProvisioned

LEMMA CalmReadTargets ==
    ASSUME CalmState, NEW t \in Threads, ReadTargets(t)
    PROVE  Steady' /\ Progress'
<1>0. /\ MultiSubTypeOK /\ SteadyThread(t)
      /\ \A b \in Bindings : SteadyRow(b)
  BY DEF CalmState, MultiSubInv, Steady
<1>1. /\ pc[t] = "read" /\ ev[t] \in {"paused", "resumed"}
      /\ rows' = rows /\ panel' = panel
  BY CalmLabels DEF ReadTargets, dbVars
<1>2. CASE Return(t)
  BY <1>1, <1>2, BystanderReturns
<1>3. CASE Hold(t, Targets(t), rows, "call")
  <2> DEFINE S == Targets(t)
  <2>1. S \in SUBSET Bindings /\ \A b \in S : rows[b].st \in {"active", "disabled"}
    <3>1. CASE ev[t] = "paused"
      BY <1>1, <3>1 DEF Targets, With
    <3>2. CASE ev[t] = "resumed"
      BY <1>1, <3>2 DEF Targets, With
    <3> QED
      BY <1>1, <3>1, <3>2
  <2>2. Hold(t, S, rows, "call")
    BY <1>3
  <2> HIDE DEF S
  <2>3. "call" \in Labels /\ rows \in [Bindings -> RowSet]
    BY <1>0 DEF Labels, MultiSubTypeOK, StoreTyped
  <2>4. /\ Own(t) /\ Resting(t) /\ pc'[t] = "call" /\ todo'[t] = S /\ mem'[t] = rows
        /\ inbox' = inbox /\ done' = done
    BY <1>0, <2>1, <2>2, <2>3, HoldFacts DEF Hold
  <2>5. \A b \in S : rows[b].uuid
    BY <1>0, <2>1 DEF SteadyRow
  <2>6. SteadyThread(t)'
    BY <1>0, <1>1, <2>1, <2>4, <2>5 DEF SteadyThread, SoundCopy, Resting
  <2>7. Steady'
    BY <1>1, <2>4, <2>6, SteadyFrame DEF CalmState, Steady
  <2>8. SameUsers
    BY <1>1, <2>4 DEF SameUsers
  <2> QED
    BY <1>1, <2>4, <2>7, <2>8, BystanderStep DEF Resting
<1> QED
  BY <1>2, <1>3 DEF ReadTargets

LEMMA CalmGatewayOk ==
    ASSUME CalmState, NEW t \in Threads, GatewayOk(t)
    PROVE  Steady' /\ Progress'
<1>0. /\ MultiSubInv /\ MultiSubTypeOK /\ SteadyThread(t) /\ AtWork(t)
      /\ \A b \in Bindings : SteadyRow(b)
  BY DEF CalmState, MultiSubInv, Steady, ThreadsAtWork
<1>1. pc[t] = "call" /\ rows' = rows
  BY DEF GatewayOk, dbVars
<1>2. PICK b \in Bindings : b = Cur(t) /\ b \in todo[t]
  BY <1>0, <1>1, CallFacts
<1>3. PICK k \in {"paused", "resumed"} : k = ev[t]
  BY <1>0, <1>1, CallFacts, CalmLabels
<1>4. listed[t] = {} /\ mem[t] \in [Bindings -> RowSet] /\ todo[t] \subseteq Bindings
  BY <1>0, <1>1, CallFacts
<1>5. SoundCopy(mem[t][b]) /\ mem[t][b] \in RowSet
  BY <1>0, <1>1, <1>2, <1>4 DEF SteadyThread
<1> DEFINE r == Success(k, mem[t][b])
           user == Effect(k)
           new == [mem[t] EXCEPT ![b] = r]
<1>6. /\ panel' = [panel EXCEPT ![b] = user]
      /\ Hold(t, todo[t], new, "write")
  BY <1>2, <1>3 DEF GatewayOk
<1>7. {"active", "disabled"} \subseteq Statuses
  BY DEF Statuses
<1>8. r \in RowSet /\ SoundCopy(r) /\ user \in {"enabled", "disabled"}
  <2>1. CASE k = "paused"
    BY <1>5, <1>7, <2>1, TransitionFields DEF Success, Effect, SoundCopy
  <2>2. CASE k = "resumed"
    BY <1>5, <1>7, <2>2, TransitionFields DEF Success, Effect, SoundCopy
  <2> QED
    BY <2>1, <2>2
<1> HIDE DEF r, user
<1>9. /\ new \in [Bindings -> RowSet] /\ new[b] = r
      /\ \A c \in Bindings \ {b} : new[c] = mem[t][c]
  BY <1>4, <1>8
<1> HIDE DEF new
<1>10. "write" \in Labels
  BY DEF Labels
<1>11. /\ Own(t) /\ Resting(t) /\ pc'[t] = "write" /\ todo'[t] = todo[t] /\ mem'[t] = new
       /\ inbox' = inbox /\ done' = done
  <2>1. Own(t) /\ Resting(t) /\ pc'[t] = "write" /\ todo'[t] = todo[t] /\ mem'[t] = new
    BY <1>0, <1>4, <1>6, <1>9, <1>10, HoldFacts
  <2>2. inbox' = inbox /\ done' = done
    BY <1>6 DEF Hold
  <2> QED
    BY <2>1, <2>2
<1>12. \A c \in todo'[t] : rows'[c].uuid /\ SoundCopy(mem'[t][c])
  <2> TAKE c \in todo'[t]
  <2>1. c \in todo[t] /\ c \in Bindings /\ rows[c].uuid /\ SoundCopy(mem[t][c])
    BY <1>0, <1>1, <1>4, <1>11 DEF SteadyThread
  <2> QED
    BY <1>1, <1>8, <1>9, <1>11, <2>1
<1>13. SteadyThread(t)'
  BY <1>3, <1>4, <1>11, <1>12 DEF SteadyThread, Resting
<1>14. \A c \in Bindings : OnPanel(c) => OnPanel(c)'
  BY <1>0, <1>6, <1>8 DEF OnPanel, MultiSubTypeOK, PanelTyped
<1>15. ASSUME NEW c \in Bindings
       PROVE  SteadyRow(c)'
  BY <1>0, <1>1, <1>14 DEF SteadyRow
<1>16. Steady'
  BY <1>1, <1>11, <1>13, <1>14, <1>15, SteadyStep DEF CalmState, Steady
<1>17. SameUsers
  BY <1>1, <1>11 DEF SameUsers
<1> QED
  BY <1>3, <1>11, <1>16, <1>17, BystanderStep DEF Resting

\* A call that fails, though the user is there, has met a fault.
LEMMA CalmGatewayError ==
    ASSUME CalmState, Calm', NEW t \in Threads, GatewayError(t)
    PROVE  FALSE
<1>0. MultiSubInv /\ WithinBudget /\ SteadyThread(t) /\ \A b \in Bindings : SteadyRow(b)
  BY DEF CalmState, Steady
<1>1. pc[t] = "call"
  BY DEF GatewayError
<1>2. PICK b \in Bindings : b = Cur(t) /\ b \in todo[t]
  BY <1>0, <1>1, CallFacts
<1>3. OnPanel(b)
  BY <1>0, <1>1, <1>2 DEF SteadyThread, SteadyRow
<1>4. Spend("refused", {}) \/ Spend("lost", {Cur(t)})
  BY <1>2, <1>3 DEF GatewayError
<1>5. "refused" \in Faults /\ "lost" \in Faults
  BY DEF Faults
<1> QED
  BY <1>0, <1>4, <1>5, FaultEndsCalm

LEMMA CalmWrite ==
    ASSUME CalmState, Calm', NEW t \in Threads, Write(t)
    PROVE  Steady' /\ Progress'
<1>0. /\ MultiSubInv /\ MultiSubTypeOK /\ WithinBudget /\ SteadyThread(t) /\ AtWork(t)
      /\ \A b \in Bindings : SteadyRow(b)
  BY DEF CalmState, MultiSubInv, Steady, ThreadsAtWork
<1>1. /\ pc[t] = "write" /\ ev[t] \in {"paused", "resumed", "sync"} /\ panel' = panel
      /\ todo[t] # {}
  BY <1>0, CalmLabels DEF Write, AtWork
<1>2. PICK b \in Bindings : b = Cur(t) /\ b \in todo[t]
  BY <1>0, <1>1, CurHeld
<1>3. Update(t, b)
  <2>1. ~Spend("db", {})
    BY <1>0, FaultEndsCalm DEF Faults
  <2> QED
    BY <1>2, <2>1 DEF Write
<1>4. /\ rows'[b] = mem[t][b]
      /\ \A c \in Bindings \ {b} : rows'[c] = rows[c]
  BY <1>0, <1>3, UpdateFacts
<1>5. SoundCopy(mem[t][b]) /\ rows[b].uuid
  BY <1>0, <1>1, <1>2 DEF SteadyThread
<1>6. \A c \in Bindings : OnPanel(c)' <=> OnPanel(c)
  BY <1>1 DEF OnPanel
<1>7. \A u \in Bindings : rows[u].uuid => rows'[u].uuid
  BY <1>4, <1>5 DEF SoundCopy
<1>8. ASSUME NEW c \in Bindings
      PROVE  SteadyRow(c)'
  <2>1. CASE c # b
    BY <1>0, <1>4, <1>6, <2>1 DEF SteadyRow
  <2>2. CASE c = b
    BY <1>0, <1>4, <1>5, <1>6, <2>2 DEF SteadyRow, SoundCopy
  <2> QED
    BY <2>1, <2>2
<1>9. /\ rows'[b].uuid = rows[b].uuid
      /\ rows'[b].st # "none" /\ rows[b].st # "none"
  <2>1. mem[t][b] \in RowSet /\ rows[b] \in RowSet
    BY <1>0 DEF MultiSubTypeOK, StoreTyped, ThreadsTyped
  <2> QED
    BY <1>0, <1>4, <1>5, <2>1 DEF SoundCopy, SteadyRow, RowSet
<1>10. "call" \in Labels /\ Finished(t, b, "call")
  BY <1>1, <1>2 DEF Labels, Write
<1>11. Ended(t) \/ LoopsOn(t, b, "call")
  BY <1>0, <1>10, FinishedFacts
<1>12. inbox' = inbox /\ ("activated" \in done' <=> "activated" \in done)
  BY <1>1, <1>10 DEF Finished, Return
<1>13. SameUsers
  BY <1>4, <1>9, <1>12 DEF SameUsers
<1>14. /\ todo[t] \subseteq Bindings /\ listed[t] \subseteq Bindings
  BY <1>0 DEF MultiSubTypeOK, ThreadsTyped
<1>15. /\ Own(t) /\ SteadyThread(t)' /\ ev'[t] # "activated" /\ pc'[t] \in {"idle", "call", "get"}
  <2>1. CASE Ended(t)
    BY <2>1 DEF Ended, SteadyThread
  <2>2. CASE LoopsOn(t, b, "call")
    <3>1. /\ Own(t) /\ ev'[t] = ev[t] /\ listed'[t] = listed[t]
          /\ pc'[t] \in {"call", "get"}
          /\ todo'[t] \subseteq todo[t] /\ mem'[t] = mem[t]
      BY <2>2 DEF LoopsOn, Resting
    <3>2. \A c \in todo'[t] : rows'[c].uuid /\ SoundCopy(mem'[t][c])
      BY <1>0, <1>1, <1>7, <1>14, <3>1 DEF SteadyThread
    <3>3. \A c \in listed'[t] : rows'[c].uuid
      BY <1>0, <1>7, <1>14, <3>1 DEF SteadyThread
    <3> QED
      BY <1>1, <3>1, <3>2, <3>3 DEF SteadyThread
  <2> QED
    BY <1>11, <2>1, <2>2
<1>16. Steady'
  BY <1>6, <1>7, <1>8, <1>12, <1>15, SteadyStep DEF CalmState, Steady
<1> QED
  BY <1>1, <1>13, <1>15, <1>16, BystanderStep

LEMMA CalmReconciler ==
    ASSUME CalmState, Calm', NEW t \in Threads, ResetAbandoned(t) \/ Claim(t)
    PROVE  Steady' /\ Progress'
<1>0. /\ MultiSubInv /\ MultiSubTypeOK /\ WithinBudget /\ SteadyThread(t) /\ AtWork(t)
      /\ \A b \in Bindings : SteadyRow(b)
  BY DEF CalmState, MultiSubInv, Steady, ThreadsAtWork
<1>1. rows \in [Bindings -> RowSet] /\ old \subseteq Bindings
  BY <1>0 DEF MultiSubTypeOK, StoreTyped
<1>2. \A b \in Bindings : rows[b].st # "reconciling" /\ rows[b].st # "failed"
  BY <1>0 DEF SteadyRow
<1>3. CASE Claim(t)
  <2>1. {b \in With("failed") : rows[b].uuid} = {}
    BY <1>2 DEF With
  <2>2. pc[t] = "claim" /\ Return(t) /\ panel' = panel
    BY <1>3, <2>1 DEF Claim
  <2>3. rows' = [b \in Bindings |-> rows[b]]
    BY <1>3, <2>1 DEF Claim, WriteRows
  <2>4. rows' = rows
    BY <1>1, <2>3
  <2> QED
    BY <2>2, <2>4, NotProvisioning, BystanderReturns
<1>4. CASE ResetAbandoned(t)
  <2>1. ~Spend("db", {})
    BY <1>0, FaultEndsCalm DEF Faults
  <2>2. {b \in old : rows[b].st = "reconciling"} = {}
    BY <1>1, <1>2
  <2>3. rows' = [b \in Bindings |-> rows[b]]
    BY <1>4, <2>1, <2>2 DEF ResetAbandoned, WriteRows
  <2>4. rows' = rows /\ panel' = panel /\ inbox' = inbox /\ done' = done
    BY <1>1, <1>4, <2>3 DEF ResetAbandoned
  <2>5. pc[t] = "idle" /\ listed[t] = {}
    BY <1>0, <1>4 DEF ResetAbandoned, AtWork
  <2>6. "claim" \in Labels /\ "reconcile" \in Work
    BY DEF Labels, Work
  <2>7. /\ Own(t) /\ pc'[t] = "claim" /\ ev'[t] = "reconcile" /\ listed'[t] = {}
    BY <1>0, <1>4, <2>5, <2>6
      DEF ResetAbandoned, MultiSubTypeOK, ThreadsTyped, EventsTyped, Own, Others
  <2>8. SteadyThread(t)'
    BY <2>7 DEF SteadyThread
  <2>9. Steady'
    BY <2>4, <2>7, <2>8, SteadyFrame DEF CalmState, Steady
  <2>10. SameUsers /\ ev[t] # "activated"
    BY <2>4, <2>5, NotProvisioning DEF SameUsers
  <2> QED
    BY <2>7, <2>9, <2>10, BystanderStep
<1> QED
  BY <1>3, <1>4

LEMMA CalmListForSync ==
    ASSUME CalmState, NEW t \in Threads, ListForSync(t)
    PROVE  Steady' /\ Progress'
<1>0. /\ MultiSubTypeOK /\ \A b \in Bindings : SteadyRow(b)
  BY DEF CalmState, MultiSubInv, Steady
<1> DEFINE L == With("active")
<1>1. L \in SUBSET Bindings /\ \A b \in L : rows[b].uuid
  BY <1>0 DEF With, SteadyRow
<1>2. /\ pc[t] = "idle" /\ rows' = rows /\ panel' = panel
      /\ pc' = [pc EXCEPT ![t] = "get"] /\ ev' = [ev EXCEPT ![t] = "sync"]
      /\ listed' = [listed EXCEPT ![t] = L]
      /\ UNCHANGED <<inbox, todo, mem, step, done>>
  BY DEF ListForSync, dbVars
<1> HIDE DEF L
<1>3. "get" \in Labels /\ "sync" \in Work
  BY DEF Labels, Work
<1>4. Own(t) /\ pc'[t] = "get" /\ ev'[t] = "sync" /\ listed'[t] = L
  <2>1. MultiSubTypeOK /\ L \in SUBSET Bindings
    BY <1>0, <1>1
  <2> QED
    BY <1>2, <1>3, <2>1
      DEF MultiSubTypeOK, ThreadsTyped, EventsTyped, Own, Others
<1>5. SteadyThread(t)'
  BY <1>1, <1>2, <1>4 DEF SteadyThread
<1>6. Steady'
  BY <1>2, <1>4, <1>5, SteadyFrame DEF CalmState, Steady
<1>7. SameUsers /\ ev[t] # "activated"
  BY <1>2, NotProvisioning DEF SameUsers
<1> QED
  BY <1>4, <1>6, <1>7, BystanderStep

LEMMA CalmGetByID ==
    ASSUME CalmState, NEW t \in Threads, GetByID(t)
    PROVE  Steady' /\ Progress'
<1>0. /\ MultiSubTypeOK /\ SteadyThread(t) /\ AtWork(t)
      /\ \A b \in Bindings : SteadyRow(b)
  BY DEF CalmState, MultiSubInv, Steady, ThreadsAtWork
<1>1. /\ pc[t] = "get" /\ ev[t] = "sync" /\ listed[t] # {} /\ rows' = rows /\ panel' = panel
  BY <1>0 DEF GetByID, AtWork, dbVars
<1>2. ThreadsTyped /\ EventsTyped /\ rows \in [Bindings -> RowSet]
  BY <1>0 DEF MultiSubTypeOK, StoreTyped
<1>3. PICK b \in Bindings : b = Min(listed[t]) /\ b \in listed[t]
  BY <1>1, <1>2, MinOf DEF ThreadsTyped
<1>4. /\ listed' = [listed EXCEPT ![t] = @ \ {b}]
      /\ todo' = [todo EXCEPT ![t] = {b}]
      /\ mem' = [mem EXCEPT ![t][b] = rows[b]]
      /\ pc' = [pc EXCEPT ![t] = "fetch"]
      /\ UNCHANGED <<inbox, ev, step, done>>
  BY <1>3 DEF GetByID
<1>5. "fetch" \in Labels
  BY DEF Labels
<1>6. /\ Own(t) /\ pc'[t] = "fetch" /\ ev'[t] = "sync" /\ listed'[t] = listed[t] \ {b}
      /\ todo'[t] = {b} /\ mem'[t][b] = rows[b]
  BY <1>1, <1>2, <1>4, <1>5 DEF ThreadsTyped, EventsTyped, Own, Others
<1>7. rows[b].uuid /\ rows[b].st \in {"active", "disabled"}
  BY <1>0, <1>3 DEF SteadyThread, SteadyRow
<1>8. SteadyThread(t)'
  BY <1>0, <1>1, <1>6, <1>7 DEF SteadyThread, SoundCopy
<1>9. Steady'
  BY <1>1, <1>4, <1>6, <1>8, SteadyFrame DEF CalmState, Steady
<1>10. SameUsers
  BY <1>1, <1>4 DEF SameUsers
<1> QED
  BY <1>1, <1>6, <1>9, <1>10, BystanderStep

LEMMA CalmGetUser ==
    ASSUME CalmState, NEW t \in Threads, GetUser(t)
    PROVE  Steady' /\ Progress'
<1>0. /\ MultiSubInv /\ MultiSubTypeOK /\ SteadyThread(t) /\ AtWork(t)
      /\ \A b \in Bindings : SteadyRow(b)
  BY DEF CalmState, MultiSubInv, Steady, ThreadsAtWork
<1>1. pc[t] = "fetch" /\ ev[t] = "sync" /\ rows' = rows /\ panel' = panel
  BY <1>0 DEF GetUser, AtWork, dbVars
<1>2. PICK b \in Bindings : b = Cur(t) /\ todo[t] = {b}
  BY <1>0, <1>1, OneHeld DEF OneBinding
<1>3. /\ rows[b].uuid /\ OnPanel(b) /\ SoundCopy(mem[t][b])
      /\ mem[t] \in [Bindings -> RowSet] /\ mem[t][b] \in RowSet
  BY <1>0, <1>1, <1>2 DEF SteadyThread, SteadyRow, MultiSubTypeOK, ThreadsTyped
<1> DEFINE r == SyncStatus(mem[t][b], panel[b])
           new == [mem[t] EXCEPT ![b] = r]
<1>4. r \in RowSet /\ SoundCopy(r)
  BY <1>3, SyncFields DEF OnPanel, SoundCopy
<1>5. Hold(t, {b}, new, "write")
  BY <1>2, <1>3 DEF GetUser, SoundCopy
<1> HIDE DEF r
<1>6. new \in [Bindings -> RowSet] /\ new[b] = r /\ "write" \in Labels
  BY <1>3, <1>4 DEF Labels
<1> HIDE DEF new
<1>7. Own(t) /\ Resting(t) /\ pc'[t] = "write" /\ todo'[t] = {b} /\ mem'[t] = new
  BY <1>0, <1>5, <1>6, HoldFacts
<1>8. inbox' = inbox /\ done' = done
  BY <1>5 DEF Hold
<1>9. SteadyThread(t)'
  BY <1>0, <1>1, <1>3, <1>4, <1>6, <1>7 DEF SteadyThread, Resting
<1>10. Steady'
  BY <1>1, <1>7, <1>8, <1>9, SteadyFrame DEF CalmState, Steady
<1>11. SameUsers
  BY <1>1, <1>8 DEF SameUsers
<1> QED
  BY <1>1, <1>7, <1>10, <1>11, BystanderStep DEF Resting

\* The goroutines and the rows do not change, and the users that are there stay.
LEMMA CalmOutside ==
    ASSUME CalmState, UNCHANGED <<threadVars, rows, done>>,
           "cancelled" \notin inbox', "activated" \in inbox' <=> "activated" \in inbox,
           \A b \in Bindings : OnPanel(b) => OnPanel(b)'
    PROVE  Steady' /\ Progress'
<1>1. /\ pc' = pc /\ ev' = ev /\ listed' = listed /\ todo' = todo /\ mem' = mem
      /\ step' = step /\ rows' = rows /\ done' = done
  BY DEF threadVars
<1>2. \A t \in Threads : todo[t] \subseteq Bindings
  BY DEF CalmState, MultiSubInv, MultiSubTypeOK, ThreadsTyped
<1>3. ASSUME NEW b \in Bindings
      PROVE  SteadyRow(b)'
  BY <1>1 DEF CalmState, Steady, SteadyRow
<1>4. ASSUME NEW t \in Threads
      PROVE  SteadyThread(t)'
  BY <1>1, <1>2 DEF CalmState, Steady, SteadyThread
<1>5. Provisioned' = Provisioned /\ (NoRows' <=> NoRows)
  BY <1>1 DEF Provisioned, NoRows
<1>6. ASSUME NEW t \in Threads, ev'[t] = "activated"
      PROVE  Provisions(t)'
  BY <1>1, <1>5, <1>6 DEF CalmState, Progress, Provisions
<1>7. Progress'
  BY <1>1, <1>5, <1>6 DEF CalmState, Progress
<1> QED
  BY <1>3, <1>4, <1>7 DEF Steady

LEMMA CalmEnvironment ==
    ASSUME CalmState, Calm', NEW b \in Bindings,
           \/ Abandon(b) \/ Outlive(b) \/ TrafficExceeded(b) \/ TrafficReset(b)
           \/ Cancel \/ Pause \/ Resume
           \/ UNCHANGED vars
    PROVE  Steady' /\ Progress'
<1>0. "cancelled" \notin inbox
  BY DEF CalmState, Steady
<1>1. CASE Abandon(b) \/ Outlive(b)
  <2>1. UNCHANGED <<inbox, rows, panel, threadVars, done>>
    BY <1>1 DEF Abandon, Outlive, Age
  <2> QED
    BY <1>0, <2>1, CalmOutside DEF OnPanel
<1>2. CASE TrafficExceeded(b) \/ TrafficReset(b)
  <2>1. UNCHANGED <<inbox, threadVars, rows, done>>
    BY <1>2 DEF TrafficExceeded, TrafficReset, Traffic, dbVars
  <2>2. panel \in [Bindings -> Users]
    BY DEF CalmState, MultiSubInv, MultiSubTypeOK, PanelTyped
  <2>3. \A c \in Bindings : OnPanel(c) => OnPanel(c)'
    BY <1>2, <2>2 DEF TrafficExceeded, TrafficReset, Traffic, OnPanel
  <2> QED
    BY <1>0, <2>1, <2>3, CalmOutside
<1>3. CASE Cancel \/ Pause \/ Resume
  <2>1. sub' # "cancelled"
    BY DEF Calm
  <2>2. /\ UNCHANGED <<threadVars, rows, panel, done>>
        /\ inbox' \in {inbox \cup {"paused"}, inbox \cup {"resumed"}}
    BY <1>3, <2>1 DEF Cancel, Pause, Resume, Bill, dbVars
  <2> QED
    BY <1>0, <2>2, CalmOutside DEF OnPanel
<1>4. CASE UNCHANGED vars
  <2>1. UNCHANGED <<inbox, rows, panel, threadVars, done>>
    BY <1>4 DEF vars, threadVars
  <2> QED
    BY <1>0, <2>1, CalmOutside DEF OnPanel
<1> QED
  BY <1>1, <1>2, <1>3, <1>4

\* Where a step of t takes it.
Onward(t) ==
    /\ UNCHANGED visible
    /\ \E l : /\ pc' = [pc EXCEPT ![t] = l]
              /\ l \in Creating => visible \/ pc[t] \in Creating

LEMMA Walks ==
    ASSUME NEW t \in Threads, pc \in [Threads -> Labels]
    PROVE  /\ Return(t) \/ ReturnError(t) => \E l \in {"idle"} : pc' = [pc EXCEPT ![t] = l]
           /\ \A b : \A l \in {"mark", "call", "get"} : Finished(t, b, l) =>
                 \E m \in {"idle", "mark", "call", "get"} : pc' = [pc EXCEPT ![t] = m]
           /\ \A S, new, l : Hold(t, S, new, l) => pc' = [pc EXCEPT ![t] = l]
           /\ \A l : Goto(t, l) => pc' = [pc EXCEPT ![t] = l]
<1>1. Return(t) \/ ReturnError(t) => pc' = [pc EXCEPT ![t] = "idle"]
  BY DEF Return, ReturnError, Idle
<1>2. ASSUME NEW b, NEW l \in {"mark", "call", "get"}, Finished(t, b, l)
      PROVE  \E m \in {"idle", "mark", "call", "get"} : pc' = [pc EXCEPT ![t] = m]
  BY <1>1, <1>2 DEF Finished
<1> QED
  BY <1>1, <1>2 DEF Hold, Goto

LEMMA OnwardSteps ==
    ASSUME NEW t \in Threads, pc \in [Threads -> Labels], ThreadStep(t) \/ ListForSync(t)
    PROVE  Onward(t)
<1>1. CASE \E e \in inbox : Take(t, e)
  BY <1>1 DEF Take, Onward, dbVars, Creating
<1>2. CASE ReadError(t) \/ CreateRowError(t) \/ CompensateDeleteUser(t)
  BY <1>2, Walks DEF ReadError, CreateRowError, CompensateDeleteUser, Onward, dbVars, Creating
<1>3. CASE CheckExisting(t) \/ CheckActive(t)
  BY <1>3, Walks DEF CheckExisting, CheckActive, Onward, dbVars, Creating
<1>4. CASE GuardSubscription(t)
  BY <1>4, Walks DEF GuardSubscription, Onward, dbVars, Creating
<1>5. CASE CreateRow(t)
  BY <1>5, Walks DEF CreateRow, WriteRows, Onward, Creating
<1>6. CASE CreateUser(t) \/ CreateUserError(t)
  BY <1>6, Walks DEF CreateUser, CreateUserError, Onward, dbVars, Creating
<1>7. CASE PersistFailure(t)
  BY <1>7, Walks DEF PersistFailure, Update, WriteRows, Onward, dbVars, Creating
<1>8. CASE PersistProvisioned(t)
  BY <1>8, Walks DEF PersistProvisioned, Update, WriteRows, Onward, Creating
<1>9. CASE PersistProvisionedError(t)
  BY <1>9, Walks DEF PersistProvisionedError, Onward, dbVars, Creating
<1>10. CASE ReadPending(t) \/ ReadTargets(t)
  BY <1>10, Walks DEF ReadPending, ReadTargets, Onward, dbVars, Creating
<1>11. CASE ResetAbandoned(t) \/ ListForSync(t) \/ GetByID(t)
  BY <1>11 DEF ResetAbandoned, ListForSync, GetByID, WriteRows, Onward, dbVars, Creating
<1>12. CASE Claim(t)
  BY <1>12, Walks DEF Claim, WriteRows, Onward, Creating
<1>13. CASE GetUser(t)
  BY <1>13, Walks DEF GetUser, Onward, dbVars, Creating
<1>14. CASE GetUserError(t)
  BY <1>14, Walks DEF GetUserError, Onward, dbVars, Creating
<1>15. CASE GatewayOk(t)
  BY <1>15, Walks DEF GatewayOk, Onward, dbVars, Creating
<1>16. CASE GatewayError(t)
  BY <1>16, Walks DEF GatewayError, Onward, dbVars, Creating
<1>17. CASE Write(t)
  <2>1. Finished(t, Cur(t), "mark") \/ Finished(t, Cur(t), "call")
    BY <1>17 DEF Write
  <2>2. UNCHANGED visible
    BY <1>17 DEF Write, Update, WriteRows, dbVars
  <2> QED
    BY <2>1, <2>2, Walks DEF Onward, Creating
<1> QED
  BY <1>1, <1>2, <1>3, <1>4, <1>5, <1>6, <1>7, <1>8, <1>9, <1>10, <1>11, <1>12, <1>13, <1>14,
     <1>15, <1>16, <1>17 DEF ThreadStep, EventStep, BackgroundStep

LEMMA SeenStep ==
    ASSUME MultiSubInv, Seen, [Next]_vars
    PROVE  Seen'
<1>1. pc \in [Threads -> Labels]
  BY DEF MultiSubInv, MultiSubTypeOK, ThreadsTyped
<1>2. ASSUME NEW t \in Threads, ThreadStep(t) \/ ListForSync(t)
      PROVE  Seen'
  <2>1. Onward(t)
    BY <1>1, <1>2, OnwardSteps
  <2>2. UNCHANGED visible /\ \A u \in Threads : pc'[u] \in Creating => visible
    BY <1>1, <2>1 DEF Onward, Seen
  <2> QED
    BY <2>2 DEF Seen
<1>3. CASE \/ UNCHANGED vars \/ Cancel \/ Pause \/ Resume
           \/ \E b \in Bindings :
                 Abandon(b) \/ Outlive(b) \/ TrafficExceeded(b) \/ TrafficReset(b)
  <2>1. UNCHANGED <<visible, pc>>
    BY <1>3 DEF vars, Cancel, Pause, Resume, Bill, Abandon, Outlive, Age, TrafficExceeded,
                TrafficReset, Traffic, threadVars, dbVars
  <2> QED
    BY <2>1 DEF Seen
<1>4. ASSUME NEW p \in Instances, Crash(p)
      PROVE  Seen'
  <2>1. /\ UNCHANGED visible
        /\ \A t \in Threads : pc'[t] \in {pc[t], "idle"}
    BY <1>4 DEF Crash, dbVars
  <2> QED
    BY <2>1 DEF Seen, Creating
<1> QED
  BY <1>2, <1>3, <1>4 DEF Next

LEMMA CalmNext ==
    ASSUME CalmState, Seen, Calm', [Next]_vars
    PROVE  Steady' /\ Progress'
<1>0. MultiSubInv /\ WithinBudget
  BY DEF CalmState
<1>1. \A k \in Faults : \A S : ~Spend(k, S)
  BY <1>0, FaultEndsCalm
<1>2. {"refused", "lost", "db", "crash"} = Faults
  BY DEF Faults
<1>3. ASSUME NEW t \in Threads, EventStep(t)
      PROVE  Steady' /\ Progress'
  <2>1. pc[t] \notin {"failure", "compensate", "mark", "pending", "list"} /\ ev[t] # "cancelled"
    BY CalmLabels
  <2>2. ~ReadError(t) /\ ~CreateRowError(t) /\ ~CreateUserError(t) /\ ~PersistProvisionedError(t)
    BY <1>1, <1>2
      DEF ReadError, CreateRowError, CreateUserError, PersistProvisionedError, Seen, Creating
  <2>3. /\ ~PersistFailure(t) /\ ~CompensateDeleteUser(t) /\ ~CheckActive(t) /\ ~ReadPending(t)
    BY <2>1 DEF PersistFailure, CompensateDeleteUser, CheckActive, ReadPending
  <2>4. ASSUME NEW e \in inbox, Take(t, e)
        PROVE  Steady' /\ Progress'
    BY <2>4, CalmTake
  <2> QED
    BY <1>3, <2>2, <2>3, <2>4, CalmCheckExisting, CalmGuard, CalmCreateRow, CalmCreateUser,
       CalmPersist, CalmReadTargets
    DEF EventStep
<1>4. ASSUME NEW t \in Threads, BackgroundStep(t)
      PROVE  Steady' /\ Progress'
  <2>1. ~GetUserError(t)
    BY <1>1, <1>2 DEF GetUserError
  <2> QED
    BY <1>4, <2>1, CalmReconciler, CalmGetByID, CalmGetUser DEF BackgroundStep
<1>5. ASSUME NEW t \in Threads, ThreadStep(t) \/ ListForSync(t)
      PROVE  Steady' /\ Progress'
  BY <1>3, <1>4, <1>5, CalmGatewayOk, CalmGatewayError, CalmWrite, CalmListForSync
    DEF ThreadStep
<1>6. ASSUME NEW b \in Bindings,
             Abandon(b) \/ Outlive(b) \/ TrafficExceeded(b) \/ TrafficReset(b)
      PROVE  Steady' /\ Progress'
  BY <1>6, CalmEnvironment
<1>7. CASE Cancel \/ Pause \/ Resume \/ UNCHANGED vars
  <2>1. \E b : b \in Bindings
    BY MultiSubAssumption DEF Bindings
  <2> QED
    BY <1>7, <2>1, CalmEnvironment
<1>8. ASSUME NEW p \in Instances, Crash(p)
      PROVE  FALSE
  BY <1>1, <1>2, <1>8 DEF Crash
<1> QED
  BY <1>5, <1>6, <1>7, <1>8 DEF Next

LEMMA CalmStep ==
    MultiSubInv /\ CalmInv /\ [Next]_vars => CalmInv'
<1> SUFFICES ASSUME MultiSubInv, CalmInv, [Next]_vars PROVE CalmInv'
  OBVIOUS
<1>1. WithinBudget' /\ Seen' /\ (Calm' => Calm)
  BY SpendsOnlyStep, CalmBefore, SeenStep DEF CalmInv
<1>2. ASSUME Calm' PROVE Steady' /\ Progress'
  <2>1. CalmState
    BY <1>1, <1>2 DEF CalmInv, CalmState
  <2> QED
    BY <1>2, <2>1, CalmNext DEF CalmInv
<1> QED
  BY <1>1, <1>2 DEF CalmInv

LEMMA CalmInit == Init => CalmInv
<1> SUFFICES ASSUME Init PROVE CalmInv
  OBVIOUS
<1>1. /\ NoRow.st = "none" /\ ~NoRow.uuid
      /\ Row("active", TRUE).st = "active" /\ Row("active", TRUE).uuid
  BY DEF NoRow, Row
<1>2. PICK kept \in SUBSET Bindings :
         /\ kept # {} => 1 .. Specs \subseteq kept
         /\ inbox = IF kept = {} THEN {"activated"} ELSE {}
         /\ done = IF kept = {} THEN {} ELSE {"activated"}
         /\ rows = [b \in Bindings |-> IF b \in kept THEN Row("active", TRUE) ELSE NoRow]
         /\ panel = [b \in Bindings |-> IF b \in kept THEN "enabled" ELSE "none"]
  BY Beginning
<1>3. \A b \in Bindings :
         IF b \in kept THEN rows[b].st = "active" /\ rows[b].uuid /\ panel[b] = "enabled"
                       ELSE rows[b].st = "none" /\ ~rows[b].uuid
  BY <1>1, <1>2
<1>4. \A t \in Threads : pc[t] = "idle" /\ ev[t] = "none" /\ todo[t] = {} /\ listed[t] = {}
  BY DEF Init
<1>5. WithinBudget
  BY MultiSubAssumption DEF WithinBudget, Init
<1>6. Seen
  BY <1>4 DEF Seen, Creating
<1>7. Steady
  BY <1>2, <1>3, <1>4 DEF Steady, SteadyRow, SteadyThread, OnPanel
<1>8. kept = {} => NoRows
  BY <1>3 DEF NoRows
<1>9. kept # {} => Cardinality(Provisioned) >= Specs
  <2> SUFFICES ASSUME kept # {} PROVE Cardinality(Provisioned) >= Specs
    OBVIOUS
  <2>1. Provisioned = kept
    BY <1>3 DEF Provisioned
  <2>2. IsFiniteSet(1 .. Specs) /\ Cardinality(1 .. Specs) = Specs
    BY MultiSubAssumption, FS_Interval
  <2>3. 1 .. Specs \subseteq Provisioned
    BY <1>2, <2>1
  <2> QED
    BY <2>2, <2>3, CountIsNat, FS_Subset
<1>10. Progress
  BY <1>2, <1>4, <1>8, <1>9 DEF Progress
<1> QED
  BY <1>5, <1>6, <1>7, <1>10 DEF CalmInv

\* An activation is acked only once the plan's bindings have their users, with or
\* without the row policies, unless a call, a write or a pod has failed or the
\* subscription is cancelled.
THEOREM AckedActivationsProvisioned == Spec => []ActivatedMeansProvisioned
<1>1. CalmInv => ActivatedMeansProvisioned
  BY DEF CalmInv, Calm, Progress, Provisioned, Faults, ActivatedMeansProvisioned
<1> QED
  BY <1>1, MultiSubInvariant, CalmInit, CalmStep, PTL DEF Spec

-----------------------------------------------------------------------------
(* The families of the built-in tariffs (FamilyGroups).                      *)
\* The request that has the group, or is making it, holds the lock; what it read is what
\* the row still is.
FamilyInv ==
  /\ DOMAIN familyCall = FamilyRequests
  /\ \A r \in FamilyRequests : familyCall[r].pc = "found" =>
       /\ groupLock = r
       /\ \/ familyGroup # NoGroup /\ familyCall[r].group = familyGroup
          \/ /\ familyGroup = NoGroup /\ Allowed(familyCall[r].plan.max)
             /\ familyCall[r].group = NewFamilyGroup(familyCall[r].plan.max)
  /\ \A r \in FamilyRequests : familyCall[r].pc = "none" =>
       familyCall[r] = [pc |-> "none", op |-> familyCall[r].op, user |-> familyCall[r].user,
                        plan |-> familyCall[r].plan, group |-> familyCall[r].group]
  /\ familyGroup = NoGroup => relatives = {FamilyOwner}
  /\ familyGroup # NoGroup =>
       /\ familyGroup = [max |-> familyGroup.max, members |-> familyGroup.members]
       /\ familyGroup.max \in Nat /\ IsFiniteSet(familyGroup.members)
  /\ FamiliesKept

LEMMA FamilyStarts == ASSUME FamilyInit PROVE FamilyInv
BY DEF FamilyInit, FamilyInv, IdleCall, FamiliesKept

\* The group that a request found or made is one to add to and to remove from.
LEMMA FoundGroup ==
  ASSUME FamilyInv, NEW r \in FamilyRequests, familyCall[r].pc = "found",
         NEW g, g = familyCall[r].group
  PROVE  /\ g = [max |-> g.max, members |-> g.members] /\ g.max \in Nat /\ IsFiniteSet(g.members)
         /\ g.members = relatives /\ FamilyOwner \in g.members
         /\ Cardinality(g.members) \in Nat /\ Cardinality(g.members) <= g.max
         /\ familyGroup.members \subseteq g.members
<1>1. CASE familyGroup # NoGroup
  <2>1. g = familyGroup
    BY <1>1 DEF FamilyInv
  <2>2. IsFiniteSet(g.members)
    BY <1>1, <2>1 DEF FamilyInv
  <2>3. Cardinality(g.members) \in Nat
    BY <2>2, FS_CardinalityType
  <2> QED BY <1>1, <2>1, <2>2, <2>3 DEF FamilyInv, FamiliesKept, MemberCount
<1>2. CASE familyGroup = NoGroup
  <2>1. Allowed(familyCall[r].plan.max) /\ g = NewFamilyGroup(familyCall[r].plan.max)
    BY <1>2 DEF FamilyInv
  <2>2. g.members = {FamilyOwner} /\ g.max \in 2 .. 10 /\ g = [max |-> g.max, members |-> g.members]
    BY <2>1 DEF NewFamilyGroup, Allowed, MinFamilyMembers, MaxFamilyMembers
  <2>3. IsFiniteSet(g.members) /\ Cardinality(g.members) = 1
    BY <2>2, FS_Singleton
  <2>4. familyGroup.members = {} /\ relatives = {FamilyOwner}
    BY <1>2 DEF FamilyInv, NoGroup
  <2> QED BY <2>2, <2>3, <2>4
<1> QED BY <1>1, <1>2

\* A request that ends leaves the others what they found.
LEMMA FamilyEnds ==
  ASSUME FamilyInv, NEW r \in FamilyRequests, Finish(r),
         \/ UNCHANGED <<familyGroup, relatives>>
         \/ /\ groupLock = r /\ Unlocked # r /\ familyGroup' # NoGroup /\ familyGroup'.max \in Nat
            /\ familyGroup' = [max |-> familyGroup'.max, members |-> familyGroup'.members]
            /\ IsFiniteSet(familyGroup'.members) /\ FamiliesKept'
  PROVE  FamilyInv'
<1>1. /\ DOMAIN familyCall' = FamilyRequests /\ familyCall'[r].pc = "idle"
      /\ \A s \in FamilyRequests \ {r} : familyCall'[s] = familyCall[s]
      /\ groupLock' = IF groupLock = r THEN Unlocked ELSE groupLock
  BY DEF Finish, FamilyInv, IdleCall
<1>2. \A s \in FamilyRequests : familyCall'[s].pc = "found" =>
        s # r /\ familyCall'[s] = familyCall[s] /\ groupLock = s /\ groupLock' = s
  BY <1>1 DEF FamilyInv
<1>3. CASE UNCHANGED <<familyGroup, relatives>>
  <2>1. familyGroup' = familyGroup /\ relatives' = relatives
    BY <1>3
  <2>2. FamiliesKept'
    BY <2>1 DEF FamilyInv, FamiliesKept
  <2>3. \A s \in FamilyRequests : familyCall'[s].pc = "found" =>
          /\ groupLock' = s
          /\ \/ familyGroup' # NoGroup /\ familyCall'[s].group = familyGroup'
             \/ /\ familyGroup' = NoGroup /\ Allowed(familyCall'[s].plan.max)
                /\ familyCall'[s].group = NewFamilyGroup(familyCall'[s].plan.max)
    BY <1>2, <2>1, Zenon DEF FamilyInv
  <2> QED BY <1>1, <2>1, <2>2, <2>3 DEF FamilyInv
<1>4. CASE /\ groupLock = r /\ familyGroup' # NoGroup /\ familyGroup'.max \in Nat
           /\ familyGroup' = [max |-> familyGroup'.max, members |-> familyGroup'.members]
           /\ IsFiniteSet(familyGroup'.members) /\ FamiliesKept'
  <2>1. \A s \in FamilyRequests : familyCall'[s].pc # "found"
    BY <1>2, <1>4
  <2> QED BY <1>1, <1>4, <2>1 DEF FamilyInv
<1> QED BY <1>3, <1>4

LEMMA AddKeepsFamily ==
  ASSUME FamilyInv, Unlocked \notin FamilyRequests, NEW r \in FamilyRequests, AddFamilyMember(r)
  PROVE  FamilyInv'
<1>1. PICK g, u : g = familyCall[r].group /\ u = familyCall[r].user
  OBVIOUS
<1>2. /\ familyCall[r].pc = "found" /\ u \notin g.members /\ ~(Cardinality(g.members) >= g.max)
      /\ relatives' = relatives \cup {u} /\ Finish(r)
      /\ UpdateFamilyGroup([g EXCEPT !.members = g.members \cup {u}])
  BY <1>1 DEF AddFamilyMember, CanAddMember, HasMember, IsFull, MemberCount, AddMember
<1>3. /\ g = [max |-> g.max, members |-> g.members] /\ g.max \in Nat /\ IsFiniteSet(g.members)
      /\ g.members = relatives /\ FamilyOwner \in g.members
      /\ Cardinality(g.members) \in Nat /\ Cardinality(g.members) <= g.max
      /\ familyGroup.members \subseteq g.members
  BY <1>1, <1>2, FoundGroup
<1>4. familyGroup' = [max |-> g.max, members |-> g.members \cup {u}]
  <2>1. [g EXCEPT !.members = g.members \cup {u}] = [max |-> g.max, members |-> g.members \cup {u}]
    BY <1>3
  <2>2. familyGroup' = [max |-> g.max,
                        members |-> (familyGroup.members \cup (g.members \cup {u}))
                                      \ (familyGroup.members \ (g.members \cup {u}))]
    BY <1>2, <2>1 DEF UpdateFamilyGroup
  <2>3. (familyGroup.members \cup (g.members \cup {u})) \ (familyGroup.members \ (g.members \cup {u}))
          = g.members \cup {u}
    BY <1>3
  <2> QED BY <2>2, <2>3
<1>5. /\ IsFiniteSet(g.members \cup {u}) /\ Cardinality(g.members \cup {u}) = Cardinality(g.members) + 1
  BY <1>2, <1>3, FS_AddElement
<1>6. /\ familyGroup'.max = g.max /\ familyGroup'.members = g.members \cup {u}
      /\ familyGroup' # NoGroup /\ familyGroup'.max \in Nat /\ IsFiniteSet(familyGroup'.members)
      /\ familyGroup' = [max |-> familyGroup'.max, members |-> familyGroup'.members]
  <2>1. FamilyOwner \in familyGroup'.members
    BY <1>3, <1>4
  <2> QED BY <1>3, <1>4, <1>5, <2>1 DEF NoGroup
<1>7. FamiliesKept'
  <2>1. Cardinality(familyGroup'.members) <= familyGroup'.max
    BY <1>2, <1>3, <1>5, <1>6
  <2> QED BY <1>2, <1>3, <1>6, <2>1 DEF FamiliesKept, MemberCount
<1>8. groupLock = r
  BY <1>2 DEF FamilyInv
<1> QED BY <1>2, <1>6, <1>7, <1>8, FamilyEnds

LEMMA RemoveKeepsFamily ==
  ASSUME FamilyInv, Unlocked \notin FamilyRequests, NEW r \in FamilyRequests, RemoveFamilyMember(r)
  PROVE  FamilyInv'
<1>1. PICK g, u : g = familyCall[r].group /\ u = familyCall[r].user
  OBVIOUS
<1>2. /\ familyCall[r].pc = "found" /\ u \in g.members /\ u # FamilyOwner
      /\ relatives' = relatives \ {u} /\ Finish(r)
      /\ UpdateFamilyGroup([g EXCEPT !.members = g.members \ {u}])
  BY <1>1 DEF RemoveFamilyMember, CanRemoveMember, HasMember, RemoveMember
<1>3. /\ g = [max |-> g.max, members |-> g.members] /\ g.max \in Nat /\ IsFiniteSet(g.members)
      /\ g.members = relatives /\ FamilyOwner \in g.members
      /\ Cardinality(g.members) \in Nat /\ Cardinality(g.members) <= g.max
      /\ familyGroup.members \subseteq g.members
  BY <1>1, <1>2, FoundGroup
<1>4. familyGroup' = [max |-> g.max, members |-> g.members \ {u}]
  <2>1. [g EXCEPT !.members = g.members \ {u}] = [max |-> g.max, members |-> g.members \ {u}]
    BY <1>3
  <2>2. familyGroup' = [max |-> g.max,
                        members |-> (familyGroup.members \cup (g.members \ {u}))
                                      \ (familyGroup.members \ (g.members \ {u}))]
    BY <1>2, <2>1 DEF UpdateFamilyGroup
  <2>3. (familyGroup.members \cup (g.members \ {u})) \ (familyGroup.members \ (g.members \ {u}))
          = g.members \ {u}
    BY <1>3
  <2> QED BY <2>2, <2>3
<1>5. /\ IsFiniteSet(g.members \ {u}) /\ Cardinality(g.members \ {u}) = Cardinality(g.members) - 1
  BY <1>2, <1>3, FS_RemoveElement
<1>6. /\ familyGroup'.max = g.max /\ familyGroup'.members = g.members \ {u}
      /\ familyGroup' # NoGroup /\ familyGroup'.max \in Nat /\ IsFiniteSet(familyGroup'.members)
      /\ familyGroup' = [max |-> familyGroup'.max, members |-> familyGroup'.members]
  <2>1. FamilyOwner \in familyGroup'.members
    BY <1>2, <1>3, <1>4
  <2> QED BY <1>3, <1>4, <1>5, <2>1 DEF NoGroup
<1>7. FamiliesKept'
  <2>1. Cardinality(familyGroup'.members) <= familyGroup'.max
    BY <1>2, <1>3, <1>5, <1>6
  <2> QED BY <1>2, <1>3, <1>6, <2>1 DEF FamiliesKept, MemberCount
<1>8. groupLock = r
  BY <1>2 DEF FamilyInv
<1> QED BY <1>2, <1>6, <1>7, <1>8, FamilyEnds

LEMMA FamilySteps ==
  ASSUME FamilyInv, Unlocked \notin FamilyRequests, [FamilyNext]_familyVars
  PROVE  FamilyInv'
<1>1. CASE UNCHANGED familyVars
  BY <1>1 DEF familyVars, FamilyInv, FamiliesKept
<1>2. ASSUME NEW p, EditFamilyPlan(p)
      PROVE  FamilyInv'
  BY <1>2 DEF EditFamilyPlan, FamilyInv, FamiliesKept
<1>3. ASSUME NEW r \in FamilyRequests, NEW op, NEW u, ReadFamilyPlan(r, op, u)
      PROVE  FamilyInv'
  BY <1>3 DEF ReadFamilyPlan, FamilyInv, FamiliesKept
<1>4. ASSUME NEW r \in FamilyRequests, GetByOwnerIDForUpdate(r)
      PROVE  FamilyInv'
  <2>1. familyGroup' = familyGroup /\ relatives' = relatives
    BY <1>4 DEF GetByOwnerIDForUpdate
  <2>2. /\ DOMAIN familyCall' = FamilyRequests
        /\ \A s \in FamilyRequests \ {r} : familyCall'[s] = familyCall[s]
        /\ familyCall'[r].pc = (IF familyGroup # NoGroup THEN "found" ELSE "none")
        /\ familyCall'[r].group = familyGroup
        /\ familyCall'[r] = [pc |-> familyCall'[r].pc, op |-> familyCall'[r].op,
              user |-> familyCall'[r].user, plan |-> familyCall'[r].plan, group |-> familyCall'[r].group]
    BY <1>4 DEF GetByOwnerIDForUpdate, FamilyInv
  <2>3. FamiliesKept'
    BY <2>1 DEF FamilyInv, FamiliesKept
  <2>4. \A s \in FamilyRequests : familyCall'[s].pc = "found" =>
          /\ groupLock' = s
          /\ \/ familyGroup # NoGroup /\ familyCall'[s].group = familyGroup
             \/ /\ familyGroup = NoGroup /\ Allowed(familyCall'[s].plan.max)
                /\ familyCall'[s].group = NewFamilyGroup(familyCall'[s].plan.max)
    <3>1. CASE familyGroup # NoGroup
      <4>1. groupLock = Unlocked /\ groupLock' = r
        BY <1>4, <3>1 DEF GetByOwnerIDForUpdate, TakeLock
      <4>2. \A s \in FamilyRequests \ {r} : familyCall'[s].pc # "found"
        BY <2>2, <4>1 DEF FamilyInv
      <4> QED BY <2>2, <3>1, <4>1, <4>2
    <3>2. CASE familyGroup = NoGroup
      <4>1. groupLock' = groupLock /\ familyCall'[r].pc # "found"
        BY <1>4, <2>2, <3>2 DEF GetByOwnerIDForUpdate
      <4> QED BY <2>2, <3>2, <4>1 DEF FamilyInv
    <3> QED BY <3>1, <3>2
  <2> QED BY <2>1, <2>2, <2>3, <2>4 DEF FamilyInv
<1>5. ASSUME NEW r \in FamilyRequests, CreateFamilyGroup(r)
      PROVE  FamilyInv'
  <2>1. familyGroup' = familyGroup /\ relatives' = relatives /\ familyGroup = NoGroup
    BY <1>5 DEF CreateFamilyGroup
  <2>2. groupLock = Unlocked /\ groupLock' = r /\ Allowed(familyCall[r].plan.max)
    BY <1>5 DEF CreateFamilyGroup, TakeLock
  <2>3. /\ DOMAIN familyCall' = FamilyRequests
        /\ \A s \in FamilyRequests \ {r} : familyCall'[s] = familyCall[s]
        /\ familyCall'[r].group = NewFamilyGroup(familyCall[r].plan.max)
        /\ familyCall'[r].plan = familyCall[r].plan /\ familyCall'[r].pc = "found"
    <3>1. PICK c : c = familyCall[r]
      OBVIOUS
    <3>2. c = [pc |-> "none", op |-> c.op, user |-> c.user, plan |-> c.plan, group |-> c.group]
      BY <1>5, <3>1 DEF CreateFamilyGroup, FamilyInv
    <3>3. PICK n : n = NewFamilyGroup(c.plan.max)
      OBVIOUS
    <3>4. familyCall' = [familyCall EXCEPT ![r].pc = "found", ![r].group = n]
      BY <1>5, <3>1, <3>3 DEF CreateFamilyGroup
    <3>5. familyCall'[r] = [pc |-> "found", op |-> c.op, user |-> c.user, plan |-> c.plan, group |-> n]
      <4>1. DOMAIN familyCall = FamilyRequests
        BY DEF FamilyInv
      <4> QED BY <3>1, <3>2, <3>4, <4>1
    <3>6. DOMAIN familyCall' = FamilyRequests /\ \A s \in FamilyRequests \ {r} : familyCall'[s] = familyCall[s]
      BY <3>4 DEF FamilyInv
    <3> QED BY <3>1, <3>3, <3>5, <3>6
  <2>4. FamiliesKept'
    BY <2>1 DEF FamilyInv, FamiliesKept
  <2>5. \A s \in FamilyRequests \ {r} : familyCall'[s].pc # "found"
    BY <2>2, <2>3 DEF FamilyInv
  <2> QED BY <2>1, <2>2, <2>3, <2>4, <2>5 DEF FamilyInv
<1>6. ASSUME NEW r \in FamilyRequests, RefuseFamilyCall(r)
      PROVE  FamilyInv'
  <2>1. Finish(r) /\ UNCHANGED <<familyGroup, relatives>>
    BY <1>6 DEF RefuseFamilyCall
  <2> QED BY <2>1, FamilyEnds
<1> QED BY <1>1, <1>2, <1>3, <1>4, <1>5, <1>6, AddKeepsFamily, RemoveKeepsFamily DEF FamilyNext

\* family_service.go: whatever requests and edits of the plan overlap, the group has the
\* members that were told they are, the owner among them, and never more than its size.
THEOREM FamiliesAreKept == ASSUME Unlocked \notin FamilyRequests PROVE FamilySpec => []FamiliesKept
<1>1. FamilyInit => FamilyInv
  BY FamilyStarts
<1>2. FamilyInv /\ [FamilyNext]_familyVars => FamilyInv'
  BY FamilySteps
<1>3. FamilyInv => FamiliesKept
  BY DEF FamilyInv
<1> QED BY <1>1, <1>2, <1>3, PTL DEF FamilySpec
=============================================================================
