----------------------------- MODULE BillingProofs -----------------------------
(***************************************************************************)
(* Proofs about Billing, for every value of its constants: any number of   *)
(* users, plans, checkout requests and schedulers; and about the billing   *)
(* plans the tariffs of the catalogue are sold as, for any number of       *)
(* tariffs, administrators and lengths of periods.                         *)
(***************************************************************************)
EXTENDS Billing, TariffPlans, TLAPS

-----------------------------------------------------------------------------
(* The inductive invariant.  A row's period ends len after its start and     *)
(* has begun, so a renewal moves it on and never past the clock; the         *)
(* renewal invoices of a subscription are dated up to its current period.    *)
(* A scheduler's list holds due rows, apart from those somebody wrote after  *)
(* they were listed, and it marks a row as failed only with an excuse.       *)

Rows == [st : Statuses, user : Users, plan : Plans, pending : Plans \cup {NoPlan},
         start : Nat, end : Nat, len : Nat \ {0}]
Invoices == [kind : {"first", "renewal", "upgrade"}, plan : Plans, start : Nat,
             st : {"draft", "pending", "paid"}]
Requests == [pc : {"idle", "created", "failed"}]
              \cup [pc : {"insert"}, user : Users, plan : Plans]

BillingTypeOK ==
    /\ clock \in Nat
    /\ planActive \in SUBSET Plans
    /\ subs \in [Subs -> Rows \cup {NoSubscription}]
    /\ invs \in [Subs -> Seq(Invoices)]
    /\ flow \in [Subs -> Requests]
    /\ sched \in [Pods -> [todo : SUBSET Subs, failed : SUBSET Subs]]
    /\ excuses \in SUBSET (Subs \X {"overtaken", "refused", "fault"})
    /\ faults \in Nat
    /\ edits \in Nat

HasBegun(row) == row.end = row.start + row.len /\ row.start <= clock
PeriodsBegun == \A s \in Subs : Exists(s) => HasBegun(subs[s])

\* The renewal invoices of s are dated in order, up to the current period.
Dated(s) ==
    /\ \A i \in DOMAIN invs[s] :
          invs[s][i].kind = "renewal" => Exists(s) /\ invs[s][i].start <= subs[s].start
    /\ \A i, j \in DOMAIN invs[s] :
          i < j /\ invs[s][i].kind = "renewal" /\ invs[s][j].kind = "renewal"
          => invs[s][i].start < invs[s][j].start
RenewalsDated == \A s \in Subs : Dated(s)

HasExcuse(s) == \E k \in {"overtaken", "refused", "fault"} : <<s, k>> \in excuses

NotYetCreated == \A s \in Subs : flow[s].pc \in {"idle", "insert"} => ~Exists(s)
ListedAreDue ==
    \A d \in Pods : \A s \in sched[d].todo :
        /\ Exists(s)
        /\ <<s, "overtaken">> \in excuses \/ Due(s)
FailedAreExcused ==
    \A d \in Pods : \A s \in sched[d].failed : HasExcuse(s)
ExpiredAreExcused == \A s \in Subs : subs[s].st = "expired" => HasExcuse(s)

ListsInv == NotYetCreated /\ ListedAreDue /\ FailedAreExcused /\ ExpiredAreExcused

BillingInv ==
    BillingTypeOK /\ PeriodsBegun /\ RenewalsDated /\ ListsInv /\ NoDoubleSubscription

-----------------------------------------------------------------------------
(* Rows and how they are written.                                            *)

\* A row that exists is a whole row, and only rows are live.
LEMMA RowExists ==
    ASSUME BillingTypeOK, NEW s \in Subs
    PROVE  /\ Exists(s) <=> subs[s] \in Rows
           /\ subs[s].st \in Statuses => Exists(s)
           /\ subs[s].st \in Live => Exists(s)
  BY DEF BillingTypeOK, Rows, Statuses, Live, Exists, NoSubscription

\* UpdateSubscription keeps every field but the plan.
LEMMA UpdateFields ==
    ASSUME NEW s \in Subs, subs[s] \in Rows, NEW row \in Rows
    PROVE  /\ UpdateSubscription(s, row) \in Rows
           /\ UpdateSubscription(s, row).st = row.st
           /\ UpdateSubscription(s, row).start = row.start
           /\ UpdateSubscription(s, row).end = row.end
           /\ UpdateSubscription(s, row).len = row.len
  BY DEF UpdateSubscription, Rows

\* Renew moves the period on by its own length.
LEMMA RenewedFields ==
    ASSUME NEW s \in Subs, subs[s] \in Rows
    PROVE  /\ Renewed(s) \in Rows
           /\ Renewed(s).st = subs[s].st
           /\ Renewed(s).start = subs[s].start + subs[s].len
           /\ Renewed(s).end = subs[s].end + subs[s].len
           /\ Renewed(s).len = subs[s].len
<1> DEFINE r == Renewed(s)
<1>1. /\ r.st = subs[s].st /\ r.user = subs[s].user
      /\ r.plan \in Plans /\ r.pending = NoPlan
      /\ r.start = subs[s].start + subs[s].len
      /\ r.end = subs[s].end + subs[s].len
      /\ r.len = subs[s].len
  BY DEF Renewed, Rows
<1>2. /\ DOMAIN r = {"st", "user", "plan", "pending", "start", "end", "len"}
      /\ r = [x \in DOMAIN r |-> r[x]]
  BY DEF Renewed, Rows
<1> HIDE DEF r
<1>3. r \in Rows
  BY <1>1, <1>2 DEF Rows
<1> QED
  BY <1>1, <1>3 DEF r

\* Upgrade starts a new period now.
LEMMA UpgradedFields ==
    ASSUME BillingTypeOK, NEW s \in Subs, subs[s] \in Rows, NEW p \in Plans
    PROVE  /\ Upgraded(s, p) \in Rows
           /\ Upgraded(s, p).st = subs[s].st
           /\ Upgraded(s, p).start = clock
           /\ Upgraded(s, p).end = clock + Interval[p]
           /\ Upgraded(s, p).len = Interval[p]
<1> DEFINE r == Upgraded(s, p)
<1>1. /\ r.st = subs[s].st /\ r.user = subs[s].user
      /\ r.plan = p /\ r.pending = NoPlan
      /\ r.start = clock
      /\ r.end = clock + Interval[p]
      /\ r.len = Interval[p]
  BY DEF Upgraded, addInterval, Rows
<1>2. /\ DOMAIN r = {"st", "user", "plan", "pending", "start", "end", "len"}
      /\ r = [x \in DOMAIN r |-> r[x]]
  BY DEF Upgraded, Rows
<1> HIDE DEF r
<1>3. clock \in Nat /\ Interval[p] \in Nat \ {0} /\ clock + Interval[p] \in Nat
  BY BillingAssumption DEF BillingTypeOK
<1>4. subs[s].st \in Statuses /\ subs[s].user \in Users
  BY DEF Rows
<1>5. r \in Rows
  BY <1>1, <1>2, <1>3, <1>4 DEF Rows
<1> QED
  BY <1>1, <1>5 DEF r

\* A new subscription is a row whose period starts now.
LEMMA NewRow ==
    ASSUME BillingTypeOK, NEW u \in Users, NEW p \in Plans
    PROVE  /\ NewSubscription(u, p) \in Rows
           /\ NewSubscription(u, p).st = "trial"
           /\ NewSubscription(u, p).start = clock
           /\ NewSubscription(u, p).end = clock + Interval[p]
           /\ NewSubscription(u, p).len = Interval[p]
           /\ NewSubscription(u, p).plan = p
  BY BillingAssumption DEF BillingTypeOK, NewSubscription, addInterval, Rows, Statuses

\* A write that the exclusion constraint admits leaves the other rows' periods apart.
LEMMA WriteKeepsApart ==
    ASSUME BillingTypeOK, NoDoubleSubscription, NEW s \in Subs, NEW row \in Rows,
           row.st \in Live => NoOverlap(s, row),
           subs' = [subs EXCEPT ![s] = row]
    PROVE  NoDoubleSubscription'
<1> SUFFICES ASSUME NEW t \in Subs, subs'[t].st \in Live, NEW u \in Subs \ {t},
                    subs'[u].st \in Live,
                    subs'[u].user = subs'[t].user, subs'[u].plan = subs'[t].plan,
                    subs'[u].start < subs'[t].end, subs'[t].start < subs'[u].end
             PROVE  FALSE
  BY DEF NoDoubleSubscription, NoOverlap
<1>1. subs'[s] = row /\ \A v \in Subs \ {s} : subs'[v] = subs[v]
  BY DEF BillingTypeOK
<1>2. CASE t = s
  BY <1>1, <1>2 DEF NoOverlap
<1>3. CASE u = s
  BY <1>1, <1>3 DEF NoOverlap
<1>4. CASE t # s /\ u # s
  BY <1>1, <1>4 DEF NoDoubleSubscription, NoOverlap
<1> QED
  BY <1>2, <1>3, <1>4

\* What a write of one row keeps, when it excuses the schedulers that have it listed.
LEMMA WriteKeepsLists ==
    ASSUME BillingTypeOK, ListsInv, NEW s \in Subs, NEW row \in Rows, Exists(s),
           subs' = [subs EXCEPT ![s] = row],
           row.st = "expired" => HasExcuse(s),
           excuses \subseteq excuses',
           UNCHANGED <<clock, flow>>,
           \A d \in Pods : /\ sched'[d].failed \subseteq sched[d].failed
                           /\ sched'[d].todo \subseteq sched[d].todo
                           /\ s \in sched'[d].todo => <<s, "overtaken">> \in excuses'
    PROVE  ListsInv'
<1>1. /\ subs'[s] = row /\ \A v \in Subs \ {s} : subs'[v] = subs[v]
      /\ \A v \in Subs : HasExcuse(v) => HasExcuse(v)'
      /\ row.st # "none"
  BY DEF BillingTypeOK, HasExcuse, Rows, Statuses
<1>2. \A v \in Subs : Exists(v)' <=> Exists(v)
  BY <1>1 DEF Exists
<1>3. NotYetCreated' /\ ExpiredAreExcused' /\ FailedAreExcused'
  BY <1>1, <1>2 DEF ListsInv, NotYetCreated, ExpiredAreExcused, FailedAreExcused,
                    BillingTypeOK
<1>4. ListedAreDue'
  <2> SUFFICES ASSUME NEW d \in Pods, NEW v \in sched'[d].todo
               PROVE  Exists(v)' /\ (<<v, "overtaken">> \in excuses' \/ Due(v)')
    BY DEF ListedAreDue
  <2>1. v \in sched[d].todo /\ v \in Subs
    BY DEF BillingTypeOK
  <2>2. Exists(v) /\ (<<v, "overtaken">> \in excuses \/ Due(v))
    BY <2>1 DEF ListsInv, ListedAreDue
  <2>3. CASE v = s
    BY <1>2, <2>1, <2>2, <2>3
  <2>4. CASE v # s
    BY <1>1, <1>2, <2>1, <2>2, <2>4 DEF Due
  <2> QED
    BY <2>3, <2>4
<1> QED
  BY <1>3, <1>4 DEF ListsInv

\* A save by a customer, an administrator or a payment keeps the rows and the lists.
LEMMA SaveKeeps ==
    ASSUME BillingInv, NEW s \in Subs, Exists(s), NEW row \in Rows,
           row.st # "expired",
           row.end = row.start + row.len,
           row.start <= clock,
           Save(s, row),
           UNCHANGED <<clock, flow, sched>>
    PROVE  /\ subs' \in [Subs -> Rows \cup {NoSubscription}]
           /\ excuses' \in SUBSET (Subs \X {"overtaken", "refused", "fault"})
           /\ PeriodsBegun' /\ ListsInv' /\ NoDoubleSubscription'
           /\ Exists(s)' /\ subs'[s].start = row.start
           /\ \A t \in Subs \ {s} : subs'[t] = subs[t]
<1> DEFINE new == UpdateSubscription(s, row)
<1>1. BillingTypeOK /\ PeriodsBegun /\ ListsInv /\ NoDoubleSubscription
  BY DEF BillingInv
<1>2. /\ new \in Rows /\ new.st = row.st /\ new.start = row.start
      /\ new.end = row.end /\ new.len = row.len
  BY <1>1, RowExists, UpdateFields
<1>3. /\ subs' = [subs EXCEPT ![s] = new] /\ NoOverlap(s, new)
      /\ excuses' = Excused(s, HeldBy(s))
  BY DEF Save
<1> HIDE DEF new
<1>4. /\ subs'[s] = new /\ \A t \in Subs \ {s} : subs'[t] = subs[t]
      /\ subs' \in [Subs -> Rows \cup {NoSubscription}]
  BY <1>1, <1>2, <1>3 DEF BillingTypeOK
<1>5. /\ excuses \subseteq excuses'
      /\ excuses' \in SUBSET (Subs \X {"overtaken", "refused", "fault"})
      /\ \A d \in Pods : s \in sched[d].todo => <<s, "overtaken">> \in excuses'
  BY <1>1, <1>3 DEF Excused, HeldBy, BillingTypeOK
<1>6. Exists(s)'
  BY <1>2, <1>4 DEF Exists, Rows, Statuses
<1>7. PeriodsBegun'
  BY <1>1, <1>2, <1>4 DEF PeriodsBegun, HasBegun, Exists
<1>8. ListsInv'
  BY <1>1, <1>2, <1>3, <1>5, WriteKeepsLists
<1>9. NoDoubleSubscription'
  BY <1>1, <1>2, <1>3, WriteKeepsApart
<1> QED
  BY <1>2, <1>4, <1>5, <1>6, <1>7, <1>8, <1>9

-----------------------------------------------------------------------------
(* Invoices.                                                                 *)

\* No row's period goes back.
Forward == \A s \in Subs : Exists(s) => Exists(s)' /\ subs[s].start <= subs'[s].start

\* A write of one row moves no other.
LEMMA OneRowForward ==
    ASSUME BillingTypeOK, NEW s \in Subs,
           \A t \in Subs \ {s} : subs'[t] = subs[t],
           Exists(s) => Exists(s)' /\ subs[s].start <= subs'[s].start
    PROVE  Forward
<1>1. \A t \in Subs : subs[t] \in Rows => subs[t].start <= subs[t].start
  BY DEF Rows
<1> QED
  BY <1>1, RowExists DEF Forward, Exists

\* What the invoices of a subscription are.
LEMMA InvoiceType ==
    ASSUME BillingTypeOK, NEW s \in Subs, NEW i \in DOMAIN invs[s]
    PROVE  invs[s][i] \in Invoices /\ invs[s][i].start \in Nat
<1>1. invs[s] \in Seq(Invoices)
  BY DEF BillingTypeOK
<1>2. invs[s][i] \in Invoices
  BY <1>1
<1> QED
  BY <1>2 DEF Invoices

\* Invoices that are only paid, or left alone, stay in order.
LEMMA SameInvoicesDated ==
    ASSUME BillingTypeOK, BillingTypeOK', RenewalsDated, Forward,
           \A s \in Subs : /\ DOMAIN invs'[s] = DOMAIN invs[s]
                           /\ \A i \in DOMAIN invs[s] :
                                 /\ invs'[s][i].kind = invs[s][i].kind
                                 /\ invs'[s][i].start = invs[s][i].start
    PROVE  RenewalsDated'
<1> SUFFICES ASSUME NEW s \in Subs PROVE Dated(s)'
  BY DEF RenewalsDated
<1>1. Dated(s)
  BY DEF RenewalsDated
<1>2. ASSUME NEW i \in DOMAIN invs'[s], invs'[s][i].kind = "renewal"
      PROVE  Exists(s)' /\ invs'[s][i].start <= subs'[s].start
  <2>1. i \in DOMAIN invs[s] /\ Exists(s) /\ invs[s][i].start <= subs[s].start
    BY <1>1, <1>2 DEF Dated
  <2>2. subs[s] \in Rows /\ subs'[s] \in Rows /\ Exists(s)'
    <3>1. subs[s] \in Rows /\ Exists(s)'
      BY <2>1, RowExists DEF Forward
    <3>2. subs'[s] \in Rows \cup {NoSubscription} /\ subs'[s].st # "none"
      BY <3>1 DEF BillingTypeOK, Exists
    <3> QED
      BY <3>1, <3>2 DEF NoSubscription
  <2>3. invs[s][i].start \in Nat
    BY <2>1, InvoiceType
  <2> QED
    BY <2>1, <2>2, <2>3 DEF Forward, Rows
<1> QED
  BY <1>1, <1>2 DEF Dated

\* So do they when one is added, if a renewal is dated at the period it enters.
LEMMA AppendedInvoiceDated ==
    ASSUME BillingTypeOK, BillingTypeOK', RenewalsDated, Forward,
           NEW s \in Subs, NEW inv \in Invoices, AppendInvoice(s, inv),
           inv.kind = "renewal" => /\ Exists(s)
                                   /\ subs[s].start < inv.start
                                   /\ inv.start = subs'[s].start
    PROVE  RenewalsDated'
<1> SUFFICES ASSUME NEW t \in Subs PROVE Dated(t)'
  BY DEF RenewalsDated
<1>1. Dated(t) /\ invs[t] \in Seq(Invoices)
  BY DEF RenewalsDated, BillingTypeOK
<1>2. ASSUME NEW i \in DOMAIN invs[t], invs[t][i].kind = "renewal"
      PROVE  /\ Exists(t) /\ Exists(t)' /\ subs[t].start \in Nat
             /\ invs[t][i].start \in Nat /\ subs'[t].start \in Nat
             /\ invs[t][i].start <= subs[t].start
             /\ invs[t][i].start <= subs'[t].start
  <2>1. Exists(t) /\ invs[t][i].start <= subs[t].start
    BY <1>1, <1>2 DEF Dated
  <2>2. subs[t] \in Rows /\ subs'[t] \in Rows /\ Exists(t)'
    <3>1. subs[t] \in Rows /\ Exists(t)'
      BY <2>1, RowExists DEF Forward
    <3>2. subs'[t] \in Rows \cup {NoSubscription} /\ subs'[t].st # "none"
      BY <3>1 DEF BillingTypeOK, Exists
    <3> QED
      BY <3>1, <3>2 DEF NoSubscription
  <2>3. invs[t][i].start \in Nat
    BY InvoiceType
  <2> QED
    BY <2>1, <2>2, <2>3 DEF Forward, Rows
<1>3. CASE t # s
  <2>1. invs'[t] = invs[t]
    BY <1>3 DEF AppendInvoice, BillingTypeOK
  <2> QED
    BY <1>1, <1>2, <2>1 DEF Dated
<1>4. CASE t = s
  <2> DEFINE n == Len(invs[s])
  <2>1. invs'[s] = Append(invs[s], inv)
    BY DEF AppendInvoice, BillingTypeOK
  <2>2. /\ n \in Nat /\ DOMAIN invs[s] = 1 .. n /\ DOMAIN invs'[s] = 1 .. n + 1
        /\ \A i \in 1 .. n : invs'[s][i] = invs[s][i]
        /\ invs'[s][n + 1] = inv
    BY <1>1, <1>4, <2>1
  <2>3. inv.start \in Nat
    BY DEF Invoices
  <2>4. inv.kind = "renewal" => Exists(s)' /\ inv.start = subs'[s].start
    BY DEF Forward
  <2> HIDE DEF n
  <2>5. ASSUME NEW i \in DOMAIN invs'[s], invs'[s][i].kind = "renewal"
        PROVE  Exists(s)' /\ invs'[s][i].start <= subs'[s].start
    <3>1. CASE i = n + 1
      BY <2>2, <2>3, <2>4, <2>5, <3>1
    <3>2. CASE i \in 1 .. n
      BY <1>2, <1>4, <2>2, <2>5, <3>2
    <3> QED
      BY <2>2, <3>1, <3>2
  <2>6. ASSUME NEW i \in DOMAIN invs'[s], NEW j \in DOMAIN invs'[s], i < j,
               invs'[s][i].kind = "renewal", invs'[s][j].kind = "renewal"
        PROVE  invs'[s][i].start < invs'[s][j].start
    <3>1. i \in 1 .. n
      BY <2>2, <2>6
    <3>2. invs[s][i].kind = "renewal" /\ invs'[s][i].start = invs[s][i].start
      BY <2>2, <2>6, <3>1
    <3>3. CASE j = n + 1
      <4>1. subs[s].start < inv.start /\ invs'[s][j].start = inv.start
        BY <2>2, <2>6, <3>3
      <4>2. invs[s][i].start <= subs[s].start /\ subs[s].start \in Nat /\ invs[s][i].start \in Nat
        BY <1>2, <1>4, <2>2, <3>1, <3>2
      <4> QED
        BY <2>3, <3>2, <4>1, <4>2
    <3>4. CASE j \in 1 .. n
      BY <1>1, <1>4, <2>2, <2>6, <3>1, <3>4 DEF Dated
    <3> QED
      BY <2>2, <3>3, <3>4
  <2> QED
    BY <1>4, <2>5, <2>6 DEF Dated
<1> QED
  BY <1>3, <1>4

Paid(s, i) == Payable(s, i) /\ invs' = [invs EXCEPT ![s][i].st = "paid"]

\* Paying an invoice changes its status only.
LEMMA PaidInvoice ==
    ASSUME BillingTypeOK, NEW s \in Subs, NEW i, Paid(s, i)
    PROVE  /\ invs' \in [Subs -> Seq(Invoices)]
           /\ \A t \in Subs : /\ DOMAIN invs'[t] = DOMAIN invs[t]
                              /\ \A j \in DOMAIN invs[t] :
                                    /\ invs'[t][j].kind = invs[t][j].kind
                                    /\ invs'[t][j].start = invs[t][j].start
<1>1. invs[s] \in Seq(Invoices) /\ i \in DOMAIN invs[s] /\ invs[s][i] \in Invoices
  BY InvoiceType DEF BillingTypeOK, Paid, Payable
<1> DEFINE new == [invs[s][i] EXCEPT !.st = "paid"]
<1>2. new \in Invoices /\ new.kind = invs[s][i].kind /\ new.start = invs[s][i].start
  BY <1>1 DEF Invoices
<1>3. invs' = [invs EXCEPT ![s] = [invs[s] EXCEPT ![i] = new]]
  BY DEF Paid
<1> HIDE DEF new
<1>4. [invs[s] EXCEPT ![i] = new] \in Seq(Invoices)
  BY <1>1, <1>2
<1>5. invs'[s] = [invs[s] EXCEPT ![i] = new] /\ \A t \in Subs \ {s} : invs'[t] = invs[t]
  BY <1>3 DEF BillingTypeOK
<1>6. invs' \in [Subs -> Seq(Invoices)]
  BY <1>3, <1>4 DEF BillingTypeOK
<1>7. /\ DOMAIN invs'[s] = DOMAIN invs[s]
      /\ \A j \in DOMAIN invs[s] : /\ invs'[s][j].kind = invs[s][j].kind
                                   /\ invs'[s][j].start = invs[s][j].start
  BY <1>1, <1>2, <1>5
<1> QED
  BY <1>5, <1>6, <1>7

\* What is written to the invoices of s by everyone but the schedulers.
InvoicesWritten(s) ==
    \/ invs' = invs
    \/ \E inv \in Invoices : inv.kind # "renewal" /\ AppendInvoice(s, inv)
    \/ \E i \in DOMAIN invs[s] : Paid(s, i)

\* Such a write keeps the types and, when no period goes back, the dates.
LEMMA InvoicesKept ==
    ASSUME BillingTypeOK, NEW s \in Subs, InvoicesWritten(s)
    PROVE  /\ invs' \in [Subs -> Seq(Invoices)]
           /\ BillingTypeOK' /\ RenewalsDated /\ Forward => RenewalsDated'
<1>1. CASE invs' = invs
  BY <1>1, SameInvoicesDated DEF BillingTypeOK
<1>2. ASSUME NEW inv \in Invoices, inv.kind # "renewal", AppendInvoice(s, inv)
      PROVE  /\ invs' \in [Subs -> Seq(Invoices)]
             /\ BillingTypeOK' /\ RenewalsDated /\ Forward => RenewalsDated'
  <2>1. invs[s] \in Seq(Invoices) /\ Append(invs[s], inv) \in Seq(Invoices)
    BY DEF BillingTypeOK
  <2>2. invs' \in [Subs -> Seq(Invoices)]
    BY <1>2, <2>1 DEF AppendInvoice, BillingTypeOK
  <2> QED
    BY <1>2, <2>2, AppendedInvoiceDated
<1>3. ASSUME NEW i \in DOMAIN invs[s], Paid(s, i)
      PROVE  /\ invs' \in [Subs -> Seq(Invoices)]
             /\ BillingTypeOK' /\ RenewalsDated /\ Forward => RenewalsDated'
  BY <1>3, PaidInvoice, SameInvoicesDated
<1> QED
  BY <1>1, <1>2, <1>3 DEF InvoicesWritten

\* A save that moves no period back keeps the whole invariant.
LEMMA SaveStep ==
    ASSUME BillingInv, NEW s \in Subs, Exists(s), NEW row \in Rows,
           row.st # "expired",
           row.end = row.start + row.len,
           subs[s].start <= row.start, row.start <= clock,
           Save(s, row), InvoicesWritten(s),
           UNCHANGED <<clock, planActive, flow, sched, faults>>,
           edits' \in Nat
    PROVE  BillingInv'
<1>1. BillingTypeOK /\ RenewalsDated
  BY DEF BillingInv
<1>2. /\ subs' \in [Subs -> Rows \cup {NoSubscription}]
      /\ excuses' \in SUBSET (Subs \X {"overtaken", "refused", "fault"})
      /\ PeriodsBegun' /\ ListsInv' /\ NoDoubleSubscription'
      /\ Exists(s)' /\ subs'[s].start = row.start
      /\ \A t \in Subs \ {s} : subs'[t] = subs[t]
  BY SaveKeeps
<1>3. BillingTypeOK'
  BY <1>1, <1>2, InvoicesKept DEF BillingTypeOK
<1>4. Forward
  BY <1>1, <1>2, OneRowForward
<1> QED
  BY <1>1, <1>2, <1>3, <1>4, InvoicesKept DEF BillingInv

-----------------------------------------------------------------------------
(* The operations of customers, administrators and payments.                 *)

\* Cancelling, pausing and resuming write the status.
LEMMA TransitionStep ==
    ASSUME BillingInv, NEW s \in Subs, NEW st \in Statuses \ {"expired"},
           TransitionTo(s, st), edits' \in Nat
    PROVE  BillingInv'
<1> DEFINE row == [subs[s] EXCEPT !.st = st]
<1>1. Exists(s) /\ subs[s] \in Rows /\ HasBegun(subs[s]) /\ clock \in Nat
  BY RowExists DEF TransitionTo, CanTransitionTo, BillingInv, PeriodsBegun, BillingTypeOK
<1>2. /\ row \in Rows /\ row.st = st /\ row.start = subs[s].start
      /\ row.end = subs[s].end /\ row.len = subs[s].len
      /\ subs[s].start \in Nat
  BY <1>1 DEF Rows
<1>3. Save(s, row) /\ InvoicesWritten(s) /\ UNCHANGED <<clock, planActive, flow, sched, faults>>
  BY DEF TransitionTo, InvoicesWritten
<1> HIDE DEF row
<1> QED
  BY <1>1, <1>2, <1>3, SaveStep DEF HasBegun

\* An upgrade begins a period now and invoices it.
LEMMA UpgradeStep ==
    ASSUME BillingInv, NEW s \in Subs, NEW p \in Plans, UpgradeSubscription(s, p)
    PROVE  BillingInv'
<1> DEFINE row == Upgraded(s, p)
<1>1. /\ BillingTypeOK /\ Exists(s) /\ subs[s] \in Rows /\ HasBegun(subs[s])
      /\ subs[s].st = "active" /\ clock \in Nat /\ edits' \in Nat
  BY RowExists
     DEF UpgradeSubscription, CanUpgrade, Edit, Live, BillingInv, PeriodsBegun, BillingTypeOK
<1>2. /\ row \in Rows /\ row.st = "active" /\ row.start = clock
      /\ row.end = clock + Interval[p] /\ row.len = Interval[p]
  BY <1>1, UpgradedFields
<1>3. Save(s, row) /\ UNCHANGED <<clock, planActive, flow, sched, faults>>
  BY DEF UpgradeSubscription
<1>4. InvoicesWritten(s)
  <2>1. /\ NewInvoice("upgrade", p, clock) \in Invoices
        /\ NewInvoice("upgrade", p, clock).kind # "renewal"
    BY <1>1 DEF NewInvoice, Invoices
  <2> QED
    BY <2>1 DEF UpgradeSubscription, InvoicesWritten
<1> HIDE DEF row
<1> QED
  BY <1>1, <1>2, <1>3, <1>4, SaveStep DEF HasBegun

\* A downgrade only notes the pending plan.
LEMMA DowngradeStep ==
    ASSUME BillingInv, NEW s \in Subs, NEW p \in Plans, DowngradeSubscription(s, p)
    PROVE  BillingInv'
<1> DEFINE row == Downgraded(s, p)
<1>1. /\ BillingTypeOK /\ Exists(s) /\ subs[s] \in Rows /\ HasBegun(subs[s])
      /\ subs[s].st = "active" /\ clock \in Nat /\ edits' \in Nat
  BY RowExists
     DEF DowngradeSubscription, CanDowngrade, Edit, Live, BillingInv, PeriodsBegun,
         BillingTypeOK
<1>2. /\ row \in Rows /\ row.st = "active" /\ row.start = subs[s].start
      /\ row.end = subs[s].end /\ row.len = subs[s].len
      /\ subs[s].start \in Nat
  BY <1>1 DEF Downgraded, Rows
<1>3. /\ Save(s, row) /\ InvoicesWritten(s)
      /\ UNCHANGED <<clock, planActive, flow, sched, faults>>
  BY DEF DowngradeSubscription, InvoicesWritten
<1> HIDE DEF row
<1> QED
  BY <1>1, <1>2, <1>3, SaveStep DEF HasBegun

\* A payment activates a trial, and otherwise leaves the row alone.
LEMMA PayStep ==
    ASSUME BillingInv, NEW s \in Subs, NEW i, PayInvoice(s, i)
    PROVE  BillingInv'
<1>1. BillingTypeOK /\ clock \in Nat /\ edits' \in Nat /\ edits' = edits
  BY DEF PayInvoice, BillingInv, BillingTypeOK
<1>2. /\ Paid(s, i) /\ i \in DOMAIN invs[s] /\ InvoicesWritten(s)
      /\ UNCHANGED <<clock, planActive, flow, sched, faults>>
  BY DEF PayInvoice, Paid, Payable, InvoicesWritten
<1>3. CASE subs[s].st \in {"trial", "past_due"}
  <2> DEFINE row == [subs[s] EXCEPT !.st = "active"]
  <2>1. Exists(s) /\ subs[s] \in Rows /\ HasBegun(subs[s])
    BY <1>1, <1>3, RowExists DEF Live, BillingInv, PeriodsBegun
  <2>2. /\ row \in Rows /\ row.st = "active" /\ row.start = subs[s].start
        /\ row.end = subs[s].end /\ row.len = subs[s].len
        /\ subs[s].start \in Nat
    BY <2>1 DEF Rows, Statuses
  <2>3. Save(s, row)
    BY <1>3 DEF PayInvoice
  <2> HIDE DEF row
  <2> QED
    BY <1>1, <1>2, <2>1, <2>2, <2>3, SaveStep DEF HasBegun
<1>4. CASE subs[s].st \notin {"trial", "past_due"}
  <2>1. UNCHANGED <<subs, excuses>>
    BY <1>4 DEF PayInvoice
  <2>2. BillingTypeOK'
    BY <1>1, <1>2, <2>1, InvoicesKept DEF BillingTypeOK
  <2>3. Forward
    <3>1. subs[s] \in Rows => subs[s].start <= subs[s].start
      BY DEF Rows
    <3> QED
      BY <1>1, <2>1, <3>1, RowExists, OneRowForward DEF Exists
  <2>4. RenewalsDated'
    BY <1>1, <1>2, <2>2, <2>3, InvoicesKept DEF BillingInv
  <2> QED
    BY <1>2, <2>1, <2>2, <2>4
       DEF BillingInv, PeriodsBegun, HasBegun, Exists, ListsInv, NotYetCreated, ListedAreDue,
           FailedAreExcused, ExpiredAreExcused, HasExcuse, Due, NoDoubleSubscription, NoOverlap
<1> QED
  BY <1>3, <1>4

\* The states of a checkout request.
LEMMA RequestType ==
    /\ \A pc \in {"created", "failed"} : [pc |-> pc] \in Requests
    /\ \A u \in Users, p \in Plans : [pc |-> "insert", user |-> u, plan |-> p] \in Requests
  BY DEF Requests

\* Creating a subscription writes a row that did not exist, so no list holds it.
LEMMA CreateStep ==
    ASSUME BillingInv, NEW s \in Subs, CreateSubscription(s)
    PROVE  BillingInv'
<1> USE DEF BillingInv
<1>1. BillingTypeOK /\ clock \in Nat /\ flow[s].pc = "insert" /\ ~Exists(s)
  BY DEF BillingTypeOK, CreateSubscription, ListsInv, NotYetCreated
<1>2. flow[s].user \in Users /\ flow[s].plan \in Plans
  BY <1>1 DEF BillingTypeOK, Requests
<1> DEFINE row == NewSubscription(flow[s].user, flow[s].plan)
<1>3. /\ row \in Rows /\ row.st = "trial" /\ row.start = clock
      /\ row.end = clock + Interval[flow[s].plan] /\ row.len = Interval[flow[s].plan]
      /\ row.plan = flow[s].plan
  BY <1>1, <1>2, NewRow
<1>4. UNCHANGED <<clock, planActive, sched, excuses, faults, edits>>
  BY DEF CreateSubscription
<1>5. /\ flow'[s].pc \in {"created", "failed"}
      /\ \A t \in Subs \ {s} : flow'[t] = flow[t]
      /\ flow' \in [Subs -> Requests]
  <2>1. \E pc \in {"created", "failed"} : flow' = [flow EXCEPT ![s] = [pc |-> pc]]
    BY DEF CreateSubscription
  <2> QED
    BY <1>1, <2>1, RequestType DEF BillingTypeOK
<1>6. CASE UNCHANGED <<subs, invs>>
  <2>1. BillingTypeOK'
    BY <1>1, <1>4, <1>5, <1>6 DEF BillingTypeOK
  <2> QED
    BY <1>4, <1>5, <1>6, <2>1
       DEF PeriodsBegun, HasBegun, Exists, RenewalsDated, Dated, ListsInv, NotYetCreated,
           ListedAreDue, FailedAreExcused, ExpiredAreExcused, HasExcuse, Due,
           NoDoubleSubscription, NoOverlap
<1>7. CASE /\ NoOverlap(s, row)
           /\ subs' = [subs EXCEPT ![s] = row]
           /\ AppendInvoice(s, NewInvoice("first", row.plan, row.start))
           /\ flow' = [flow EXCEPT ![s] = [pc |-> "created"]]
  <2>1. /\ NewInvoice("first", row.plan, row.start) \in Invoices
        /\ NewInvoice("first", row.plan, row.start).kind # "renewal"
    BY <1>1, <1>2, <1>3 DEF NewInvoice, Invoices
  <2>2. InvoicesWritten(s)
    BY <1>7, <2>1 DEF InvoicesWritten
  <2> HIDE DEF row
  <2>3. /\ subs'[s] = row /\ \A t \in Subs \ {s} : subs'[t] = subs[t]
        /\ subs' \in [Subs -> Rows \cup {NoSubscription}]
    BY <1>1, <1>3, <1>7 DEF BillingTypeOK
  <2>4. BillingTypeOK'
    BY <1>1, <1>4, <1>5, <2>2, <2>3, InvoicesKept DEF BillingTypeOK
  <2>5. Forward
    BY <1>1, <2>3, OneRowForward
  <2>6. RenewalsDated'
    BY <1>1, <2>2, <2>4, <2>5, InvoicesKept
  <2>7. PeriodsBegun'
    BY <1>1, <1>3, <1>4, <2>3 DEF PeriodsBegun, HasBegun, Exists
  <2>8. NoDoubleSubscription'
    BY <1>1, <1>3, <1>7, WriteKeepsApart
  <2>9. ListsInv'
    <3>1. \A d \in Pods : s \notin sched[d].todo
      BY <1>1 DEF ListsInv, ListedAreDue
    <3>2. \A t \in Subs : Exists(t) => Exists(t)' /\ t # s
      BY <1>1, <2>3 DEF Exists
    <3>3. NotYetCreated'
      BY <1>5, <2>3 DEF ListsInv, NotYetCreated, Exists
    <3>4. ListedAreDue'
      BY <1>1, <1>4, <2>3, <3>1, <3>2 DEF ListsInv, ListedAreDue, Due, BillingTypeOK
    <3>5. FailedAreExcused' /\ ExpiredAreExcused'
      BY <1>3, <1>4, <2>3 DEF ListsInv, FailedAreExcused, ExpiredAreExcused, HasExcuse
    <3> QED
      BY <3>3, <3>4, <3>5 DEF ListsInv
  <2> QED
    BY <2>4, <2>6, <2>7, <2>8, <2>9
<1> QED
  BY <1>6, <1>7 DEF CreateSubscription

\* Steps that write no row and no invoice.
LEMMA QuietStep ==
    ASSUME BillingInv, UNCHANGED <<subs, invs>>,
           \/ Tick \/ \E p \in Plans : DeactivatePlan(p)
           \/ \E s \in Subs, u \in Users, p \in Plans : CheckEligibility(s, u, p)
    PROVE  BillingInv'
<1> USE DEF BillingInv
<1>1. \A s \in Subs : Exists(s)' <=> Exists(s)
  BY DEF Exists
<1>2. clock' \in Nat /\ clock <= clock' /\ UNCHANGED <<sched, excuses, faults>>
  BY DEF Tick, DeactivatePlan, CheckEligibility, BillingTypeOK
<1>3. /\ flow' \in [Subs -> Requests]
      /\ \A s \in Subs : flow'[s].pc \in {"idle", "insert"} => flow[s].pc \in {"idle", "insert"}
  <2>1. CASE Tick \/ \E p \in Plans : DeactivatePlan(p)
    BY <2>1 DEF Tick, DeactivatePlan, BillingTypeOK
  <2>2. ASSUME NEW s \in Subs, NEW u \in Users, NEW p \in Plans, CheckEligibility(s, u, p)
        PROVE  /\ flow[s].pc = "idle"
               /\ flow' \in [Subs -> Requests]
               /\ \A t \in Subs \ {s} : flow'[t] = flow[t]
    BY <2>2, RequestType DEF CheckEligibility, BillingTypeOK
  <2> QED
    BY <2>1, <2>2
<1>4. BillingTypeOK'
  BY <1>2, <1>3 DEF Tick, DeactivatePlan, CheckEligibility, BillingTypeOK
<1>5. \A s \in Subs : Exists(s) => subs[s].start \in Nat /\ subs[s].end \in Nat
  BY RowExists DEF Rows
<1>6. PeriodsBegun'
  BY <1>1, <1>2, <1>5 DEF PeriodsBegun, HasBegun, BillingTypeOK
<1>7. ListedAreDue'
  <2> SUFFICES ASSUME NEW d \in Pods, NEW v \in sched[d].todo
               PROVE  Exists(v)' /\ (<<v, "overtaken">> \in excuses \/ Due(v)')
    BY <1>2 DEF ListedAreDue
  <2>1. v \in Subs /\ Exists(v) /\ (<<v, "overtaken">> \in excuses \/ Due(v))
    BY DEF ListsInv, ListedAreDue, BillingTypeOK
  <2> QED
    BY <1>1, <1>2, <1>5, <2>1 DEF Due, BillingTypeOK
<1>8. NotYetCreated' /\ FailedAreExcused' /\ ExpiredAreExcused'
  BY <1>1, <1>2, <1>3 DEF ListsInv, NotYetCreated, FailedAreExcused, ExpiredAreExcused, HasExcuse
<1>9. RenewalsDated' /\ NoDoubleSubscription'
  BY DEF RenewalsDated, Dated, Exists, NoDoubleSubscription, NoOverlap
<1> QED
  BY <1>4, <1>6, <1>7, <1>8, <1>9 DEF ListsInv

-----------------------------------------------------------------------------
(* The schedulers.                                                           *)

\* What the scheduler of d does to the lists when it is done with s.
LEMMA ProcessedLists ==
    ASSUME BillingTypeOK, NEW d \in Pods, NEW s \in Subs, Processed(d, s)
    PROVE  /\ sched' \in [Pods -> [todo : SUBSET Subs, failed : SUBSET Subs]]
           /\ sched'[d].todo = sched[d].todo \ {s} /\ sched'[d].failed = {}
           /\ \A c \in Pods \ {d} : sched'[c] = sched[c]
  BY DEF Processed, BillingTypeOK

\* The excuses a scheduler's own write leaves for the others.
LEMMA OthersExcused ==
    ASSUME BillingTypeOK, NEW d \in Pods, NEW s \in Subs, Processed(d, s),
           excuses' = Excused(s, HeldBy(s) \ {d})
    PROVE  /\ excuses \subseteq excuses'
           /\ excuses' \in SUBSET (Subs \X {"overtaken", "refused", "fault"})
           /\ \A c \in Pods : /\ sched'[c].failed \subseteq sched[c].failed
                              /\ sched'[c].todo \subseteq sched[c].todo
                              /\ s \in sched'[c].todo => <<s, "overtaken">> \in excuses'
<1>1. /\ sched'[d].todo = sched[d].todo \ {s} /\ sched'[d].failed = {}
      /\ \A c \in Pods \ {d} : sched'[c] = sched[c]
  BY ProcessedLists
<1>2. /\ excuses \subseteq excuses'
      /\ excuses' \in SUBSET (Subs \X {"overtaken", "refused", "fault"})
      /\ \A c \in Pods \ {d} : s \in sched[c].todo => <<s, "overtaken">> \in excuses'
  BY DEF Excused, HeldBy, BillingTypeOK
<1> QED
  BY <1>1, <1>2

\* A renewal enters the next period, which has begun, and dates its invoice there.
LEMMA RenewStep ==
    ASSUME BillingInv, NEW d \in Pods, NEW s \in Subs, RenewSubscription(d, s)
    PROVE  BillingInv'
<1> USE DEF BillingInv
<1> DEFINE row == UpdateSubscription(s, Renewed(s))
<1> DEFINE inv == NewInvoice("renewal", Renewed(s).plan, subs[s].end)
<1>1. /\ BillingTypeOK /\ Exists(s) /\ subs[s] \in Rows /\ HasBegun(subs[s])
      /\ subs[s].st = "active" /\ subs[s].end <= clock /\ clock \in Nat
  BY RowExists DEF RenewSubscription, Due, Live, PeriodsBegun, BillingTypeOK, Rows
<1>2. /\ Renewed(s) \in Rows /\ Renewed(s).st = "active"
      /\ Renewed(s).start = subs[s].start + subs[s].len
      /\ Renewed(s).end = subs[s].end + subs[s].len /\ Renewed(s).len = subs[s].len
  BY <1>1, RenewedFields
<1>3. /\ row \in Rows /\ row.st = "active" /\ row.len = subs[s].len
      /\ row.start = subs[s].start + subs[s].len
      /\ row.end = subs[s].end + subs[s].len
  BY <1>1, <1>2, UpdateFields
<1>4. /\ subs[s].start \in Nat /\ subs[s].end \in Nat /\ subs[s].len \in Nat \ {0}
      /\ subs[s].end = subs[s].start + subs[s].len
  BY <1>1 DEF Rows, HasBegun
<1>5. /\ inv \in Invoices /\ inv.kind = "renewal" /\ inv.start = subs[s].end
  BY <1>2, <1>4 DEF NewInvoice, Invoices, Rows
<1>6. /\ subs' = [subs EXCEPT ![s] = row] /\ AppendInvoice(s, inv) /\ NoOverlap(s, row)
      /\ excuses' = Excused(s, HeldBy(s) \ {d}) /\ Processed(d, s)
      /\ UNCHANGED <<clock, planActive, flow, faults, edits>>
  BY DEF RenewSubscription, Refuses
<1> HIDE DEF row, inv
<1>7. /\ subs'[s] = row /\ \A t \in Subs \ {s} : subs'[t] = subs[t]
      /\ subs' \in [Subs -> Rows \cup {NoSubscription}]
  BY <1>1, <1>3, <1>6 DEF BillingTypeOK
<1>8. BillingTypeOK'
  <2>1. invs[s] \in Seq(Invoices) /\ Append(invs[s], inv) \in Seq(Invoices)
    BY <1>5 DEF BillingTypeOK
  <2>2. invs' \in [Subs -> Seq(Invoices)]
    BY <1>6, <2>1 DEF AppendInvoice, BillingTypeOK
  <2> QED
    BY <1>6, <1>7, <2>2, ProcessedLists, OthersExcused DEF BillingTypeOK
<1>9. Forward
  <2>1. Exists(s)' /\ subs[s].start <= subs'[s].start
    BY <1>3, <1>4, <1>7 DEF Exists
  <2> QED
    BY <1>7, <2>1, OneRowForward
<1>10. RenewalsDated'
  BY <1>1, <1>3, <1>4, <1>5, <1>6, <1>7, <1>8, <1>9, AppendedInvoiceDated
<1>11. PeriodsBegun'
  BY <1>1, <1>3, <1>4, <1>6, <1>7 DEF PeriodsBegun, HasBegun, Exists
<1>12. NoDoubleSubscription'
  BY <1>3, <1>6, WriteKeepsApart
<1>13. ListsInv'
  BY <1>1, <1>3, <1>6, OthersExcused, WriteKeepsLists
<1> QED
  BY <1>8, <1>10, <1>11, <1>12, <1>13

\* A row that a scheduler expires was marked as failed, hence has an excuse.
LEMMA ExpireStep ==
    ASSUME BillingInv, NEW d \in Pods, NEW s \in Subs, ExpireSubscription(d, s)
    PROVE  BillingInv'
<1> USE DEF BillingInv
<1>1. /\ Processed(d, s) /\ UNCHANGED <<clock, planActive, invs, flow, faults, edits>>
      /\ HasExcuse(s)
  BY DEF ExpireSubscription, ListsInv, FailedAreExcused
<1>2. CASE CanTransitionTo(s, "expired")
  <2> DEFINE row == [subs[s] EXCEPT !.st = "expired"]
  <2>1. Exists(s) /\ subs[s] \in Rows /\ HasBegun(subs[s])
    BY <1>2, RowExists DEF CanTransitionTo, PeriodsBegun
  <2>2. /\ row \in Rows /\ row.st = "expired" /\ row.start = subs[s].start
        /\ row.end = subs[s].end /\ row.len = subs[s].len
    BY <2>1 DEF Rows, Statuses
  <2>3. /\ subs' = [subs EXCEPT ![s] = row]
        /\ excuses' = Excused(s, HeldBy(s) \ {d})
    BY <1>2 DEF ExpireSubscription
  <2> HIDE DEF row
  <2>4. /\ subs'[s] = row /\ \A t \in Subs \ {s} : subs'[t] = subs[t]
        /\ subs' \in [Subs -> Rows \cup {NoSubscription}]
    BY <2>2, <2>3 DEF BillingTypeOK
  <2>5. BillingTypeOK'
    BY <1>1, <2>3, <2>4, ProcessedLists, OthersExcused DEF BillingTypeOK
  <2>6. Forward
    <3>1. Exists(s)' /\ subs[s].start <= subs'[s].start
      BY <2>1, <2>2, <2>4 DEF Exists, Rows
    <3> QED
      BY <2>4, <3>1, OneRowForward
  <2>7. RenewalsDated'
    BY <1>1, <2>5, <2>6, InvoicesKept DEF InvoicesWritten
  <2>8. PeriodsBegun'
    BY <1>1, <2>1, <2>2, <2>4 DEF PeriodsBegun, HasBegun, Exists
  <2>9. NoDoubleSubscription'
    BY <2>2, <2>3, WriteKeepsApart DEF Live
  <2>10. ListsInv'
    BY <1>1, <2>1, <2>2, <2>3, OthersExcused, WriteKeepsLists
  <2> QED
    BY <2>5, <2>7, <2>8, <2>9, <2>10
<1>3. CASE ~CanTransitionTo(s, "expired")
  <2>1. UNCHANGED <<subs, excuses>>
    BY <1>3 DEF ExpireSubscription
  <2>2. BillingTypeOK'
    BY <1>1, <2>1, ProcessedLists DEF BillingTypeOK
  <2>3. \A c \in Pods : /\ sched'[c].failed \subseteq sched[c].failed
                        /\ sched'[c].todo \subseteq sched[c].todo
    BY <1>1, ProcessedLists
  <2>4. ListsInv'
    BY <1>1, <2>1, <2>3 DEF ListsInv, NotYetCreated, ListedAreDue, FailedAreExcused,
                            ExpiredAreExcused, HasExcuse, Exists, Due
  <2> QED
    BY <1>1, <2>1, <2>2, <2>4 DEF PeriodsBegun, HasBegun, RenewalsDated, Dated, Exists,
                                  NoDoubleSubscription, NoOverlap
<1> QED
  BY <1>2, <1>3

\* Listing and failing write no row.
LEMMA ListStep ==
    ASSUME BillingInv, NEW d \in Pods,
           \/ ProcessDueSubscriptions(d)
           \/ \E s \in Subs : RenewFails(d, s)
    PROVE  BillingInv'
<1> USE DEF BillingInv
<1>1. UNCHANGED <<clock, planActive, subs, invs, flow, edits>>
  BY DEF ProcessDueSubscriptions, RenewFails
<1>2. /\ faults' \in Nat /\ excuses \subseteq excuses'
      /\ excuses' \in SUBSET (Subs \X {"overtaken", "refused", "fault"})
  BY DEF ProcessDueSubscriptions, RenewFails, BillingTypeOK
<1>3. CASE ProcessDueSubscriptions(d)
  <2>1. /\ sched' \in [Pods -> [todo : SUBSET Subs, failed : SUBSET Subs]]
        /\ sched'[d].todo = GetExpiredActive /\ sched'[d].failed = sched[d].failed
        /\ \A c \in Pods \ {d} : sched'[c] = sched[c]
    BY <1>3 DEF ProcessDueSubscriptions, GetExpiredActive, BillingTypeOK
  <2>2. \A s \in GetExpiredActive : s \in Subs /\ Exists(s) /\ Due(s)
    <3>1. ASSUME NEW s \in Subs, subs[s].st = "active"
          PROVE  Exists(s) /\ subs[s].end \in Nat
      <4>1. Exists(s) /\ subs[s] \in Rows
        BY <3>1, RowExists DEF Live
      <4> QED
        BY <4>1 DEF Rows
    <3>2. clock \in Nat
      BY DEF BillingTypeOK
    <3>3. ASSUME NEW s \in Subs, subs[s].st = "active", subs[s].end < clock
          PROVE  Exists(s) /\ Due(s)
      BY <3>1, <3>2, <3>3 DEF Due
    <3> QED
      BY <3>3 DEF GetExpiredActive
  <2>3. ListsInv'
    BY <1>1, <1>2, <2>1, <2>2
       DEF ListsInv, NotYetCreated, ListedAreDue, FailedAreExcused, ExpiredAreExcused,
           HasExcuse, Exists, Due
  <2> QED
    BY <1>1, <1>2, <2>1, <2>3
       DEF BillingTypeOK, PeriodsBegun, HasBegun, RenewalsDated, Dated, Exists,
           NoDoubleSubscription, NoOverlap
<1>4. ASSUME NEW s \in Subs, RenewFails(d, s) PROVE BillingInv'
  <2>1. /\ sched' \in [Pods -> [todo : SUBSET Subs, failed : SUBSET Subs]]
        /\ sched'[d].todo = sched[d].todo /\ sched'[d].failed = {s}
        /\ \A c \in Pods \ {d} : sched'[c] = sched[c]
    <3>1. sched' = [sched EXCEPT ![d].failed = {s}]
      BY <1>4 DEF RenewFails
    <3>2. sched[d] \in [todo : SUBSET Subs, failed : SUBSET Subs]
      BY DEF BillingTypeOK
    <3> QED
      BY <3>1, <3>2 DEF BillingTypeOK
  <2>2. HasExcuse(s)'
    <3>1. Due(s) \/ <<s, "overtaken">> \in excuses
      BY <1>4 DEF RenewFails, ListsInv, ListedAreDue
    <3> QED
      BY <1>4, <3>1 DEF RenewFails, HasExcuse
  <2>3. ListsInv'
    BY <1>1, <1>2, <2>1, <2>2
       DEF ListsInv, NotYetCreated, ListedAreDue, FailedAreExcused, ExpiredAreExcused,
           HasExcuse, Exists, Due
  <2> QED
    BY <1>1, <1>2, <2>1, <2>3
       DEF BillingTypeOK, PeriodsBegun, HasBegun, RenewalsDated, Dated, Exists,
           NoDoubleSubscription, NoOverlap
<1> QED
  BY <1>3, <1>4

-----------------------------------------------------------------------------
(* The theorems.                                                             *)

\* Every step of the billing domain keeps the invariant.
LEMMA BillingStep == BillingInv /\ [BillingNext]_billingVars => BillingInv'
<1> SUFFICES ASSUME BillingInv, [BillingNext]_billingVars PROVE BillingInv'
  OBVIOUS
<1>1. CASE Tick \/ \E p \in Plans : DeactivatePlan(p)
  BY <1>1, QuietStep DEF Tick, DeactivatePlan
<1>2. ASSUME NEW s \in Subs, CheckoutStep(s) PROVE BillingInv'
  BY <1>2, QuietStep, CreateStep DEF CheckoutStep, CheckEligibility
<1>3. ASSUME NEW s \in Subs, CustomerStep(s) PROVE BillingInv'
  <2>1. CASE CancelSubscription(s) \/ PauseSubscription(s) \/ ResumeSubscription(s)
    <3>1. edits' \in Nat
      BY <2>1 DEF CancelSubscription, PauseSubscription, ResumeSubscription, Edit,
                  BillingInv, BillingTypeOK
    <3> QED
      BY <2>1, <3>1, TransitionStep
         DEF CancelSubscription, PauseSubscription, ResumeSubscription, Statuses
  <2>2. CASE \E p \in Plans : UpgradeSubscription(s, p) \/ DowngradeSubscription(s, p)
    BY <2>2, UpgradeStep, DowngradeStep
  <2> QED
    BY <1>3, <2>1, <2>2 DEF CustomerStep
<1>4. ASSUME NEW d \in Pods, SchedulerStep(d) PROVE BillingInv'
  BY <1>4, ListStep, RenewStep, ExpireStep DEF SchedulerStep
<1>5. ASSUME NEW s \in Subs, NEW i \in DOMAIN invs[s], PayInvoice(s, i) PROVE BillingInv'
  BY <1>5, PayStep
<1>6. CASE UNCHANGED billingVars
  BY <1>6 DEF billingVars, BillingInv, BillingTypeOK, PeriodsBegun, HasBegun, RenewalsDated,
              Dated, Exists, ListsInv, NotYetCreated, ListedAreDue, FailedAreExcused,
              ExpiredAreExcused, HasExcuse, Due, NoDoubleSubscription, NoOverlap
<1> QED
  BY <1>1, <1>2, <1>3, <1>4, <1>5, <1>6 DEF BillingNext, LifecycleStep

\* The invariant holds in every reachable state.
THEOREM BillingInvariant == BillingSpec => []BillingInv
<1>1. BillingInit => BillingInv
  <2> SUFFICES ASSUME BillingInit PROVE BillingInv
    OBVIOUS
  <2>1. BillingTypeOK
    BY DEF BillingInit, BillingTypeOK, Requests
  <2>2. \A s \in Subs : ~Exists(s) /\ subs[s].st = "none" /\ invs[s] = << >>
    BY DEF BillingInit, Exists, NoSubscription
  <2> QED
    BY <2>1, <2>2 DEF BillingInit, BillingInv, PeriodsBegun, RenewalsDated, Dated,
          ListsInv, NotYetCreated, ListedAreDue, FailedAreExcused, ExpiredAreExcused,
          NoDoubleSubscription, Live
<1> QED
  BY <1>1, BillingStep, PTL DEF BillingSpec

\* However many schedulers, customers and payments interleave: a period is invoiced by
\* one renewal and has begun, a row expires only with an excuse, and two live
\* subscriptions of a user to one plan never share a period.
THEOREM SubscriptionSafety == BillingSpec => []SubscriptionsSafe
<1>1. BillingInv => SubscriptionsSafe
  <2> SUFFICES ASSUME BillingInv PROVE SubscriptionsSafe
    OBVIOUS
  <2>1. OneRenewalPerPeriod
    BY DEF BillingInv, RenewalsDated, Dated, PeriodsBegun, HasBegun, OneRenewalPerPeriod
  <2>2. ExpiredForAReason
    BY DEF BillingInv, ListsInv, ExpiredAreExcused, HasExcuse, ExpiredForAReason
  <2> QED
    BY <2>1, <2>2 DEF BillingInv, SubscriptionsSafe
<1> QED
  BY <1>1, BillingInvariant, PTL

-----------------------------------------------------------------------------
\* TariffPlans.  The invariant of a handler that nobody else disturbs.
Keys == Durations \cup {0}
Docs == [active : BOOLEAN, periods : SUBSET Durations, free : BOOLEAN, deleted : BOOLEAN]
LiveDocs == {d \in Docs : ~d.deleted}
Copies == UNION {[S -> LiveDocs] : S \in SUBSET Tariffs}
Works == [pc : {"update", "archive", "get", "put", "create", "orphans", "delete"}, t : Tariffs,
          input : LiveDocs, rest : Copies, then : {"answer", "delete"}, todo : SUBSET Keys,
          key : Keys, born : BOOLEAN, alone : BOOLEAN]

\* What the work of a handler is made of: only a synchronisation of all tariffs has others to
\* follow, a tariff about to be deleted is no longer active, and the periods that are still
\* to be written are of the copy.
WorkOK(w) ==
    /\ w.pc \in {"update", "archive"} \/ w.then = "delete" => DOMAIN w.rest = {}
    /\ w.then = "delete" => ~w.input.active
    /\ w.pc = "delete" => w.then = "delete"
    /\ w.pc = "update" => w.then = "answer" /\ w.todo = PlanKeys(w.input)
    /\ w.pc \in {"get", "put", "create"} => w.todo \subseteq PlanKeys(w.input)
    /\ w.pc \in {"put", "create"} => w.key \in PlanKeys(w.input)
    /\ w.pc = "orphans" => w.todo \subseteq Candidates \ PlanKeys(w.input)

TariffTypeOK ==
    /\ tariff \in [Tariffs -> Docs]
    /\ plan \in [Tariffs -> [Keys -> {"none", "on", "off"}]]
    /\ editor \in [Editors -> {Served} \cup Works]
    /\ \A e \in Editors : editor[e].pc # "idle" => WorkOK(editor[e])

\* The copies of a handler that is alone are the documents of the store.
UpToDate(w) ==
    /\ ~tariff[w.t].deleted
    /\ w.pc \in {"get", "put", "create", "orphans"} /\ w.then = "answer" => tariff[w.t] = w.input
    /\ \A o \in DOMAIN w.rest : ~tariff[o].deleted /\ tariff[o] = w.rest[o]

\* The plans it has gone through, of one tariff, are as its copy wants them.
InStep(w, plans) ==
    /\ w.pc \in {"get", "put", "create"} =>
         \A d \in PlanKeys(w.input) \ w.todo :
            w.pc = "get" \/ d # w.key => plans[d] = Sale(w.input.active)
    /\ w.pc = "orphans" =>
         /\ \A d \in PlanKeys(w.input) : plans[d] = Sale(w.input.active)
         /\ \A d \in Candidates \ (PlanKeys(w.input) \cup w.todo) : plans[d] # "on"

Lone(e) == editor[e].pc # "idle" /\ editor[e].alone
Apart(e, o) == \A t \in Tariffs : ~(WorksOn(e, t) /\ WorksOn(o, t))

LoneInv ==
    \A e \in Editors : Lone(e) =>
        /\ \A o \in Editors \ {e} : Apart(e, o)
        /\ UpToDate(editor[e])
        /\ ~editor[e].born => InStep(editor[e], plan[editor[e].t])

\* A tariff that nobody is synchronising, or is about to: its plans follow it, or nothing is
\* for sale any more when its deletion is all that remains.
Waiting(t) == \A e \in Editors : WorksOn(e, t) => editor[e].pc \in {"update", "archive", "delete"}
Leaving(t) == \E e \in Editors : WorksOn(e, t) /\ editor[e].pc = "delete"
Settled(t) ==
    IF Leaving(t) THEN OnSale(t) \cap Candidates = {}
    ELSE Offered(t) \subseteq OnSale(t) /\ OnSale(t) \cap Candidates \subseteq Offered(t)
SettledInv == \A t \in Tariffs \ drift : Waiting(t) => Settled(t)

PlansInv == TariffTypeOK /\ LoneInv /\ SettledInv

LEMMA InputsLive == TariffInput \subseteq LiveDocs
<1> SUFFICES ASSUME NEW a \in BOOLEAN, NEW ps \in SUBSET Durations, NEW f \in BOOLEAN
             PROVE  [active |-> a, periods |-> ps, free |-> f, deleted |-> FALSE] \in LiveDocs
  BY DEF TariffInput
<1> QED BY DEF LiveDocs, Docs

LEMMA NoTariffDoc == NoTariff \in Docs
  BY DEF NoTariff, Docs

LEMMA KeysOf == \A d \in Docs : PlanKeys(d) \subseteq Keys
  BY DEF PlanKeys, Docs, Keys

LEMMA CandidatesAreKeys == Candidates \subseteq Keys
  BY DEF Candidates, Keys

LEMMA CopiesOf == \A S \in SUBSET Tariffs : \A f : f \in [S -> LiveDocs] => f \in Copies
  BY DEF Copies

LEMMA CopiesHave ==
  \A f \in Copies : DOMAIN f \subseteq Tariffs /\ f = [o \in DOMAIN f |-> f[o]]
                    /\ \A o \in DOMAIN f : f[o] \in LiveDocs
<1> SUFFICES ASSUME NEW f \in Copies
             PROVE  /\ DOMAIN f \subseteq Tariffs /\ f = [o \in DOMAIN f |-> f[o]]
                    /\ \A o \in DOMAIN f : f[o] \in LiveDocs
  OBVIOUS
<1> PICK S \in SUBSET Tariffs : f \in [S -> LiveDocs]
  BY DEF Copies
<1> QED OBVIOUS

LEMMA NoMoreCopies == NoMore \in Copies /\ DOMAIN NoMore = {}
<1>1. NoMore \in [{} -> LiveDocs] /\ DOMAIN NoMore = {}
  BY DEF NoMore
<1> QED BY <1>1, CopiesOf

\* A synchronisation begins.
LEMMA SyncIsWork ==
  ASSUME NEW t \in Tariffs, NEW input \in LiveDocs, NEW rest \in Copies,
         NEW then \in {"answer", "delete"}, NEW w, w = Sync(t, input, rest, then)
  PROVE  /\ w \in Works /\ w.pc = "get" /\ w.t = t /\ w.input = input /\ w.rest = rest
         /\ w.then = then /\ w.todo = PlanKeys(input) /\ ~w.born /\ w.alone
<1>1. PlanKeys(input) \subseteq Keys /\ 0 \in Keys
  BY KeysOf DEF LiveDocs, Keys
<1> QED BY <1>1 DEF Sync, Works

\* Work goes on at another step, or alone or not.
LEMMA WorkAt ==
  ASSUME NEW u \in Works, NEW w,
         NEW pc \in {"get", "update", "archive", "delete"}, w = [u EXCEPT !.pc = pc]
  PROVE  /\ w \in Works /\ w.pc = pc /\ w.t = u.t /\ w.input = u.input /\ w.rest = u.rest
         /\ w.then = u.then /\ w.todo = u.todo /\ w.key = u.key /\ w.born = u.born
         /\ w.alone = u.alone
BY DEF Works

LEMMA NotAlone ==
  ASSUME NEW u \in Works, NEW w, w = [u EXCEPT !.alone = FALSE]
  PROVE  /\ w \in Works /\ ~w.alone /\ w.pc = u.pc /\ w.t = u.t /\ w.rest = u.rest
         /\ w.then = u.then /\ w.input = u.input /\ w.todo = u.todo /\ w.key = u.key
BY DEF Works

LEMMA PlansBegin == TariffInit => PlansInv
<1> SUFFICES ASSUME TariffInit PROVE PlansInv
  OBVIOUS
<1> PICK t \in Tariffs, input \in {NoTariff} \cup {i \in TariffInput : i.active /\ ~i.free} :
         /\ tariff = [o \in Tariffs |-> IF o = t THEN input ELSE NoTariff]
         /\ plan = [o \in Tariffs |-> [d \in Durations \cup {0} |->
                      IF o = t /\ input.active /\ d \in PlanKeys(input) THEN "on" ELSE "none"]]
  BY DEF TariffInit
<1>1. editor = [e \in Editors |-> Served] /\ \A e \in Editors : editor[e].pc = "idle"
  BY DEF TariffInit, Served
<1>2. input \in Docs /\ PlanKeys(input) \subseteq Keys
  BY InputsLive, NoTariffDoc, KeysOf DEF LiveDocs
<1>3. TariffTypeOK
  BY <1>1, <1>2, NoTariffDoc DEF TariffTypeOK, Keys
<1>4. LoneInv
  BY <1>1 DEF LoneInv, Lone
<1>5. SettledInv
  <2> SUFFICES ASSUME NEW o \in Tariffs PROVE Settled(o)
    BY DEF SettledInv
  <2>1. ~Leaving(o)
    BY <1>1 DEF Leaving
  <2>2. CASE o = t
    BY <2>1, <2>2, <1>2 DEF Settled, Offered, OnSale, Keys
  <2>3. CASE o # t
    BY <2>1, <2>3, <1>2 DEF Settled, Offered, OnSale, Keys, NoTariff
  <2> QED BY <2>2, <2>3
<1> QED BY <1>3, <1>4, <1>5 DEF PlansInv

LEMMA WorkRecords ==
  \A w \in Works : /\ w.pc # "idle" /\ w # Served /\ w.t \in Tariffs /\ w.input \in LiveDocs
                   /\ w.rest \in Copies /\ w.todo \subseteq Keys /\ w.key \in Keys
                   /\ w.born \in BOOLEAN /\ w.alone \in BOOLEAN
                   /\ DOMAIN w.rest \subseteq Tariffs
<1>1. \A w \in Works : w.pc # "idle" /\ Served.pc = "idle" /\ w.rest \in Copies
  BY DEF Works, Served
<1> QED BY <1>1, CopiesHave DEF Works

\* A handler at work on w goes on with v: nothing changes but for tariff w.t and its plans.
LEMMA MoveKeeps ==
  ASSUME PlansInv, NEW e \in Editors, NEW w \in Works, w = editor[e],
         NEW v \in {Served} \cup Works, editor' = [editor EXCEPT ![e] = v],
         v # Served => /\ WorkOK(v) /\ v.alone = w.alone
                       /\ v.pc \in {"update", "archive", "delete"} => v.t = w.t,
         \A t \in Tariffs \ {w.t} : /\ WorksOn(e, t)' <=> WorksOn(e, t)
                                    /\ tariff'[t] = tariff[t] /\ plan'[t] = plan[t],
         tariff' \in [Tariffs -> Docs], plan' \in [Tariffs -> [Keys -> {"none", "on", "off"}]],
         drift \subseteq drift' \cup {w.t},
         v # Served /\ w.alone => UpToDate(v)' /\ (~v.born => InStep(v, plan'[v.t])),
         w.t \notin drift' => (Waiting(w.t)' => Settled(w.t)')
  PROVE  PlansInv'
<1> USE DEF PlansInv, TariffTypeOK
<1>1. /\ WorksOn(e, w.t) /\ w.t \in Tariffs /\ w.pc # "idle" /\ Served.pc = "idle" /\ editor'[e] = v
      /\ \A t \in Tariffs : WorksOn(e, t)' => WorksOn(e, t)
      /\ v # Served => v \in Works /\ v.pc # "idle"
  BY WorkRecords DEF WorksOn, Served
<1>2. \A o \in Editors \ {e} : editor'[o] = editor[o]
  OBVIOUS
<1>3. \A o \in Editors \ {e} : \A t \in Tariffs : WorksOn(o, t)' <=> WorksOn(o, t)
  BY <1>2 DEF WorksOn
<1>4. TariffTypeOK'
  BY <1>1, <1>2 DEF WorkOK
<1>5. LoneInv'
  <2> SUFFICES ASSUME NEW c \in Editors, Lone(c)'
               PROVE  /\ \A o \in Editors \ {c} : Apart(c, o)'
                      /\ UpToDate(editor[c])'
                      /\ ~editor'[c].born => InStep(editor'[c], plan'[editor'[c].t])
    BY DEF LoneInv, InStep
  <2>1. CASE c = e
    <3>1. v # Served /\ w.alone /\ Lone(e)
      BY <2>1, <1>1 DEF Lone
    <3>2. \A o \in Editors \ {e} : Apart(e, o)
      BY <3>1 DEF LoneInv
    <3>3. \A o \in Editors \ {e} : Apart(e, o)'
      BY <3>2, <1>1, <1>3 DEF Apart
    <3>4. UpToDate(editor[e])'
      BY <3>1, <1>1 DEF UpToDate
    <3> QED BY <2>1, <3>1, <3>3, <3>4, <1>1
  <2>2. CASE c # e
    <3> PICK u \in Works : u = editor[c]
      BY <2>2, <1>2 DEF Lone, Served
    <3>1. Lone(c) /\ u.pc # "idle" /\ editor'[c] = u /\ u.t \in Tariffs /\ DOMAIN u.rest \subseteq Tariffs
      BY <2>2, <1>2, WorkRecords DEF Lone
    <3>2. (\A o \in Editors \ {c} : Apart(c, o)) /\ UpToDate(u) /\ (~u.born => InStep(u, plan[u.t]))
      BY <3>1 DEF LoneInv
    <3>3. \A o \in Editors \ {c} : Apart(c, o)'
      BY <3>2, <2>2, <1>1, <1>3 DEF Apart
    <3>4. \A t \in {u.t} \cup DOMAIN u.rest : t \in Tariffs /\ t # w.t
      <4>1. Apart(c, e)
        BY <2>2, <3>2
      <4> QED BY <4>1, <3>1, <1>1 DEF Apart, WorksOn
    <3>5. UpToDate(editor[c])' /\ (~u.born => InStep(u, plan'[u.t]))
      BY <3>1, <3>2, <3>4 DEF UpToDate
    <3> QED BY <3>1, <3>3, <3>5
  <2> QED BY <2>1, <2>2
<1>6. SettledInv'
  <2> SUFFICES ASSUME NEW t \in Tariffs, t \notin drift', Waiting(t)' PROVE Settled(t)'
    BY DEF SettledInv
  <2>1. CASE t # w.t
    <3>1. t \notin drift
      BY <2>1
    <3>2. ~WorksOn(e, t)'
      <4> SUFFICES ASSUME WorksOn(e, t)' PROVE FALSE
        OBVIOUS
      <4>1. v \in Works /\ v.pc \in {"update", "archive", "delete"} /\ WorkOK(v) /\ v.t = w.t
        BY <1>1 DEF Waiting, WorksOn
      <4>2. DOMAIN v.rest = {}
        BY <4>1 DEF WorkOK
      <4> QED BY <4>1, <4>2, <2>1, <1>1 DEF WorksOn
    <3>3. ~WorksOn(e, t)
      BY <3>2, <2>1
    <3>4. Waiting(t) /\ (Leaving(t)' <=> Leaving(t))
      BY <3>2, <3>3, <1>2, <1>3 DEF Waiting, Leaving
    <3>5. Settled(t)
      BY <3>1, <3>4 DEF SettledInv
    <3>6. tariff'[t] = tariff[t] /\ plan'[t] = plan[t]
      BY <2>1
    <3> QED BY <3>4, <3>5, <3>6 DEF Settled, OnSale, Offered
  <2> QED BY <2>1
<1> QED BY <1>4, <1>5, <1>6

\* A request on tariffs ts is accepted, and may have stored a document that was not there.
LEMMA AcceptKeeps ==
  ASSUME PlansInv, NEW e \in Editors, NEW work \in Works, WorkOK(work), work.alone,
         Accept(e, {work.t} \cup DOMAIN work.rest, work),
         work.pc \in {"get", "update", "archive"},
         work.todo = PlanKeys(work.input),
         tariff' \in [Tariffs -> Docs], UNCHANGED <<plan, drift>>,
         \A t \in Tariffs : \/ tariff'[t] = tariff[t]
                            \/ work.pc = "get" /\ t = work.t /\ tariff[t].deleted,
         UpToDate(work)'
  PROVE  PlansInv'
<1> USE DEF PlansInv, TariffTypeOK
<1> DEFINE ts == {work.t} \cup DOMAIN work.rest
<1> PICK others \in SUBSET Editors : others = {o \in Editors \ {e} : \E t \in ts : WorksOn(o, t)}
  OBVIOUS
<1> PICK v : v = [work EXCEPT !.alone = (others = {})]
  OBVIOUS
<1>1. /\ v \in Works /\ v.pc = work.pc /\ v.t = work.t /\ v.rest = work.rest /\ v.input = work.input
      /\ v.then = work.then /\ v.todo = work.todo /\ v.key = work.key /\ (v.alone <=> others = {})
  BY DEF Works
<1>2. /\ editor[e].pc = "idle"
      /\ editor' = [o \in Editors |-> IF o = e THEN v
            ELSE IF o \in others THEN [editor[o] EXCEPT !.alone = FALSE] ELSE editor[o]]
  BY DEF Accept
<1>3. \A o \in others : /\ editor[o] \in Works /\ editor'[o] \in Works /\ ~editor'[o].alone
                        /\ editor'[o].pc = editor[o].pc /\ editor'[o].t = editor[o].t
                        /\ editor'[o].rest = editor[o].rest /\ editor'[o].then = editor[o].then
                        /\ editor'[o].input = editor[o].input /\ editor'[o].todo = editor[o].todo
                        /\ editor'[o].key = editor[o].key
  <2>1. \A o \in others : editor[o] \in Works /\ editor'[o] = [editor[o] EXCEPT !.alone = FALSE]
    BY <1>2 DEF WorksOn, Served
  <2> TAKE o \in others
  <2> PICK u \in Works : u = editor[o]
    BY <2>1
  <2> PICK n : n = editor'[o] /\ n = [u EXCEPT !.alone = FALSE]
    BY <2>1
  <2>2. /\ n \in Works /\ ~n.alone /\ n.pc = u.pc /\ n.t = u.t /\ n.rest = u.rest
        /\ n.then = u.then /\ n.input = u.input /\ n.todo = u.todo /\ n.key = u.key
    BY NotAlone
  <2> QED BY <2>2
<1>4. \A o \in Editors \ ({e} \cup others) : editor'[o] = editor[o]
  BY <1>2
<1>5. /\ \A t : ~WorksOn(e, t) /\ (WorksOn(e, t)' <=> t \in ts)
      /\ \A o \in Editors \ {e} : \A t : WorksOn(o, t)' <=> WorksOn(o, t)
      /\ \A o \in Editors \ {e} : editor'[o].pc = editor[o].pc
      /\ editor'[e] = v /\ v.pc # "idle"
  BY <1>1, <1>2, <1>3, <1>4 DEF WorksOn
<1>6. TariffTypeOK'
  <2>1. editor' \in [Editors -> {Served} \cup Works]
    BY <1>1, <1>2, <1>3
  <2>2. ASSUME NEW o \in Editors, editor'[o].pc # "idle" PROVE WorkOK(editor'[o])
    <3>1. CASE o = e
      BY <3>1, <1>1, <1>5 DEF WorkOK
    <3>2. CASE o \in others
      <4>1. WorkOK(editor[o])
        BY <3>2, <1>3, <2>2
      <4> QED BY <3>2, <4>1, <1>3 DEF WorkOK
    <3>3. CASE o \notin {e} \cup others
      BY <3>3, <1>4, <2>2 DEF WorkOK
    <3> QED BY <3>1, <3>2, <3>3
  <2> QED BY <2>1, <2>2 DEF WorkOK
<1>7. LoneInv'
  <2> SUFFICES ASSUME NEW c \in Editors, Lone(c)'
               PROVE  /\ \A o \in Editors \ {c} : Apart(c, o)'
                      /\ UpToDate(editor[c])'
                      /\ ~editor'[c].born => InStep(editor'[c], plan'[editor'[c].t])
    BY DEF LoneInv, InStep
  <2>1. CASE c = e
    <3>1. others = {}
      BY <2>1, <1>1, <1>5 DEF Lone
    <3>2. \A o \in Editors \ {e} : Apart(e, o)'
      BY <3>1, <1>5 DEF Apart
    <3>3. UpToDate(editor[e])'
      BY <1>1, <1>5 DEF UpToDate
    <3>4. InStep(v, plan'[v.t])
      BY <1>1 DEF InStep
    <3> QED BY <2>1, <3>2, <3>3, <3>4, <1>5
  <2>2. CASE c # e
    <3> PICK u \in Works : u = editor[c]
      BY <2>2, <1>3, <1>4 DEF Lone, Served
    <3>1. c \notin others /\ Lone(c) /\ u.pc # "idle" /\ editor'[c] = u
      BY <2>2, <1>3, <1>4 DEF Lone
    <3>2. (\A o \in Editors \ {c} : Apart(c, o)) /\ UpToDate(u) /\ (~u.born => InStep(u, plan[u.t]))
      BY <3>1 DEF LoneInv
    <3>3. \A o \in Editors \ {c} : Apart(c, o)'
      BY <3>1, <3>2, <2>2, <1>5 DEF Apart
    <3>4. u.t \in Tariffs /\ DOMAIN u.rest \subseteq Tariffs
      BY WorkRecords
    <3>5. \A t \in {u.t} \cup DOMAIN u.rest : tariff'[t] = tariff[t]
      BY <3>2, <3>4 DEF UpToDate
    <3>6. UpToDate(editor[c])'
      BY <3>1, <3>2, <3>5 DEF UpToDate
    <3> QED BY <3>1, <3>2, <3>3, <3>6
  <2> QED BY <2>1, <2>2
<1>8. SettledInv'
  <2> SUFFICES ASSUME NEW t \in Tariffs, t \notin drift, Waiting(t)' PROVE Settled(t)'
    BY DEF SettledInv
  <2>1. t \in ts => v.pc \in {"update", "archive"}
    <3>1. t \in ts => WorksOn(e, t)'
      BY <1>5
    <3>2. WorksOn(e, t)' => editor'[e].pc \in {"update", "archive", "delete"}
      BY DEF Waiting
    <3> QED BY <3>1, <3>2, <1>1, <1>5
  <2>2. Waiting(t) /\ (Leaving(t)' <=> Leaving(t))
    BY <2>1, <1>5 DEF Waiting, Leaving
  <2>3. tariff'[t] = tariff[t]
    BY <2>1, <1>1
  <2> QED BY <2>2, <2>3 DEF SettledInv, Settled, OnSale, Offered
<1> QED BY <1>6, <1>7, <1>8

LEMMA CreateKeeps ==
  ASSUME PlansInv, NEW e \in Editors, NEW t \in Tariffs, NEW input \in TariffInput,
         CreateTariff(e, t, input)
  PROVE  PlansInv'
<1> PICK w : w = Sync(t, input, NoMore, "answer")
  OBVIOUS
<1>1. input \in LiveDocs
  BY InputsLive
<1>2. /\ w \in Works /\ w.pc = "get" /\ w.t = t /\ w.input = input /\ w.rest = NoMore
      /\ w.then = "answer" /\ w.todo = PlanKeys(input) /\ w.alone
  <2>1. NoMore \in Copies
    BY NoMoreCopies
  <2> QED BY <1>1, <2>1, SyncIsWork
<1>3. WorkOK(w) /\ {w.t} \cup DOMAIN w.rest = {t}
  BY <1>2, NoMoreCopies DEF WorkOK
<1>4. tariff[t].deleted /\ tariff' = [tariff EXCEPT ![t] = input] /\ UNCHANGED <<plan, drift>>
  BY DEF CreateTariff, Stored
<1>5. tariff' \in [Tariffs -> Docs] /\ tariff'[t] = input /\ \A o \in Tariffs \ {t} : tariff'[o] = tariff[o]
  BY <1>1, <1>4 DEF PlansInv, TariffTypeOK, LiveDocs
<1>6. UpToDate(w)'
  BY <1>1, <1>2, <1>5, NoMoreCopies DEF UpToDate, LiveDocs
<1>7. Accept(e, {w.t} \cup DOMAIN w.rest, w)
  BY <1>3 DEF CreateTariff
<1>8. \A o \in Tariffs : \/ tariff'[o] = tariff[o]
                         \/ w.pc = "get" /\ o = w.t /\ tariff[o].deleted
  BY <1>2, <1>4, <1>5
<1> QED BY <1>2, <1>3, <1>4, <1>5, <1>6, <1>7, <1>8, AcceptKeeps

\* The copies LoadForUpdate, LoadForDelete and LoadForArchive begin with.
LEMMA LoadKeepsPlans ==
  ASSUME PlansInv, NEW e \in Editors, NEW t \in Tariffs,
         (\E input \in TariffInput : LoadForUpdate(e, t, input))
           \/ LoadForDelete(e, t) \/ LoadForArchive(e, t)
  PROVE  PlansInv'
<1>1. Stored(t) /\ UNCHANGED <<tariff, plan, drift>>
  BY DEF LoadForUpdate, LoadForDelete, LoadForArchive
<1> PICK off : off = [tariff[t] EXCEPT !.active = FALSE]
  OBVIOUS
<1>2. off \in LiveDocs /\ ~off.active /\ tariff \in [Tariffs -> Docs] /\ ~tariff[t].deleted
  BY <1>1 DEF PlansInv, TariffTypeOK, Docs, LiveDocs, Stored
<1>3. PICK pc \in {"get", "update", "archive"}, then \in {"answer", "delete"}, input \in LiveDocs :
        \E w : /\ Accept(e, {t}, w)
               /\ \/ w = Sync(t, input, NoMore, then) /\ pc = "get" /\ then = "delete" /\ ~input.active
                  \/ w = [Sync(t, input, NoMore, then) EXCEPT !.pc = pc] /\ then = "answer" /\ pc # "get"
  <2>1. CASE \E input \in TariffInput : LoadForUpdate(e, t, input)
    BY <2>1, InputsLive DEF LoadForUpdate
  <2>2. CASE LoadForDelete(e, t)
    BY <2>2, <1>2 DEF LoadForDelete
  <2>3. CASE LoadForArchive(e, t)
    BY <2>3, <1>2 DEF LoadForArchive
  <2> QED BY <2>1, <2>2, <2>3
<1>9. PICK w : /\ Accept(e, {t}, w)
               /\ \/ w = Sync(t, input, NoMore, then) /\ pc = "get" /\ then = "delete" /\ ~input.active
                  \/ w = [Sync(t, input, NoMore, then) EXCEPT !.pc = pc] /\ then = "answer" /\ pc # "get"
  BY <1>3
<1>4. /\ w \in Works /\ w.pc = pc /\ w.t = t /\ w.input = input /\ w.rest = NoMore
      /\ w.then = then /\ w.todo = PlanKeys(input) /\ w.alone
  <2>1. NoMore \in Copies
    BY NoMoreCopies
  <2> PICK u : u = Sync(t, input, NoMore, then)
    OBVIOUS
  <2>2. /\ u \in Works /\ u.pc = "get" /\ u.t = t /\ u.input = input /\ u.rest = NoMore
        /\ u.then = then /\ u.todo = PlanKeys(input) /\ u.alone
    BY <2>1, SyncIsWork
  <2>3. CASE w = u /\ pc = "get"
    BY <2>2, <2>3
  <2>4. CASE w = [u EXCEPT !.pc = pc]
    BY <2>2, <2>4, WorkAt
  <2> QED BY <1>9, <2>3, <2>4
<1>5. WorkOK(w) /\ {w.t} \cup DOMAIN w.rest = {t}
  BY <1>9, <1>4, NoMoreCopies DEF WorkOK
<1>6. UpToDate(w)'
  BY <1>1, <1>2, <1>9, <1>4, NoMoreCopies DEF UpToDate
<1>7. Accept(e, {w.t} \cup DOMAIN w.rest, w)
  BY <1>9, <1>5
<1>8. tariff' \in [Tariffs -> Docs] /\ \A o \in Tariffs : tariff'[o] = tariff[o]
  BY <1>1, <1>2
<1> QED BY <1>1, <1>4, <1>5, <1>6, <1>7, <1>8, AcceptKeeps

LEMMA SyncAllKeeps ==
  ASSUME PlansInv, NEW e \in Editors, SyncAllTariffs(e) PROVE PlansInv'
<1> PICK listed : listed = {t \in Tariffs : Stored(t)}
  OBVIOUS
<1>1. PICK t \in listed :
        Accept(e, listed, Sync(t, tariff[t], [o \in listed \ {t} |-> tariff[o]], "answer"))
  BY DEF SyncAllTariffs
<1> PICK rest : rest = [o \in listed \ {t} |-> tariff[o]]
  OBVIOUS
<1> PICK w : w = Sync(t, tariff[t], rest, "answer")
  OBVIOUS
<1>2. /\ UNCHANGED <<tariff, plan, drift>> /\ tariff \in [Tariffs -> Docs]
      /\ \A o \in listed : o \in Tariffs /\ tariff[o] \in LiveDocs
  BY DEF SyncAllTariffs, PlansInv, TariffTypeOK, Stored, LiveDocs
<1>3. rest \in Copies /\ DOMAIN rest = listed \ {t} /\ \A o \in listed \ {t} : rest[o] = tariff[o]
  <2>1. rest \in [listed \ {t} -> LiveDocs]
    BY <1>2
  <2> QED BY <2>1, <1>2, CopiesOf
<1>4. /\ w \in Works /\ w.pc = "get" /\ w.t = t /\ w.input = tariff[t] /\ w.rest = rest
      /\ w.then = "answer" /\ w.todo = PlanKeys(tariff[t]) /\ w.alone
  <2> PICK input \in LiveDocs : input = tariff[t]
    BY <1>2
  <2>1. /\ w \in Works /\ w.pc = "get" /\ w.t = t /\ w.input = input /\ w.rest = rest
        /\ w.then = "answer" /\ w.todo = PlanKeys(input) /\ w.alone
    BY <1>2, <1>3, SyncIsWork
  <2> QED BY <2>1
<1>5. WorkOK(w) /\ {w.t} \cup DOMAIN w.rest = listed
  BY <1>3, <1>4 DEF WorkOK
<1>6. UpToDate(w)'
  BY <1>2, <1>3, <1>4 DEF UpToDate, LiveDocs
<1>7. Accept(e, {w.t} \cup DOMAIN w.rest, w)
  BY <1>1, <1>5
<1>8. tariff' \in [Tariffs -> Docs] /\ \A o \in Tariffs : tariff'[o] = tariff[o]
  BY <1>2
<1> QED BY <1>2, <1>4, <1>5, <1>6, <1>7, <1>8, AcceptKeeps

\* The synchronisation of a tariff is over: it failed, or the tariff has drifted, or its plans
\* are as the copy of a handler that was alone wants them.
LEMMA FinishKeeps ==
  ASSUME PlansInv, NEW e \in Editors, NEW w \in Works, w = editor[e],
         w.pc \in {"get", "put", "create", "orphans"}, Finish(e),
         UNCHANGED <<tariff, plan>>, drift \subseteq drift' \cup {w.t},
         w.t \notin drift' =>
           /\ w.alone
           /\ \A d \in PlanKeys(w.input) : plan[w.t][d] = Sale(w.input.active)
           /\ \A d \in Candidates \ PlanKeys(w.input) : plan[w.t][d] # "on"
  PROVE  PlansInv'
<1>1. /\ w.t \in Tariffs /\ w.pc # "idle" /\ WorkOK(w) /\ w.input \in LiveDocs /\ w.rest \in Copies
      /\ w.alone \in BOOLEAN /\ DOMAIN w.rest \subseteq Tariffs /\ w.then \in {"answer", "delete"}
      /\ PlanKeys(w.input) \subseteq Keys /\ Candidates \subseteq Keys
  BY WorkRecords, KeysOf, CandidatesAreKeys DEF PlansInv, TariffTypeOK, Works, LiveDocs
<1>2. /\ tariff \in [Tariffs -> Docs] /\ plan \in [Tariffs -> [Keys -> {"none", "on", "off"}]]
      /\ tariff' \in [Tariffs -> Docs] /\ plan' \in [Tariffs -> [Keys -> {"none", "on", "off"}]]
      /\ tariff' = tariff /\ plan' = plan
  BY DEF PlansInv, TariffTypeOK
<1>3. w.alone => /\ \A o \in Editors \ {e} : ~WorksOn(o, w.t)
                 /\ UpToDate(w)
  <2> SUFFICES ASSUME w.alone
               PROVE  /\ \A o \in Editors \ {e} : ~WorksOn(o, w.t)
                      /\ UpToDate(w)
    OBVIOUS
  <2>1. Lone(e) /\ WorksOn(e, w.t)
    BY <1>1 DEF Lone, WorksOn
  <2> QED BY <2>1, <1>1 DEF PlansInv, LoneInv, Apart
<1>4. ASSUME w.then = "answer", editor'[e].pc # "delete",
             \A o \in Editors \ {e} : editor'[o] = editor[o], w.t \notin drift'
      PROVE  Settled(w.t)'
  <2>1. ~Leaving(w.t)'
    <3> SUFFICES ASSUME NEW o \in Editors, WorksOn(o, w.t)', editor'[o].pc = "delete" PROVE FALSE
      BY DEF Leaving
    <3> QED BY <1>3, <1>4 DEF WorksOn
  <2>2. tariff[w.t] = w.input
    BY <1>3, <1>4 DEF UpToDate
  <2>3. /\ Offered(w.t) \subseteq OnSale(w.t) /\ OnSale(w.t) \cap Candidates \subseteq Offered(w.t)
    BY <2>2, <1>1, <1>2, <1>4 DEF Offered, OnSale, Sale
  <2>4. /\ Offered(w.t)' = Offered(w.t) /\ OnSale(w.t)' = OnSale(w.t)
    BY <1>2 DEF Offered, OnSale
  <2> QED BY <2>1, <2>3, <2>4 DEF Settled
<1>5. CASE w.then = "delete" /\ editor' = [editor EXCEPT ![e].pc = "delete"]
  <2> PICK v : v = [w EXCEPT !.pc = "delete"]
    OBVIOUS
  <2>1. /\ v \in Works /\ v.pc = "delete" /\ v.t = w.t /\ v.input = w.input /\ v.rest = w.rest
        /\ v.then = w.then /\ (v.alone <=> w.alone) /\ v.alone = w.alone
    BY WorkAt
  <2>2. editor' = [editor EXCEPT ![e] = v] /\ editor'[e] = v
    BY <1>5 DEF PlansInv, TariffTypeOK
  <2>3. DOMAIN w.rest = {} /\ ~w.input.active
    BY <1>1, <1>5 DEF WorkOK
  <2>4. WorkOK(v)
    BY <2>1, <2>3, <1>5 DEF WorkOK
  <2>5. \A t : WorksOn(e, t)' <=> WorksOn(e, t)
    BY <2>1, <2>2, <1>1 DEF WorksOn
  <2>6. w.alone => UpToDate(v)' /\ InStep(v, plan'[v.t])
    BY <2>1, <2>3, <1>2, <1>3 DEF UpToDate, InStep
  <2>7. w.t \notin drift' => (Waiting(w.t)' => Settled(w.t)')
    <3> SUFFICES ASSUME w.t \notin drift' PROVE Settled(w.t)'
      OBVIOUS
    <3>1. Leaving(w.t)'
      BY <2>1, <2>2 DEF Leaving, WorksOn
    <3>2. OnSale(w.t) \cap Candidates = {}
      BY <2>3, <1>1, <1>2 DEF OnSale, Sale
    <3>3. OnSale(w.t)' = OnSale(w.t)
      BY <1>2 DEF OnSale
    <3> QED BY <3>1, <3>2, <3>3 DEF Settled
  <2> QED BY <2>1, <2>2, <2>4, <2>5, <2>6, <2>7, <1>2, MoveKeeps
<1>6. ASSUME NEW t \in DOMAIN editor[e].rest,
             editor' = [editor EXCEPT ![e] = [Sync(t, editor[e].rest[t],
               [o \in DOMAIN editor[e].rest \ {t} |-> editor[e].rest[o]], "answer")
                  EXCEPT !.alone = editor[e].alone]]
      PROVE  PlansInv'
  <2>10. PICK rest : rest = [o \in DOMAIN editor[e].rest \ {t} |-> editor[e].rest[o]]
    OBVIOUS
  <2>0. t \in DOMAIN w.rest
    OBVIOUS
  <2>11. PICK input \in LiveDocs : input = editor[e].rest[t]
    BY <2>0, <1>1, CopiesHave
  <2>1. rest \in Copies /\ DOMAIN rest = DOMAIN w.rest \ {t} /\ \A o \in DOMAIN rest : rest[o] = w.rest[o]
    <3>1. rest \in [DOMAIN w.rest \ {t} -> LiveDocs]
      BY <2>10, <1>1, CopiesHave
    <3> QED BY <2>10, <3>1, <1>1, CopiesOf
  <2>12. PICK u : u = Sync(t, input, rest, "answer")
    OBVIOUS
  <2>13. PICK v : v = [u EXCEPT !.alone = editor[e].alone]
    OBVIOUS
  <2>2. /\ u \in Works /\ u.pc = "get" /\ u.t = t /\ u.input = input /\ u.rest = rest
        /\ u.then = "answer" /\ u.todo = PlanKeys(input)
    BY <2>1, <2>12, <1>1, SyncIsWork
  <2>3. /\ v \in Works /\ v.pc = "get" /\ v.t = t /\ v.input = input /\ v.rest = rest
        /\ v.then = "answer" /\ v.todo = PlanKeys(input) /\ v.alone = w.alone
    BY <2>2, <2>13, <1>1 DEF Works
  <2>4. editor' = [editor EXCEPT ![e] = v] /\ editor'[e] = v /\ w.then = "answer"
    <3>1. w.then = "answer"
      BY <1>1, <1>6 DEF WorkOK
    <3> QED BY <2>10, <2>11, <2>12, <2>13, <3>1, <1>6 DEF PlansInv, TariffTypeOK
  <2>5. WorkOK(v)
    BY <2>3 DEF WorkOK
  <2>6. \A o \in Tariffs \ {w.t} : WorksOn(e, o)' <=> WorksOn(e, o)
    <3>1. editor'[e].pc = "get" /\ editor'[e].t = t /\ DOMAIN editor'[e].rest = DOMAIN w.rest \ {t}
      BY <2>1, <2>3, <2>4
    <3>2. editor[e].pc # "idle" /\ editor[e].t = w.t /\ DOMAIN editor[e].rest = DOMAIN w.rest
      BY <1>1
    <3> QED BY <3>1, <3>2, <2>0 DEF WorksOn
  <2>7. w.alone => UpToDate(v)' /\ InStep(v, plan'[v.t])
    <3>1. InStep(v, plan'[v.t])
      BY <2>3 DEF InStep
    <3>2. ASSUME w.alone PROVE UpToDate(v)'
      <4>1. \A o \in DOMAIN w.rest : ~tariff'[o].deleted /\ tariff'[o] = w.rest[o]
        BY <3>2, <1>2, <1>3 DEF UpToDate
      <4>2. /\ v.t \in DOMAIN w.rest /\ v.input = w.rest[v.t] /\ DOMAIN v.rest \subseteq DOMAIN w.rest
            /\ \A o \in DOMAIN v.rest : v.rest[o] = w.rest[o]
        BY <2>0, <2>1, <2>3, <2>11
      <4> QED BY <4>1, <4>2 DEF UpToDate
    <3> QED BY <3>1, <3>2
  <2>8. w.t \notin drift' => (Waiting(w.t)' => Settled(w.t)')
    BY <2>3, <2>4, <1>4
  <2>9. v.pc \notin {"update", "archive", "delete"}
    BY <2>3
  <2> QED BY <2>3, <2>4, <2>5, <2>6, <2>7, <2>8, <2>9, <1>2, MoveKeeps
<1>7. CASE w.then = "answer" /\ DOMAIN w.rest = {} /\ editor' = [editor EXCEPT ![e] = Served]
  <2>1. editor'[e] = Served /\ Served.pc = "idle"
    BY <1>7 DEF PlansInv, TariffTypeOK, Served
  <2>2. \A o \in Tariffs \ {w.t} : WorksOn(e, o)' <=> WorksOn(e, o)
    BY <2>1, <1>7 DEF WorksOn
  <2>3. w.t \notin drift' => (Waiting(w.t)' => Settled(w.t)')
    BY <2>1, <1>4, <1>7
  <2> QED BY <2>2, <2>3, <1>2, <1>7, MoveKeeps
<1>8. \/ w.then = "delete" /\ editor' = [editor EXCEPT ![e].pc = "delete"]
      \/ \E t \in DOMAIN editor[e].rest :
           editor' = [editor EXCEPT ![e] = [Sync(t, editor[e].rest[t],
               [o \in DOMAIN editor[e].rest \ {t} |-> editor[e].rest[o]], "answer")
                  EXCEPT !.alone = editor[e].alone]]
      \/ w.then = "answer" /\ DOMAIN w.rest = {} /\ editor' = [editor EXCEPT ![e] = Served]
  BY Zenon DEF Finish
<1> QED BY <1>5, <1>6, <1>7, <1>8

\* ImportTariffs and CloneTariff store a document that no handler can be alone with.
LEMMA StoreOnlyKeeps ==
  ASSUME PlansInv, NEW e \in Editors, NEW t \in Tariffs, NEW input \in Docs,
         StoreOnly(e, t, input)
  PROVE  PlansInv'
<1> USE DEF PlansInv, TariffTypeOK
<1>1. /\ tariff[t].deleted /\ tariff' = [tariff EXCEPT ![t] = input] /\ drift' = drift \cup {t}
      /\ UNCHANGED <<plan, editor>>
  BY DEF StoreOnly, Stored
<1>2. TariffTypeOK'
  BY <1>1 DEF WorkOK
<1>3. LoneInv'
  <2> SUFFICES ASSUME NEW c \in Editors, Lone(c)
               PROVE  /\ \A o \in Editors \ {c} : Apart(c, o)'
                      /\ UpToDate(editor[c])'
                      /\ ~editor'[c].born => InStep(editor'[c], plan'[editor'[c].t])
    BY <1>1 DEF LoneInv, Lone
  <2> PICK u \in Works : u = editor[c]
    BY DEF Lone, Served
  <2>1. (\A o \in Editors \ {c} : Apart(c, o)) /\ UpToDate(u) /\ (~u.born => InStep(u, plan[u.t]))
    BY DEF LoneInv
  <2>2. u.t \in Tariffs /\ DOMAIN u.rest \subseteq Tariffs
    BY WorkRecords
  <2>3. UpToDate(editor[c])'
    <3>1. \A o \in {u.t} \cup DOMAIN u.rest : tariff'[o] = tariff[o]
      BY <1>1, <2>1, <2>2 DEF UpToDate
    <3> QED BY <1>1, <2>1, <3>1 DEF UpToDate
  <2> QED BY <1>1, <2>1, <2>3 DEF Apart, WorksOn
<1>4. SettledInv'
  <2> SUFFICES ASSUME NEW o \in Tariffs, o \notin drift, o # t, Waiting(o)' PROVE Settled(o)'
    BY <1>1 DEF SettledInv
  <2>1. Waiting(o) /\ tariff'[o] = tariff[o] /\ (Leaving(o)' <=> Leaving(o))
    BY <1>1 DEF Waiting, Leaving, WorksOn
  <2> QED BY <1>1, <2>1 DEF SettledInv, Settled, OnSale, Offered
<1> QED BY <1>2, <1>3, <1>4

\* Of a handler at work: what its record says, and that a handler that is alone is up to date.
LEMMA AtWork ==
  ASSUME PlansInv, NEW e \in Editors, editor[e].pc # "idle"
  PROVE  \E w \in Works : /\ w = editor[e] /\ w.t \in Tariffs /\ WorkOK(w)
                          /\ w.input \in LiveDocs /\ w.alone \in BOOLEAN /\ w.born \in BOOLEAN
                          /\ w.todo \subseteq Keys /\ w.key \in Keys
                          /\ PlanKeys(w.input) \subseteq Keys
                          /\ w.alone => /\ \A o \in Editors \ {e} : ~WorksOn(o, w.t)
                                        /\ UpToDate(w)
                                        /\ ~w.born => InStep(w, plan[w.t])
                          /\ tariff \in [Tariffs -> Docs]
                          /\ plan \in [Tariffs -> [Keys -> {"none", "on", "off"}]]
<1> PICK w \in Works : w = editor[e]
  BY DEF PlansInv, TariffTypeOK, Served
<1>1. /\ w.t \in Tariffs /\ w.input \in LiveDocs /\ w.alone \in BOOLEAN /\ w.born \in BOOLEAN
      /\ w.todo \subseteq Keys /\ w.key \in Keys /\ PlanKeys(w.input) \subseteq Keys
  BY WorkRecords, KeysOf DEF LiveDocs
<1>2. ASSUME w.alone
      PROVE  /\ \A o \in Editors \ {e} : ~WorksOn(o, w.t)
             /\ UpToDate(w)
             /\ ~w.born => InStep(w, plan[w.t])
  <2>1. Lone(e) /\ WorksOn(e, w.t)
    BY <1>2 DEF Lone, WorksOn
  <2> QED BY <2>1, <1>1 DEF PlansInv, LoneInv, Apart
<1> QED BY <1>1, <1>2 DEF PlansInv, TariffTypeOK

LEMMA UpdateKeeps ==
  ASSUME PlansInv, NEW e \in Editors, UpdateTariff(e) \/ ArchiveTariff(e) PROVE PlansInv'
<1>0. editor[e].pc \in {"update", "archive"} /\ editor[e].pc # "idle"
  BY DEF UpdateTariff, ArchiveTariff
<1> PICK w \in Works : /\ w = editor[e] /\ w.t \in Tariffs /\ WorkOK(w)
                       /\ w.input \in LiveDocs
                       /\ PlanKeys(w.input) \subseteq Keys
                       /\ w.alone => /\ \A o \in Editors \ {e} : ~WorksOn(o, w.t)
                                     /\ UpToDate(w)
                                     /\ ~w.born => InStep(w, plan[w.t])
                       /\ tariff \in [Tariffs -> Docs]
                       /\ plan \in [Tariffs -> [Keys -> {"none", "on", "off"}]]
  BY <1>0, AtWork
<1>1. UNCHANGED plan /\ DOMAIN w.rest = {}
  BY <1>0 DEF UpdateTariff, ArchiveTariff, WorkOK
<1>2. /\ \A t \in Tariffs \ {w.t} : ~WorksOn(e, t)
      /\ plan' \in [Tariffs -> [Keys -> {"none", "on", "off"}]]
  BY <1>1 DEF WorksOn
<1>3. CASE UpdateTariff(e) /\ Stored(w.t)
  <2> PICK v : v = [w EXCEPT !.pc = "get"]
    OBVIOUS
  <2>1. /\ v \in Works /\ v.pc = "get" /\ v.t = w.t /\ v.input = w.input /\ v.rest = w.rest
        /\ v.then = w.then /\ v.todo = w.todo /\ v.key = w.key /\ v.born = w.born
        /\ v.alone = w.alone
    BY WorkAt
  <2>2. /\ editor' = [editor EXCEPT ![e] = v] /\ editor'[e] = v /\ w.pc = "update"
        /\ tariff' = [tariff EXCEPT ![w.t] = w.input] /\ drift' = drift
    BY <1>3 DEF UpdateTariff, PlansInv, TariffTypeOK
  <2>3. w.todo = PlanKeys(w.input) /\ w.then = "answer" /\ ~w.input.deleted /\ w.input \in Docs
    BY <2>2 DEF WorkOK, LiveDocs
  <2>4. tariff' \in [Tariffs -> Docs] /\ tariff'[w.t] = w.input /\ \A t \in Tariffs \ {w.t} : tariff'[t] = tariff[t]
    BY <2>2, <2>3
  <2>5. WorkOK(v) /\ InStep(v, plan'[v.t])
    BY <1>1, <2>1, <2>3 DEF WorkOK, InStep
  <2>6. UpToDate(v)'
    BY <1>1, <2>1, <2>3, <2>4 DEF UpToDate
  <2>7. ~Waiting(w.t)'
    BY <2>1, <2>2 DEF Waiting, WorksOn
  <2>8. \A t \in Tariffs \ {w.t} : WorksOn(e, t)' <=> WorksOn(e, t)
    BY <1>1, <2>1, <2>2 DEF WorksOn
  <2>9. v.pc \notin {"update", "archive", "delete"}
    BY <2>1
  <2>10. /\ \A t \in Tariffs \ {w.t} : /\ WorksOn(e, t)' <=> WorksOn(e, t)
                                       /\ tariff'[t] = tariff[t] /\ plan'[t] = plan[t]
         /\ drift \subseteq drift' \cup {w.t} /\ v \in {Served} \cup Works
    BY <1>1, <2>1, <2>2, <2>4, <2>8
  <2>11. w.t \notin drift' => (Waiting(w.t)' => Settled(w.t)')
    BY <2>7
  <2>12. editor' = [editor EXCEPT ![e] = v] /\ tariff' \in [Tariffs -> Docs]
    BY <2>2, <2>4
  <2> QED BY <1>2, <2>1, <2>5, <2>6, <2>9, <2>10, <2>11, <2>12, MoveKeeps
<1>4. CASE ArchiveTariff(e) \/ ~Stored(w.t)
  <2>1. /\ editor' = [editor EXCEPT ![e] = Served] /\ editor'[e] = Served /\ Served.pc = "idle"
        /\ \A o \in Editors \ {e} : editor'[o] = editor[o]
    BY <1>4, <1>0 DEF UpdateTariff, ArchiveTariff, PlansInv, TariffTypeOK, Served
  <2>2. \/ tariff' = tariff /\ drift' = drift
        \/ tariff' = [tariff EXCEPT ![w.t] = w.input] /\ drift' = drift \cup {w.t}
    BY <1>4 DEF UpdateTariff, ArchiveTariff
  <2>3. tariff' \in [Tariffs -> Docs] /\ \A t \in Tariffs \ {w.t} : tariff'[t] = tariff[t]
    BY <2>2 DEF LiveDocs
  <2>4. \A t \in Tariffs \ {w.t} : WorksOn(e, t)' <=> WorksOn(e, t)
    BY <1>2, <2>1 DEF WorksOn
  <2>5. w.t \notin drift' => (Waiting(w.t)' => Settled(w.t)')
    <3> SUFFICES ASSUME w.t \notin drift', Waiting(w.t)' PROVE Settled(w.t)'
      OBVIOUS
    <3>1. tariff' = tariff /\ drift' = drift
      BY <2>2
    <3>2. /\ ~WorksOn(e, w.t)'
          /\ \A o \in Editors \ {e} : WorksOn(o, w.t)' <=> WorksOn(o, w.t)
      BY <2>1 DEF WorksOn
    <3>3. Waiting(w.t) /\ (Leaving(w.t)' <=> Leaving(w.t))
      BY <2>1, <3>2, <1>0 DEF Waiting, Leaving
    <3> QED BY <1>1, <3>1, <3>3 DEF PlansInv, SettledInv, Settled, OnSale, Offered
  <2>6. drift \subseteq drift' \cup {w.t}
    BY <2>2
  <2> QED BY <1>1, <1>2, <2>1, <2>3, <2>4, <2>5, <2>6, MoveKeeps
<1> QED BY <1>3, <1>4

\* A step of the synchronisation that writes no more than one plan of its tariff.
LEMMA SyncStepKeeps ==
  ASSUME PlansInv, NEW e \in Editors, NEW w \in Works, w = editor[e],
         NEW v \in Works, editor' = [editor EXCEPT ![e] = v], WorkOK(v),
         v.t = w.t, v.rest = w.rest, v.then = w.then, v.input = w.input, v.alone = w.alone,
         w.pc \in {"get", "put", "create", "orphans"},
         v.pc \in {"get", "put", "create", "orphans"},
         UNCHANGED <<tariff, drift>>, plan' \in [Tariffs -> [Keys -> {"none", "on", "off"}]],
         \A t \in Tariffs \ {w.t} : plan'[t] = plan[t],
         w.alone /\ ~v.born => InStep(v, plan'[v.t])
  PROVE  PlansInv'
<1>0. editor[e].pc # "idle"
  OBVIOUS
<1>1. /\ w.alone => UpToDate(w)
      /\ tariff' \in [Tariffs -> Docs] /\ w.t \in Tariffs /\ editor \in [Editors -> {Served} \cup Works]
  BY <1>0, AtWork DEF PlansInv, TariffTypeOK
<1>2. editor'[e] = v
  BY <1>1
<1>3. w.alone => UpToDate(v)'
  BY <1>1 DEF UpToDate
<1>4. \A t \in Tariffs \ {w.t} : WorksOn(e, t)' <=> WorksOn(e, t)
  BY <1>2 DEF WorksOn
<1>5. ~Waiting(w.t)'
  BY <1>2 DEF Waiting, WorksOn
<1> QED BY <1>1, <1>3, <1>4, <1>5, MoveKeeps

LEMMA GetPlanKeeps == ASSUME PlansInv, NEW e \in Editors, GetPlan(e) PROVE PlansInv'
<1>0. editor[e].pc = "get" /\ editor[e].pc # "idle"
  BY DEF GetPlan
<1> PICK w \in Works : /\ w = editor[e] /\ w.t \in Tariffs /\ WorkOK(w)
                       /\ w.todo \subseteq Keys /\ PlanKeys(w.input) \subseteq Keys
                       /\ w.alone => (~w.born => InStep(w, plan[w.t]))
  BY <1>0, AtWork
<1>1. /\ UNCHANGED <<tariff, plan, drift>> /\ plan' \in [Tariffs -> [Keys -> {"none", "on", "off"}]]
      /\ editor \in [Editors -> {Served} \cup Works]
  BY DEF GetPlan, PlansInv, TariffTypeOK
<1>2. CASE w.todo = {}
  <2> PICK v : v = [w EXCEPT !.pc = "orphans", !.todo = Candidates \ PlanKeys(w.input)]
    OBVIOUS
  <2>1. /\ v \in Works /\ v.pc = "orphans" /\ v.t = w.t /\ v.input = w.input /\ v.rest = w.rest
        /\ v.then = w.then /\ v.todo = Candidates \ PlanKeys(w.input) /\ v.born = w.born
        /\ v.alone = w.alone
    BY CandidatesAreKeys DEF Works
  <2>2. editor' = [editor EXCEPT ![e] = v]
    BY <1>1, <1>2 DEF GetPlan
  <2>3. WorkOK(v)
    BY <2>1 DEF WorkOK
  <2>4. w.alone /\ ~v.born => InStep(v, plan'[v.t])
    BY <1>0, <1>1, <1>2, <2>1 DEF InStep
  <2> QED BY <1>0, <1>1, <2>1, <2>2, <2>3, <2>4, SyncStepKeeps
<1>3. CASE w.todo # {}
  <2>1. PICK d \in w.todo, pc \in {"create", "put"} :
          editor' = [editor EXCEPT ![e].pc = pc, ![e].todo = @ \ {d}, ![e].key = d]
    BY <1>3 DEF GetPlan
  <2> PICK v : v = [w EXCEPT !.pc = pc, !.todo = @ \ {d}, !.key = d]
    OBVIOUS
  <2>2. /\ v \in Works /\ v.pc = pc /\ v.t = w.t /\ v.input = w.input /\ v.rest = w.rest
        /\ v.then = w.then /\ v.todo = w.todo \ {d} /\ v.key = d /\ v.born = w.born
        /\ v.alone = w.alone
    BY DEF Works
  <2>3. editor' = [editor EXCEPT ![e] = v]
    BY <1>1, <2>1
  <2>4. WorkOK(v)
    BY <1>0, <2>1, <2>2 DEF WorkOK
  <2>5. w.alone /\ ~v.born => InStep(v, plan'[v.t])
    BY <1>0, <1>1, <2>2 DEF InStep
  <2> QED BY <1>0, <1>1, <2>2, <2>3, <2>4, <2>5, SyncStepKeeps
<1> QED BY <1>2, <1>3

LEMMA PutPlanKeeps == ASSUME PlansInv, NEW e \in Editors, PutPlan(e) PROVE PlansInv'
<1>0. editor[e].pc = "put" /\ editor[e].pc # "idle"
  BY DEF PutPlan
<1> PICK w \in Works : /\ w = editor[e] /\ w.t \in Tariffs /\ WorkOK(w) /\ w.key \in Keys
                       /\ PlanKeys(w.input) \subseteq Keys
                       /\ w.alone => (~w.born => InStep(w, plan[w.t]))
                       /\ plan \in [Tariffs -> [Keys -> {"none", "on", "off"}]]
  BY <1>0, AtWork
<1> PICK v : v = [w EXCEPT !.pc = "get"]
  OBVIOUS
<1>1. /\ v \in Works /\ v.pc = "get" /\ v.t = w.t /\ v.input = w.input /\ v.rest = w.rest
      /\ v.then = w.then /\ v.todo = w.todo /\ v.key = w.key /\ v.born = w.born
      /\ v.alone = w.alone
  BY WorkAt
<1>2. /\ editor' = [editor EXCEPT ![e] = v] /\ UNCHANGED <<tariff, drift>>
      /\ plan' = [plan EXCEPT ![w.t][w.key] = Sale(w.input.active)]
  BY DEF PutPlan
<1>3. /\ plan' \in [Tariffs -> [Keys -> {"none", "on", "off"}]]
      /\ \A t \in Tariffs \ {w.t} : plan'[t] = plan[t]
      /\ plan'[w.t][w.key] = Sale(w.input.active)
      /\ \A d \in Keys \ {w.key} : plan'[w.t][d] = plan[w.t][d]
  <2>1. Sale(w.input.active) \in {"none", "on", "off"}
    BY DEF Sale
  <2> QED BY <1>2, <2>1
<1>4. WorkOK(v)
  BY <1>0, <1>1 DEF WorkOK
<1>5. w.alone /\ ~v.born => InStep(v, plan'[v.t])
  BY <1>0, <1>1, <1>3 DEF InStep
<1>6. editor' = [editor EXCEPT ![e] = v] /\ UNCHANGED <<tariff, drift>>
  BY <1>2
<1> QED BY <1>0, <1>1, <1>3, <1>4, <1>5, <1>6, SyncStepKeeps

LEMMA CreatePlanKeeps == ASSUME PlansInv, NEW e \in Editors, CreatePlan(e) PROVE PlansInv'
<1>0. editor[e].pc = "create" /\ editor[e].pc # "idle"
  BY DEF CreatePlan
<1> PICK w \in Works : /\ w = editor[e] /\ w.t \in Tariffs /\ WorkOK(w) /\ w.key \in Keys
                       /\ w.input \in LiveDocs /\ w.born \in BOOLEAN
                       /\ PlanKeys(w.input) \subseteq Keys
                       /\ w.alone => (~w.born => InStep(w, plan[w.t]))
                       /\ plan \in [Tariffs -> [Keys -> {"none", "on", "off"}]]
  BY <1>0, AtWork
<1>1. CASE w.input.free \/ plan[w.t][w.key] # "none"
  <2>1. Finish(e) /\ UNCHANGED <<tariff, plan>> /\ drift' = drift \cup {w.t}
    BY <1>1 DEF CreatePlan
  <2> QED BY <1>0, <2>1, FinishKeeps
<1>2. CASE ~(w.input.free \/ plan[w.t][w.key] # "none")
  <2> PICK born \in BOOLEAN : born <=> (w.born \/ ~w.input.active)
    OBVIOUS
  <2> PICK v : v = [w EXCEPT !.pc = "get", !.born = born]
    OBVIOUS
  <2>1. /\ v \in Works /\ v.pc = "get" /\ v.t = w.t /\ v.input = w.input /\ v.rest = w.rest
        /\ v.then = w.then /\ v.todo = w.todo /\ v.key = w.key /\ (v.born <=> born)
        /\ v.alone = w.alone
    BY DEF Works
  <2>2. /\ editor' = [editor EXCEPT ![e] = v] /\ UNCHANGED <<tariff, drift>>
        /\ plan' = [plan EXCEPT ![w.t][w.key] = "on"]
    BY <1>2 DEF CreatePlan
  <2>3. /\ plan' \in [Tariffs -> [Keys -> {"none", "on", "off"}]]
        /\ \A t \in Tariffs \ {w.t} : plan'[t] = plan[t]
        /\ plan'[w.t][w.key] = "on"
        /\ \A d \in Keys \ {w.key} : plan'[w.t][d] = plan[w.t][d]
    BY <2>2
  <2>4. WorkOK(v)
    BY <1>0, <2>1 DEF WorkOK
  <2>5. w.alone /\ ~v.born => InStep(v, plan'[v.t])
    <3> SUFFICES ASSUME w.alone, ~w.born, w.input.active PROVE InStep(v, plan'[w.t])
      BY <2>1
    <3>1. \A d \in PlanKeys(w.input) \ w.todo : d # w.key => plan[w.t][d] = "on"
      BY <1>0 DEF InStep, Sale
    <3>2. \A d \in PlanKeys(w.input) \ w.todo : plan'[w.t][d] = "on"
      BY <2>3, <3>1
    <3> QED BY <2>1, <3>2 DEF InStep, Sale
  <2>6. editor' = [editor EXCEPT ![e] = v] /\ UNCHANGED <<tariff, drift>>
    BY <2>2
  <2>7. /\ v.pc = "get" /\ v.t = w.t /\ v.input = w.input /\ v.rest = w.rest /\ v.then = w.then
        /\ v.alone = w.alone /\ v \in Works /\ w.pc = "create"
    BY <1>0, <2>1
  <2>8. /\ w.pc \in {"get", "put", "create", "orphans"} /\ v.pc \in {"get", "put", "create", "orphans"}
        /\ plan' \in [Tariffs -> [Keys -> {"none", "on", "off"}]]
        /\ \A t \in Tariffs \ {w.t} : plan'[t] = plan[t]
    BY <2>3, <2>7
  <2> QED BY <2>4, <2>5, <2>6, <2>7, <2>8, SyncStepKeeps
<1> QED BY <1>1, <1>2

LEMMA DeactivateKeeps ==
  ASSUME PlansInv, NEW e \in Editors, DeactivateOrphanedPlans(e) PROVE PlansInv'
<1>0. editor[e].pc = "orphans" /\ editor[e].pc # "idle"
  BY DEF DeactivateOrphanedPlans
<1> PICK w \in Works : /\ w = editor[e] /\ w.t \in Tariffs /\ WorkOK(w)
                       /\ w.todo \subseteq Keys /\ PlanKeys(w.input) \subseteq Keys
                       /\ w.alone => (~w.born => InStep(w, plan[w.t]))
                       /\ plan \in [Tariffs -> [Keys -> {"none", "on", "off"}]]
  BY <1>0, AtWork
<1>1. CASE w.todo = {}
  <2>1. /\ Finish(e) /\ UNCHANGED <<tariff, plan>>
        /\ drift' = IF w.alone /\ ~w.born THEN drift \ {w.t} ELSE drift \cup {w.t}
    BY <1>1 DEF DeactivateOrphanedPlans
  <2>2. w.t \notin drift' =>
          /\ w.alone
          /\ \A d \in PlanKeys(w.input) : plan[w.t][d] = Sale(w.input.active)
          /\ \A d \in Candidates \ PlanKeys(w.input) : plan[w.t][d] # "on"
    BY <1>0, <1>1, <2>1 DEF InStep
  <2>3. drift \subseteq drift' \cup {w.t}
    BY <2>1
  <2> QED BY <1>0, <2>1, <2>2, <2>3, FinishKeeps
<1>2. CASE w.todo # {}
  <2>1. PICK d \in w.todo :
          /\ plan' = [plan EXCEPT ![w.t][d] = IF @ = "on" THEN "off" ELSE @]
          /\ editor' = [editor EXCEPT ![e].todo = @ \ {d}]
          /\ UNCHANGED <<tariff, drift>>
    BY <1>2 DEF DeactivateOrphanedPlans
  <2> PICK v : v = [w EXCEPT !.todo = @ \ {d}]
    OBVIOUS
  <2>2. /\ v \in Works /\ v.pc = "orphans" /\ v.t = w.t /\ v.input = w.input /\ v.rest = w.rest
        /\ v.then = w.then /\ v.todo = w.todo \ {d} /\ v.born = w.born /\ v.alone = w.alone
    BY <1>0 DEF Works
  <2>3. editor' = [editor EXCEPT ![e] = v]
    BY <2>1 DEF PlansInv, TariffTypeOK
  <2>4. /\ plan' \in [Tariffs -> [Keys -> {"none", "on", "off"}]]
        /\ \A t \in Tariffs \ {w.t} : plan'[t] = plan[t]
        /\ plan'[w.t][d] # "on"
        /\ \A o \in Keys \ {d} : plan'[w.t][o] = plan[w.t][o]
    <3>1. d \in Keys
      OBVIOUS
    <3> QED BY <2>1, <3>1
  <2>5. WorkOK(v)
    BY <1>0, <2>2 DEF WorkOK
  <2>6. w.alone /\ ~v.born => InStep(v, plan'[v.t])
    <3>1. d \in Candidates \ PlanKeys(w.input)
      BY <1>0 DEF WorkOK
    <3> QED BY <1>0, <2>2, <2>4, <3>1, CandidatesAreKeys DEF InStep
  <2>7. UNCHANGED <<tariff, drift>>
    BY <2>1
  <2>8. /\ w.pc \in {"get", "put", "create", "orphans"} /\ v.pc \in {"get", "put", "create", "orphans"}
        /\ plan' \in [Tariffs -> [Keys -> {"none", "on", "off"}]]
        /\ \A t \in Tariffs \ {w.t} : plan'[t] = plan[t]
    BY <1>0, <2>2, <2>4
  <2> QED BY <2>2, <2>3, <2>5, <2>6, <2>7, <2>8, SyncStepKeeps
<1> QED BY <1>1, <1>2

LEMMA SyncFailsKeeps == ASSUME PlansInv, NEW e \in Editors, SyncFails(e) PROVE PlansInv'
<1>0. editor[e].pc \in {"get", "put", "create", "orphans"} /\ editor[e].pc # "idle"
  BY DEF SyncFails
<1> PICK w \in Works : w = editor[e]
  BY <1>0, AtWork
<1>1. Finish(e) /\ UNCHANGED <<tariff, plan>> /\ drift' = drift \cup {w.t}
  BY DEF SyncFails
<1> QED BY <1>0, <1>1, FinishKeeps

LEMMA DeleteKeeps == ASSUME PlansInv, NEW e \in Editors, DeleteTariff(e) PROVE PlansInv'
<1>0. editor[e].pc = "delete" /\ editor[e].pc # "idle"
  BY DEF DeleteTariff
<1> PICK w \in Works : /\ w = editor[e] /\ w.t \in Tariffs /\ WorkOK(w)
                       /\ tariff \in [Tariffs -> Docs]
                       /\ plan \in [Tariffs -> [Keys -> {"none", "on", "off"}]]
  BY <1>0, AtWork
<1>1. /\ editor' = [editor EXCEPT ![e] = Served] /\ editor'[e] = Served /\ Served.pc = "idle"
      /\ \A o \in Editors \ {e} : editor'[o] = editor[o]
      /\ tariff' = [tariff EXCEPT ![w.t] = NoTariff] /\ UNCHANGED <<plan, drift>>
  BY DEF DeleteTariff, PlansInv, TariffTypeOK, Served
<1>2. /\ tariff' \in [Tariffs -> Docs] /\ tariff'[w.t] = NoTariff
      /\ \A t \in Tariffs \ {w.t} : tariff'[t] = tariff[t]
  BY <1>1, NoTariffDoc
<1>3. DOMAIN w.rest = {}
  BY <1>0 DEF WorkOK
<1>4. \A t \in Tariffs \ {w.t} : WorksOn(e, t)' <=> WorksOn(e, t)
  BY <1>1, <1>3 DEF WorksOn
<1>5. w.t \notin drift' => (Waiting(w.t)' => Settled(w.t)')
  <2> SUFFICES ASSUME w.t \notin drift, Waiting(w.t)' PROVE Settled(w.t)'
    BY <1>1
  <2>1. /\ WorksOn(e, w.t) /\ ~WorksOn(e, w.t)'
        /\ \A o \in Editors \ {e} : WorksOn(o, w.t)' <=> WorksOn(o, w.t)
    BY <1>0, <1>1 DEF WorksOn
  <2>2. Waiting(w.t) /\ Leaving(w.t)
    BY <1>0, <1>1, <2>1 DEF Waiting, Leaving
  <2>3. OnSale(w.t) \cap Candidates = {}
    BY <2>2 DEF PlansInv, SettledInv, Settled
  <2>4. OnSale(w.t)' = OnSale(w.t) /\ Offered(w.t)' = {}
    BY <1>1, <1>2 DEF OnSale, Offered, NoTariff
  <2> QED BY <2>3, <2>4 DEF Settled
<1> QED BY <1>1, <1>2, <1>4, <1>5, MoveKeeps

LEMMA TariffStep == PlansInv /\ [TariffNext]_tariffVars => PlansInv'
<1> SUFFICES ASSUME PlansInv, [TariffNext]_tariffVars PROVE PlansInv'
  OBVIOUS
<1>1. ASSUME NEW e \in Editors, NEW t \in Tariffs, NEW input \in TariffInput,
             CreateTariff(e, t, input) \/ ImportTariffs(e, t, input) \/ LoadForUpdate(e, t, input)
      PROVE  PlansInv'
  <2>1. input \in Docs
    BY InputsLive DEF LiveDocs
  <2> QED BY <1>1, <2>1, CreateKeeps, StoreOnlyKeeps, LoadKeepsPlans DEF ImportTariffs
<1>2. ASSUME NEW e \in Editors, NEW t \in Tariffs, NEW from \in Tariffs, CloneTariff(e, t, from)
      PROVE  PlansInv'
  <2> PICK input : input = [tariff[from] EXCEPT !.active = FALSE]
    OBVIOUS
  <2>1. input \in Docs
    BY DEF PlansInv, TariffTypeOK, Docs
  <2> QED BY <1>2, <2>1, StoreOnlyKeeps DEF CloneTariff
<1>3. ASSUME NEW e \in Editors, NEW t \in Tariffs, LoadForDelete(e, t) \/ LoadForArchive(e, t)
      PROVE  PlansInv'
  BY <1>3, LoadKeepsPlans
<1>4. ASSUME NEW e \in Editors, SyncAllTariffs(e) \/ UpdateTariff(e) \/ ArchiveTariff(e)
      PROVE  PlansInv'
  BY <1>4, SyncAllKeeps, UpdateKeeps
<1>5. ASSUME NEW e \in Editors, GetPlan(e) \/ PutPlan(e) \/ CreatePlan(e)
                                \/ DeactivateOrphanedPlans(e) \/ SyncFails(e) \/ DeleteTariff(e)
      PROVE  PlansInv'
  BY <1>5, GetPlanKeeps, PutPlanKeeps, CreatePlanKeeps, DeactivateKeeps, SyncFailsKeeps, DeleteKeeps
<1>6. CASE UNCHANGED tariffVars
  BY <1>6 DEF tariffVars, PlansInv, TariffTypeOK, LoneInv, Lone, Apart, UpToDate, SettledInv,
              Waiting, Leaving, Settled, OnSale, Offered, WorksOn
<1> QED BY <1>1, <1>2, <1>3, <1>4, <1>5, <1>6 DEF TariffNext

\* For any number of tariffs, administrators and lengths of periods, through any edits,
\* failures and overlaps: a tariff whose last synchronisation was whole and alone has its
\* periods for sale, and nothing else that deactivateOrphanedPlans looks for.
THEOREM TariffPlansFollow == TariffSpec => []PlansFollowTariff
<1>1. PlansInv => PlansFollowTariff
  BY DEF PlansInv, SettledInv, Settled, Waiting, Leaving, PlansFollowTariff
<1> QED BY PlansBegin, TariffStep, <1>1, PTL DEF TariffSpec
=============================================================================
