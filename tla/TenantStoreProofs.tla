-------------------------- MODULE TenantStoreProofs --------------------------
(***************************************************************************)
(* Proofs about TenantStore: whatever requests run at the same time, rows  *)
(* of one shop stay out of the hands of the others, what is read is whole, *)
(* and what is locked is not written over unseen; and about Reseller: the  *)
(* balances of the accounts follow the commissions, which are paid once.   *)
(***************************************************************************)
EXTENDS TenantStore, Reseller, FiniteSetTheorems, WellFoundedInduction, TLAPS

\* A transaction has its connection to itself, and the setting there is its scope.
ConnsApart ==
    /\ \A s \in StoreRequests : storeReq[s].at = "closed" => ~InTx(s)
    /\ \A s, t \in StoreRequests : InTx(s) /\ storeReq[t].conn = storeReq[s].conn => s = t
    /\ \A s \in StoreRequests : InTx(s) => setting[storeReq[s].conn] = storeReq[s].scope
    /\ \A c \in StoreConns : c \notin Taken => setting[c] = NoScope

\* Of what a row is, its table and, once it has one, its tenant are for ever; only a user
\* who has none may get one.
Follows(new, old) ==
    old.table # "none" =>
      /\ new.table = old.table
      /\ old.tenant \in StoreShops \/ old.table \notin GivenTenant => new.tenant = old.tenant

RowSound(r) ==
    /\ r.tenant \in StoreShops => r.by \in {Platform, r.tenant}
    /\ r.table \in Stamped => r.by # NoScope
    /\ r.table \in Shared => r.meant \subseteq Names(r.items)
    /\ r.table \in Shared => r.tenant = NoScope
    /\ r.table = "invoices" => \A x \in r.items : x.tenant = r.tenant

\* The items that the method at work on the row has yet to insert.
Missing(s, id) ==
    IF storeReq[s].op = "insert" /\ storeReq[s].on = id THEN storeReq[s].todo ELSE {}

RowsSound ==
    \A id \in StoreIds :
      /\ RowSound(rows[id])
      /\ rows[id].table = "invoices" => Names(rows[id].items) = rows[id].meant
      /\ \A s \in StoreRequests : holder[id] = s =>
           /\ InTx(s)
           /\ RowSound(draft[id])
           /\ Follows(draft[id], rows[id])
           /\ draft[id].table \notin Shared
           /\ draft[id].table = "invoices" =>
                Names(draft[id].items) = draft[id].meant \ Missing(s, id)

\* What a request has read, and what has become of it since.
ReadsSound ==
    \A s \in StoreRequests :
      /\ storeReq[s].op # "load" => storeReq[s].unloaded = {}
      /\ \A id \in StoreIds :
           LET g == storeReq[s].got[id]
           IN /\ Follows(Version(s, id), g)
              /\ g.table \in Shared \cup {"none"} \/ storeReq[s].scope = Platform
                   \/ /\ storeReq[s].scope \in StoreShops
                      /\ g.tenant = storeReq[s].scope
                      /\ \A x \in g.items : x.tenant = storeReq[s].scope
              /\ id \in storeReq[s].unloaded /\ g.table \notin Shared => InTx(s)
              /\ id \notin storeReq[s].unloaded =>
                   /\ g.table = "invoices" => Names(g.items) = g.meant
                   /\ g.table \in Shared => g.meant \subseteq Names(g.items)

\* The row that a method is at work on.
OpsSound ==
    \A s \in StoreRequests :
      /\ storeReq[s].op \in {"insert", "upsert"} => storeReq[s].on \in StoreIds
      /\ \A id \in StoreIds : storeReq[s].op \in {"insert", "upsert"} /\ storeReq[s].on = id =>
           /\ Version(s, id).table # "none"
           /\ Version(s, id).table \in Shared <=> ~InTx(s)
           /\ storeReq[s].op = "upsert" => Version(s, id).table \in Pruned
           /\ storeReq[s].op = "insert" /\ InTx(s) => holder[id] = s
           /\ storeReq[s].op = "insert" /\ Version(s, id).table = "invoices" =>
                /\ storeReq[s].todo \subseteq Version(s, id).meant
                /\ Version(s, id).tenant = Stamp(storeReq[s].scope)

\* A row that was read FOR UPDATE is held, and has changed only in the hands of its reader.
LocksSound ==
    /\ ~overwrote
    /\ \A s \in StoreRequests : \A id \in storeReq[s].locked :
         /\ holder[id] = s
         /\ storeReq[s].got[id].table # "none" => storeReq[s].got[id].value = draft[id].value

StoreInv ==
    /\ StoreTypeOK /\ ConnsApart /\ RowsSound /\ ReadsSound /\ OpsSound /\ LocksSound

-----------------------------------------------------------------------------
(***************************************************************************)
(* The steps: what the statements of the repositories come to.             *)
(***************************************************************************)
\* Whose a new row may be, and whose a row may become.
MayOwn(s, c, table, owner) ==
    /\ owner \in StoreShops \cup {NoScope}
    /\ table \in Stamped => owner = Stamp(setting[c])
    /\ table \in Shared => owner = NoScope
    /\ storeReq[s].scope # Platform => owner \in {NoScope, storeReq[s].scope}
MayBecome(s, id, table, owner) ==
    \/ owner = Version(s, id).tenant
    \/ /\ table \in GivenTenant /\ owner \in StoreShops
       /\ storeReq[s].scope = Platform /\ Version(s, id).tenant = NoScope

RowStep(s, c, table, id) ==
    \/ \E owner \in StoreShops \cup {NoScope}, items \in SUBSET StoreItems :
         MayOwn(s, c, table, owner) /\ InsertRow(s, c, table, id, owner, items)
    \/ SelectRow(s, c, table, id)
    \/ table \notin Shared /\ SelectForUpdate(s, c, table, id)
    \/ \E owner \in StoreShops \cup {NoScope}, keep \in SUBSET StoreItems :
         MayBecome(s, id, table, owner) /\ UpdateRow(s, c, table, id, owner, keep)

TableStep(s, c, table) ==
    \/ \E id \in StoreIds : RowStep(s, c, table, id)
    \/ SelectRows(s, c, table)
    \/ table \notin Shared /\ SelectSkipLocked(s, c, table)

ItemStep(s, c) ==
    \/ InsertItem(s, c) \/ UpsertItem(s, c) \/ DeleteRemovedItems(s, c)
    \/ \E ids \in SUBSET storeReq[s].unloaded : SelectItems(s, c, ids)

RequestStep(s) ==
    \/ \E scope \in StoreShops \cup {NoScope, Platform} : OpenRequest(s, scope)
    \/ CloseRequest(s) \/ CommitTx(s) \/ RollbackTx(s) \/ StoreFails(s)
    \/ \E c \in StoreConns :
         \/ BeginTx(s, c)
         \/ ItemStep(s, c)
         \/ \E table \in StoreTables : TableStep(s, c, table)

LEMMA StampIsOwner ==
    \A scope : Stamp(scope) \in StoreShops \cup {NoScope} /\ Stamp(scope) \in {NoScope, scope}
BY DEF Stamp

LEMMA VersionHasType ==
    ASSUME StoreTypeOK, NEW s, NEW id \in StoreIds
    PROVE  Version(s, id) \in StoreRow
BY DEF StoreTypeOK, Version

\* What a stamped table's INSERT is.
LEMMA StampedMayOwn ==
    ASSUME StoreTypeOK, ConnsApart, NEW s \in StoreRequests, NEW c \in StoreConns, NEW table \in Stamped,
           NEW id \in StoreIds, NEW items, InsertStamped(s, c, table, id, items)
    PROVE  /\ Stamp(setting[c]) \in StoreShops \cup {NoScope}
           /\ MayOwn(s, c, table, Stamp(setting[c]))
           /\ InsertRow(s, c, table, id, Stamp(setting[c]), items)
<1>1. InsertRow(s, c, table, id, Stamp(setting[c]), items)
  BY DEF InsertStamped
<1>2. Ready(s, c) /\ Writes(s, table)
  BY <1>1 DEF InsertRow
<1>3. InTx(s) /\ storeReq[s].conn = c
  BY <1>2 DEF Ready, OnConn, Writes, Stamped, Shared
<1>4. setting[c] = storeReq[s].scope
  BY <1>3 DEF ConnsApart
<1>5. table \notin Shared
  BY DEF Stamped, Shared
<1> QED
  BY <1>1, <1>4, <1>5, StampIsOwner DEF MayOwn

LEMMA KeptMayBecome ==
    ASSUME StoreTypeOK, NEW s \in StoreRequests, NEW c \in StoreConns, NEW table,
           NEW id \in StoreIds, NEW keep, UpdateKept(s, c, table, id, keep)
    PROVE  /\ Version(s, id).tenant \in StoreShops \cup {NoScope}
           /\ MayBecome(s, id, table, Version(s, id).tenant)
           /\ UpdateRow(s, c, table, id, Version(s, id).tenant, keep)
<1>1. Version(s, id) \in StoreRow
  BY VersionHasType
<1> QED
  BY <1>1 DEF UpdateKept, MayBecome, StoreRow

\* Every step is one of these.
LEMMA StatementSteps ==
    ASSUME StoreTypeOK, ConnsApart, NEW s \in StoreRequests, NEW c \in StoreConns,
           NEW table \in StoreTables, Statements(s, c, table)
    PROVE  TableStep(s, c, table)
<1> {} \in SUBSET StoreItems
  OBVIOUS
<1>a. ASSUME NEW id \in StoreIds, NEW items \in SUBSET StoreItems, table \in Stamped,
             InsertStamped(s, c, table, id, items)
      PROVE  TableStep(s, c, table)
  BY <1>a, StampedMayOwn DEF TableStep, RowStep
<1>b. ASSUME NEW id \in StoreIds, NEW keep \in SUBSET StoreItems, UpdateKept(s, c, table, id, keep)
      PROVE  TableStep(s, c, table)
  BY <1>b, KeptMayBecome DEF TableStep, RowStep
<1>c. ASSUME NEW id \in StoreIds, SelectRow(s, c, table, id)
      PROVE  TableStep(s, c, table)
  BY <1>c DEF TableStep, RowStep
<1>d. ASSUME NEW id \in StoreIds, table \notin Shared, SelectForUpdate(s, c, table, id)
      PROVE  TableStep(s, c, table)
  BY <1>d DEF TableStep, RowStep
<1>e. ASSUME SelectRows(s, c, table)
      PROVE  TableStep(s, c, table)
  BY <1>e DEF TableStep
<1>1. CASE table = "subscriptions" /\ SubscriptionStatements(s, c)
  BY <1>1, <1>a, <1>b, <1>c, <1>d, <1>e DEF SubscriptionStatements, InsertSubscription,
     GetSubscriptionByID, SubscriptionForUpdate, GetSubscriptionsByUserID, UpdateSubscriptionRow,
     Stamped, Shared
<1>2. CASE table = "invoices" /\ InvoiceStatements(s, c)
  BY <1>2, <1>a, <1>b, <1>c, <1>d, <1>e DEF InvoiceStatements, InsertInvoice, GetInvoiceByID,
     InvoiceForUpdate, GetAllInvoices, UpdateInvoiceRow, Stamped, Shared
<1>3. CASE table = "family_groups" /\ FamilyStatements(s, c)
  BY <1>3, <1>a, <1>b, <1>c, <1>d DEF FamilyStatements, InsertFamilyGroup, GetFamilyGroup,
     FamilyGroupForUpdate, UpdateFamilyGroupRow, Stamped, Shared
<1>4. CASE table = "plans" /\ PlanStatements(s, c)
  <2>1. ASSUME NEW id \in StoreIds, InsertPlan(s, c, id)
        PROVE  TableStep(s, c, table)
    <3>1. MayOwn(s, c, table, NoScope)
      BY <1>4 DEF MayOwn, Stamped
    <3> QED  BY <1>4, <2>1, <3>1 DEF InsertPlan, TableStep, RowStep
  <2> QED
    BY <1>4, <2>1, <1>b, <1>c, <1>e DEF PlanStatements, GetPlanByID, GetAllPlans, UpdatePlanRow
<1>5. CASE table = "payment_records" /\ PaymentStatements(s, c)
  BY <1>5, <1>a, <1>b, <1>c, <1>d DEF PaymentStatements, CreatePaymentRecord, GetPaymentRecord,
     PaymentForUpdate, UpdatePaymentRecord, Stamped, Shared
<1>6. CASE table = "remnawave_bindings" /\ BindingStatements(s, c)
  <2>1. table \notin Shared
    BY <1>6 DEF Shared
  <2>2. CASE GetFailedForReconciliation(s, c)
    BY <1>6, <2>1, <2>2 DEF GetFailedForReconciliation, TableStep
  <2> QED
    BY <1>6, <2>1, <2>2, <1>a, <1>b, <1>c, <1>d, <1>e DEF BindingStatements, CreateBinding,
       GetBindingByID, BindingForUpdate, GetBindingsBySubscriptionID, UpdateBinding, Stamped
<1>7. CASE table = "commissions" /\ CommissionStatements(s, c)
  BY <1>7, <1>a, <1>b, <1>d, <1>e DEF CommissionStatements, InsertCommission, CommissionForUpdate,
     GetPendingCommissions, UpdateCommissionRow, Stamped, Shared
<1>8. CASE table = "platform_users" /\ UserStatements(s, c)
  <2>0. table \notin Shared /\ table \notin Stamped /\ table \in GivenTenant
    BY <1>8 DEF Shared, Stamped, GivenTenant
  <2>1. ASSUME NEW id \in StoreIds, InsertUser(s, c, id)
        PROVE  TableStep(s, c, table)
    <3>1. PICK owner \in StoreShops \cup {NoScope} :
            /\ owner \in {NoScope, storeReq[s].scope} \/ storeReq[s].scope = Platform
            /\ InsertRow(s, c, "platform_users", id, owner, {})
      BY <2>1 DEF InsertUser
    <3>2. MayOwn(s, c, table, owner)
      BY <3>1, <2>0 DEF MayOwn
    <3> QED  BY <1>8, <3>1, <3>2 DEF TableStep, RowStep
  <2>2. ASSUME NEW id \in StoreIds, UpdateUserRow(s, c, id)
        PROVE  TableStep(s, c, table)
    <3>1. PICK owner \in {Version(s, id).tenant} \cup StoreShops :
            /\ owner # Version(s, id).tenant =>
                 storeReq[s].scope = Platform /\ Version(s, id).tenant = NoScope
            /\ UpdateRow(s, c, "platform_users", id, owner, {})
      BY <2>2 DEF UpdateUserRow
    <3>2. MayBecome(s, id, table, owner)
      BY <3>1, <2>0 DEF MayBecome
    <3>3. owner \in StoreShops \cup {NoScope}
      BY <3>1, VersionHasType DEF StoreRow
    <3> QED  BY <1>8, <3>1, <3>2, <3>3 DEF TableStep, RowStep
  <2> QED
    BY <1>8, <2>0, <2>1, <2>2, <1>c, <1>d, <1>e DEF UserStatements, GetUserRow, UserForUpdate,
       ListUserRows
<1> QED
  BY <1>1, <1>2, <1>3, <1>4, <1>5, <1>6, <1>7, <1>8 DEF Statements

LEMMA StoreSteps ==
    ASSUME StoreTypeOK, ConnsApart, StoreNext
    PROVE  \E s \in StoreRequests : RequestStep(s)
<1>1. PICK table \in StoreTables, s \in StoreRequests :
        \/ \E scope \in Scopes(table) : OpenRequest(s, scope)
        \/ CloseRequest(s) \/ CommitTx(s) \/ RollbackTx(s) \/ StoreFails(s)
        \/ \E c \in StoreConns :
             \/ BeginTx(s, c)
             \/ Statements(s, c, table)
             \/ InsertItem(s, c) \/ UpsertItem(s, c) \/ DeleteRemovedItems(s, c)
             \/ LoadItems(s, c) \/ BatchLoadItems(s, c)
  BY DEF StoreNext, StoreStep
<1>2. CASE \E scope \in Scopes(table) : OpenRequest(s, scope)
  BY <1>2 DEF Scopes, RequestStep
<1>3. ASSUME NEW c \in StoreConns, LoadItems(s, c) \/ BatchLoadItems(s, c)
      PROVE  ItemStep(s, c)
  BY <1>3 DEF LoadItems, BatchLoadItems, ItemStep
<1>4. ASSUME NEW c \in StoreConns, Statements(s, c, table)
      PROVE  RequestStep(s)
  BY <1>4, StatementSteps DEF RequestStep
<1> QED
  BY <1>1, <1>2, <1>3, <1>4 DEF RequestStep, ItemStep

-----------------------------------------------------------------------------
(***************************************************************************)
(* Types.                                                                  *)
(***************************************************************************)
LEMMA BlankTypes ==
    /\ BlankRow \in StoreRow
    /\ NothingRead \in [StoreIds -> StoreRow]
    /\ \A scope \in StoreShops \cup {NoScope, Platform} : Opened(scope) \in StoreRequest
    /\ Closed \in StoreRequest
<1>1. BlankRow \in StoreRow
  BY StoreAssumption DEF BlankRow, StoreRow
<1>2. NothingRead \in [StoreIds -> StoreRow]
  BY <1>1 DEF NothingRead
<1>3. Closed \in StoreRequest
  BY <1>2 DEF Closed, StoreRequest
<1>4. ASSUME NEW scope \in StoreShops \cup {NoScope, Platform}
      PROVE  Opened(scope) \in StoreRequest
  BY <1>3 DEF Opened, StoreRequest
<1> QED
  BY <1>1, <1>2, <1>3, <1>4

LEMMA PutTypes ==
    ASSUME StoreTypeOK, NEW s \in StoreRequests, NEW id \in StoreIds, NEW r \in StoreRow,
           Put(s, id, r)
    PROVE  /\ rows' \in [StoreIds -> StoreRow] /\ draft' \in [StoreIds -> StoreRow]
           /\ holder' \in [StoreIds -> StoreRequests \cup {NoTx}]
BY DEF StoreTypeOK, Put

LEMMA FetchedType ==
    ASSUME StoreTypeOK, NEW s \in StoreRequests, NEW table, NEW ids \in SUBSET StoreIds
    PROVE  /\ Fetched(s, table, ids) \in StoreRequest
           /\ [Fetched(s, table, ids) EXCEPT !.locked = @ \cup ids] \in StoreRequest
<1> DEFINE G == [id \in StoreIds |-> IF id \in ids THEN [Version(s, id) EXCEPT !.items = {}]
                                     ELSE BlankRow]
           U == IF table \in WithItems THEN ids ELSE {}
           O == IF table \in WithItems /\ ids # {} THEN "load" ELSE "none"
<1>1. ASSUME NEW id \in StoreIds
      PROVE  [Version(s, id) EXCEPT !.items = {}] \in StoreRow
  BY VersionHasType DEF StoreRow
<1>2. G \in [StoreIds -> StoreRow]
  BY <1>1, BlankTypes
<1>3. Fetched(s, table, ids) = [storeReq[s] EXCEPT !.got = G, !.unloaded = U, !.op = O]
  BY DEF Fetched
<1>4. storeReq[s] \in StoreRequest
  BY DEF StoreTypeOK
<1>5. U \in SUBSET StoreIds /\ O \in {"none", "load"}
  OBVIOUS
<1> HIDE DEF G, U, O
<1>6. Fetched(s, table, ids) \in StoreRequest
  BY <1>2, <1>3, <1>4, <1>5 DEF StoreRequest
<1> QED
  BY <1>6 DEF StoreRequest

LEMMA LockTypes ==
    ASSUME StoreTypeOK, NEW s \in StoreRequests, NEW ids \in SUBSET StoreIds, Lock(s, ids)
    PROVE  /\ rows' \in [StoreIds -> StoreRow] /\ draft' \in [StoreIds -> StoreRow]
           /\ holder' \in [StoreIds -> StoreRequests \cup {NoTx}]
BY VersionHasType DEF StoreTypeOK, Lock

\* One request changes; the bounds and the settings are seen to elsewhere.
LEMMA RequestTypes ==
    ASSUME StoreTypeOK, NEW s \in StoreRequests, NEW r \in StoreRequest,
           storeReq' = [storeReq EXCEPT ![s] = r]
    PROVE  storeReq' \in [StoreRequests -> StoreRequest]
BY DEF StoreTypeOK

LEMMA RefusedTypes ==
    ASSUME StoreTypeOK, NEW s \in StoreRequests, Refused(s)
    PROVE  storeReq' \in [StoreRequests -> StoreRequest]
<1>1. storeReq[s] \in StoreRequest /\ storeReq[s].scope \in StoreShops \cup {NoScope, Platform}
  BY DEF StoreTypeOK, StoreRequest
<1>2. [storeReq[s] EXCEPT !.at = "failed"] \in StoreRequest
  BY <1>1 DEF StoreRequest
<1>3. Opened(storeReq[s].scope) \in StoreRequest
  BY <1>1, BlankTypes
<1>4. storeReq' = [storeReq EXCEPT ![s] = IF InTx(s) THEN [storeReq[s] EXCEPT !.at = "failed"]
                                          ELSE Opened(storeReq[s].scope)]
  BY DEF Refused, StoreTypeOK
<1> QED
  BY <1>2, <1>3, <1>4, RequestTypes

\* What the statements on items do to their row and to the request.
LEMMA InsertItemEffect ==
    ASSUME StoreTypeOK, NEW s \in StoreRequests, NEW c \in StoreConns, InsertItem(s, c)
    PROVE  /\ storeReq[s].op = "insert" /\ OnConn(s, c)
           /\ \E i \in storeReq[s].todo : \E meant :
                LET R == storeReq[s]
                    v == Version(s, R.on)
                    items == v.items \cup {[item |-> i, tenant |-> Stamp(setting[c])]}
                    op == IF R.todo = {i} THEN "none" ELSE R.op
                IN /\ meant = v.meant \/ (~InTx(s) /\ meant = Names(items))
                   /\ Put(s, R.on, [v EXCEPT !.items = items, !.meant = meant])
                   /\ storeReq' = [storeReq EXCEPT
                                     ![s] = [R EXCEPT !.todo = R.todo \ {i}, !.op = op]]
           /\ Elsewhere /\ UNCHANGED overwrote
<1> DEFINE R == storeReq[s]
           v == Version(s, R.on)
<1>1. PICK i \in R.todo :
        LET items == v.items \cup {[item |-> i, tenant |-> Stamp(setting[c])]}
            last == R.todo = {i}
        IN /\ OnConn(s, c) /\ R.op = "insert"
           /\ Put(s, R.on, [v EXCEPT !.items = items,
                                     !.meant = IF last /\ ~InTx(s) THEN Names(items) ELSE @])
           /\ storeReq' = [storeReq EXCEPT ![s].todo = @ \ {i},
                                           ![s].op = IF last THEN "none" ELSE @]
           /\ Elsewhere /\ UNCHANGED overwrote
  BY DEF InsertItem
<1> DEFINE items == v.items \cup {[item |-> i, tenant |-> Stamp(setting[c])]}
           op == IF R.todo = {i} THEN "none" ELSE R.op
           meant == IF R.todo = {i} /\ ~InTx(s) THEN Names(items) ELSE v.meant
<1>2. storeReq' = [storeReq EXCEPT ![s] = [R EXCEPT !.todo = R.todo \ {i}, !.op = op]]
  BY <1>1 DEF StoreTypeOK, StoreRequest
<1>3. Put(s, R.on, [v EXCEPT !.items = items, !.meant = meant])
  BY <1>1
<1>4. meant = v.meant \/ (~InTx(s) /\ meant = Names(items))
  OBVIOUS
<1> QED
  BY <1>1, <1>2, <1>3, <1>4

LEMMA UpsertItemEffect ==
    ASSUME StoreTypeOK, NEW s \in StoreRequests, NEW c \in StoreConns, UpsertItem(s, c)
    PROVE  /\ storeReq[s].op = "upsert" /\ OnConn(s, c) /\ Lockable(s, storeReq[s].on)
           /\ \/ Refused(s) /\ RowsUnchanged
              \/ \E i \in storeReq[s].todo : \E items :
                   LET R == storeReq[s]
                       v == Version(s, R.on)
                   IN /\ \/ items = v.items
                         \/ items = v.items \cup {[item |-> i, tenant |-> Stamp(setting[c])]}
                      /\ Put(s, R.on, [v EXCEPT !.items = items])
                      /\ storeReq' = [storeReq EXCEPT ![s] = [R EXCEPT !.todo = R.todo \ {i}]]
           /\ Elsewhere /\ UNCHANGED overwrote
<1> DEFINE R == storeReq[s]
           v == Version(s, R.on)
<1>1. PICK i \in R.todo :
        LET there == {x \in v.items : x.item = i}
            stamp == Stamp(setting[c])
            new == [item |-> i, tenant |-> stamp]
        IN /\ OnConn(s, c) /\ R.op = "upsert" /\ Lockable(s, R.on)
           /\ \/ Refused(s) /\ RowsUnchanged
              \/ /\ Put(s, R.on, [v EXCEPT !.items = IF there = {} THEN @ \cup {new} ELSE @])
                 /\ storeReq' = [storeReq EXCEPT ![s].todo = @ \ {i}]
           /\ Elsewhere /\ UNCHANGED overwrote
  BY DEF UpsertItem
<1> DEFINE items == IF {x \in v.items : x.item = i} = {}
                    THEN v.items \cup {[item |-> i, tenant |-> Stamp(setting[c])]} ELSE v.items
<1>2. CASE Refused(s) /\ RowsUnchanged
  BY <1>1, <1>2
<1>3. CASE /\ Put(s, R.on, [v EXCEPT !.items = items])
           /\ storeReq' = [storeReq EXCEPT ![s].todo = @ \ {i}]
  <2>1. storeReq' = [storeReq EXCEPT ![s] = [R EXCEPT !.todo = R.todo \ {i}]]
    BY <1>3 DEF StoreTypeOK, StoreRequest
  <2>2. \/ items = v.items
        \/ items = v.items \cup {[item |-> i, tenant |-> Stamp(setting[c])]}
    OBVIOUS
  <2> HIDE DEF items
  <2> QED
    BY <1>1, <1>3, <2>1, <2>2
<1> QED
  BY <1>1, <1>2, <1>3

LEMMA DeleteEffect ==
    ASSUME StoreTypeOK, NEW s \in StoreRequests, NEW c \in StoreConns, DeleteRemovedItems(s, c)
    PROVE  /\ storeReq[s].op = "upsert" /\ OnConn(s, c) /\ Lockable(s, storeReq[s].on)
           /\ LET R == storeReq[s]
                  v == Version(s, R.on)
              IN /\ Put(s, R.on, [v EXCEPT !.items = {x \in v.items :
                                               \/ x.item \in R.keep
                                               \/ ~SeesRow(setting[c], v.table, x.tenant)},
                                           !.meant = v.meant \cap R.keep])
                 /\ storeReq' = [storeReq EXCEPT
                                   ![s] = [R EXCEPT !.op = "none", !.on = NoId, !.keep = {}]]
           /\ Elsewhere /\ UNCHANGED overwrote
<1>1. storeReq' = [storeReq EXCEPT ![s] = [storeReq[s] EXCEPT !.op = "none", !.on = NoId, !.keep = {}]]
  BY DEF DeleteRemovedItems, StoreTypeOK, StoreRequest
<1> QED
  BY <1>1 DEF DeleteRemovedItems

\* What the items of row id are to request s.
Loaded(s, c, id) ==
    [storeReq[s].got[id] EXCEPT
       !.items = {x \in Version(s, id).items : SeesRow(setting[c], Version(s, id).table, x.tenant)},
       !.meant = Version(s, id).meant]

LoadedRequest(s, c, ids) ==
    LET R == storeReq[s]
    IN [R EXCEPT !.got = [id \in StoreIds |-> IF id \notin ids THEN R.got[id] ELSE Loaded(s, c, id)],
                 !.unloaded = R.unloaded \ ids,
                 !.op = IF R.unloaded \subseteq ids THEN "none" ELSE R.op]

LEMMA SelectItemsEffect ==
    ASSUME StoreTypeOK, NEW s \in StoreRequests, NEW c \in StoreConns,
           NEW ids, SelectItems(s, c, ids)
    PROVE  /\ storeReq[s].op = "load" /\ OnConn(s, c)
           /\ storeReq' = [storeReq EXCEPT ![s] = LoadedRequest(s, c, ids)]
           /\ RowsUnchanged /\ Elsewhere /\ UNCHANGED overwrote
BY DEF SelectItems, Loaded, LoadedRequest, StoreTypeOK, StoreRequest

LEMMA StoreTypeStep ==
    ASSUME StoreTypeOK, OpsSound, NEW s \in StoreRequests, RequestStep(s)
    PROVE  StoreTypeOK'
<1> DEFINE R == storeReq[s]
<1>0. /\ R \in StoreRequest
      /\ R.scope \in StoreShops \cup {NoScope, Platform}
      /\ R.conn \in StoreConns \cup {NoConn} /\ R.on \in StoreIds \cup {NoId}
      /\ R.todo \in SUBSET StoreItems /\ R.keep \in SUBSET StoreItems
      /\ R.got \in [StoreIds -> StoreRow] /\ R.unloaded \in SUBSET StoreIds
  BY DEF StoreTypeOK, StoreRequest
<1>n. MaxStoreValue \in Nat /\ MaxStoreCalls \in Nat /\ MaxStoreFaults \in Nat
  BY StoreAssumption
<1>s. \A scope : Stamp(scope) \in StoreShops \cup {NoScope}
  BY StampIsOwner
<1>1. ASSUME NEW scope \in StoreShops \cup {NoScope, Platform}, OpenRequest(s, scope)
      PROVE  StoreTypeOK'
  <2>1. storeReq' \in [StoreRequests -> StoreRequest]
    BY <1>1, BlankTypes, RequestTypes DEF OpenRequest
  <2> QED
    BY <1>1, <1>n, <2>1 DEF OpenRequest, RowsUnchanged, StoreTypeOK
<1>2. CASE CloseRequest(s)
  <2>1. storeReq' \in [StoreRequests -> StoreRequest]
    BY <1>2, BlankTypes, RequestTypes DEF CloseRequest
  <2> QED
    BY <1>2, <2>1 DEF CloseRequest, RowsUnchanged, Elsewhere, StoreTypeOK
<1>3. ASSUME EndTx(s)
      PROVE  /\ setting' \in [StoreConns -> StoreShops \cup {NoScope, Platform}]
             /\ draft' \in [StoreIds -> StoreRow]
             /\ holder' \in [StoreIds -> StoreRequests \cup {NoTx}]
  BY <1>3, <1>0, BlankTypes DEF EndTx, InTx, StoreTypeOK
<1>4. CASE CommitTx(s)
  <2>1. [R EXCEPT !.conn = NoConn, !.locked = {}] \in StoreRequest
    BY <1>0 DEF StoreRequest
  <2>2. storeReq' = [storeReq EXCEPT ![s] = [R EXCEPT !.conn = NoConn, !.locked = {}]]
    BY <1>4 DEF CommitTx, StoreTypeOK
  <2>3. storeReq' \in [StoreRequests -> StoreRequest]
    BY <2>1, <2>2, RequestTypes
  <2>4. rows' \in [StoreIds -> StoreRow]
    BY <1>4, VersionHasType DEF CommitTx
  <2> QED
    BY <1>3, <1>4, <2>3, <2>4 DEF CommitTx, EndTx, StoreTypeOK
<1>5. CASE RollbackTx(s)
  <2>1. storeReq' \in [StoreRequests -> StoreRequest]
    BY <1>5, <1>0, BlankTypes, RequestTypes DEF RollbackTx, StoreTypeOK
  <2> QED
    BY <1>3, <1>5, <2>1 DEF RollbackTx, EndTx, StoreTypeOK
<1>6. CASE StoreFails(s)
  <2>1. storeReq' \in [StoreRequests -> StoreRequest]
    BY <1>6, <1>0, BlankTypes, RequestTypes DEF StoreFails, StoreTypeOK
  <2> QED
    BY <1>6, <1>n, <2>1 DEF StoreFails, RowsUnchanged, StoreTypeOK
<1>7. ASSUME NEW c \in StoreConns, BeginTx(s, c)
      PROVE  StoreTypeOK'
  <2>1. [R EXCEPT !.conn = c] \in StoreRequest
    BY <1>0 DEF StoreRequest
  <2>2. storeReq' = [storeReq EXCEPT ![s] = [R EXCEPT !.conn = c]]
    BY <1>7 DEF BeginTx, StoreTypeOK
  <2>3. storeReq' \in [StoreRequests -> StoreRequest]
    BY <2>1, <2>2, RequestTypes
  <2> QED
    BY <1>7, <1>0, <2>3 DEF BeginTx, RowsUnchanged, StoreTypeOK
<1>8. ASSUME NEW c \in StoreConns, NEW table \in StoreTables, NEW id \in StoreIds,
             NEW owner \in StoreShops \cup {NoScope}, NEW items \in SUBSET StoreItems,
             InsertRow(s, c, table, id, owner, items)
      PROVE  StoreTypeOK'
  <2> DEFINE r == [BlankRow EXCEPT !.table = table, !.tenant = owner,
                                   !.meant = IF InTx(s) THEN items ELSE {}, !.by = R.scope]
             q == [R EXCEPT !.op = "insert", !.on = id, !.todo = items]
  <2>1. r \in StoreRow
    BY <1>0, BlankTypes DEF StoreRow
  <2>2. q \in StoreRequest
    BY <1>0 DEF StoreRequest
  <2>3. CASE Passes(setting[c], table, owner)
    <3>1. Put(s, id, r)
      BY <1>8, <2>3 DEF InsertRow
    <3>2. \/ storeReq' = storeReq
          \/ storeReq' = [storeReq EXCEPT ![s] = q]
      BY <1>8, <2>3 DEF InsertRow, StoreTypeOK
    <3> HIDE DEF r, q
    <3>3. storeReq' \in [StoreRequests -> StoreRequest]
      BY <3>2, <2>2, RequestTypes DEF StoreTypeOK
    <3> QED
      BY <1>8, <2>1, <3>1, <3>3, PutTypes DEF InsertRow, Elsewhere, StoreTypeOK
  <2>4. CASE ~Passes(setting[c], table, owner)
    BY <1>8, <2>4, RefusedTypes DEF InsertRow, RowsUnchanged, Elsewhere, StoreTypeOK
  <2> QED  BY <2>3, <2>4
<1>9. ASSUME NEW table \in StoreTables, NEW ids \in SUBSET StoreIds,
             storeReq' = [storeReq EXCEPT ![s] = Fetched(s, table, ids)],
             RowsUnchanged, Elsewhere, UNCHANGED overwrote
      PROVE  StoreTypeOK'
  BY <1>9, FetchedType, RequestTypes DEF RowsUnchanged, Elsewhere, StoreTypeOK
<1>10. ASSUME NEW table \in StoreTables, NEW ids \in SUBSET StoreIds, Lock(s, ids),
              storeReq' = [storeReq EXCEPT
                            ![s] = [Fetched(s, table, ids) EXCEPT !.locked = @ \cup ids]],
              Elsewhere, UNCHANGED overwrote
       PROVE  StoreTypeOK'
  BY <1>10, FetchedType, RequestTypes, LockTypes DEF Elsewhere, StoreTypeOK
<1>11. ASSUME NEW c \in StoreConns, NEW table \in StoreTables, NEW id \in StoreIds,
              NEW owner \in StoreShops \cup {NoScope}, NEW keep \in SUBSET StoreItems,
              UpdateRow(s, c, table, id, owner, keep)
       PROVE  StoreTypeOK'
  <2> DEFINE v == Version(s, id)
             n == R.got[id].value + 1
             r == [v EXCEPT !.value = n, !.tenant = owner, !.by = R.scope]
             g == [R.got EXCEPT ![id] = [R.got[id] EXCEPT !.value = n]]
             o == IF table \in Pruned THEN "upsert" ELSE "none"
             i == IF table \in Pruned THEN id ELSE NoId
             k == IF table \in Pruned THEN keep ELSE {}
             q == [R EXCEPT !.got = g, !.op = o, !.on = i, !.todo = k, !.keep = k]
  <2>1. R.got[id] \in StoreRow /\ R.got[id].value \in 0 .. MaxStoreValue
    BY <1>0 DEF StoreRow
  <2>2. n \in 0 .. MaxStoreValue
    BY <1>11, <1>n, <2>1 DEF UpdateRow
  <2>3. v \in StoreRow
    BY VersionHasType
  <2>4. r \in StoreRow
    BY <1>0, <2>2, <2>3 DEF StoreRow
  <2>5. g \in [StoreIds -> StoreRow]
    <3>1. [R.got[id] EXCEPT !.value = n] \in StoreRow
      BY <2>1, <2>2 DEF StoreRow
    <3> QED  BY <3>1, <1>0
  <2>6. q \in StoreRequest
    <3>1. o \in {"none", "upsert"} /\ i \in StoreIds \cup {NoId} /\ k \in SUBSET StoreItems
      OBVIOUS
    <3> HIDE DEF g, o, i, k
    <3> QED  BY <1>0, <2>5, <3>1 DEF StoreRequest
  <2>7. storeReq' = [storeReq EXCEPT ![s] = q]
    BY <1>11, <1>0 DEF UpdateRow, StoreTypeOK, StoreRequest
  <2>8. storeReq' \in [StoreRequests -> StoreRequest]
    BY <2>6, <2>7, RequestTypes
  <2>9. Put(s, id, r) \/ RowsUnchanged
    BY <1>11 DEF UpdateRow
  <2>10. overwrote' \in BOOLEAN
    BY <1>11 DEF UpdateRow
  <2> HIDE DEF r
  <2> QED
    BY <1>11, <2>4, <2>8, <2>9, <2>10, PutTypes DEF UpdateRow, RowsUnchanged, Elsewhere, StoreTypeOK
<1>12. ASSUME NEW r \in StoreRow, NEW q \in StoreRequest, R.on \in StoreIds, Put(s, R.on, r),
              storeReq' = [storeReq EXCEPT ![s] = q], Elsewhere, UNCHANGED overwrote
       PROVE  StoreTypeOK'
  <2>1. storeReq' \in [StoreRequests -> StoreRequest]
    BY <1>12, RequestTypes
  <2> QED
    BY <1>12, <2>1, PutTypes DEF Elsewhere, StoreTypeOK
<1>13. ASSUME NEW c \in StoreConns, ItemStep(s, c)
       PROVE  StoreTypeOK'
  <2> DEFINE v == Version(s, R.on)
  <2>0. ASSUME R.op \in {"insert", "upsert"}
        PROVE  R.on \in StoreIds /\ v \in StoreRow
    BY <2>0, VersionHasType DEF OpsSound
  <2>a. ASSUME NEW i \in R.todo, R.op \in {"insert", "upsert"}
        PROVE  /\ v.items \cup {[item |-> i, tenant |-> Stamp(setting[c])]}
                     \in SUBSET [item : StoreItems, tenant : StoreShops \cup {NoScope}]
               /\ Names(v.items \cup {[item |-> i, tenant |-> Stamp(setting[c])]}) \in SUBSET StoreItems
    <3>1. [item |-> i, tenant |-> Stamp(setting[c])]
             \in [item : StoreItems, tenant : StoreShops \cup {NoScope}]
      BY <1>0, <1>s, <2>a
    <3>2. v.items \in SUBSET [item : StoreItems, tenant : StoreShops \cup {NoScope}]
      BY <2>0, <2>a DEF StoreRow
    <3> QED  BY <3>1, <3>2 DEF Names
  <2>1. CASE InsertItem(s, c)
    <3>0. PICK i \in R.todo : \E meant :
            LET items == v.items \cup {[item |-> i, tenant |-> Stamp(setting[c])]}
                op == IF R.todo = {i} THEN "none" ELSE R.op
            IN /\ meant = v.meant \/ (~InTx(s) /\ meant = Names(items))
               /\ Put(s, R.on, [v EXCEPT !.items = items, !.meant = meant])
               /\ storeReq' = [storeReq EXCEPT
                                 ![s] = [R EXCEPT !.todo = R.todo \ {i}, !.op = op]]
      BY <2>1, InsertItemEffect
    <3>1. PICK meant :
            LET items == v.items \cup {[item |-> i, tenant |-> Stamp(setting[c])]}
                op == IF R.todo = {i} THEN "none" ELSE R.op
            IN /\ meant = v.meant \/ (~InTx(s) /\ meant = Names(items))
               /\ Put(s, R.on, [v EXCEPT !.items = items, !.meant = meant])
               /\ storeReq' = [storeReq EXCEPT
                                 ![s] = [R EXCEPT !.todo = R.todo \ {i}, !.op = op]]
      BY <3>0
    <3>2. R.op = "insert" /\ Elsewhere /\ UNCHANGED overwrote
      BY <2>1, InsertItemEffect
    <3> DEFINE items == v.items \cup {[item |-> i, tenant |-> Stamp(setting[c])]}
               op == IF R.todo = {i} THEN "none" ELSE R.op
    <3>3. items \in SUBSET [item : StoreItems, tenant : StoreShops \cup {NoScope}]
      BY <2>a, <3>2
    <3>4. meant \in SUBSET StoreItems
      BY <2>0, <2>a, <3>1, <3>2 DEF StoreRow
    <3>5. op \in {"none", "insert"}
      BY <3>2
    <3>6. [R EXCEPT !.todo = R.todo \ {i}, !.op = op] \in StoreRequest
      BY <1>0, <3>5 DEF StoreRequest
    <3>7. Put(s, R.on, [v EXCEPT !.items = items, !.meant = meant])
      BY <3>1
    <3> HIDE DEF items, op
    <3>8. [v EXCEPT !.items = items, !.meant = meant] \in StoreRow
      BY <2>0, <3>2, <3>3, <3>4 DEF StoreRow
    <3>9. storeReq' = [storeReq EXCEPT ![s] = [R EXCEPT !.todo = R.todo \ {i}, !.op = op]]
      BY <3>1 DEF op
    <3> QED
      BY <1>12, <2>0, <3>2, <3>6, <3>7, <3>8, <3>9
  <2>2. CASE UpsertItem(s, c)
    <3>1. R.op = "upsert" /\ Elsewhere /\ UNCHANGED overwrote
      BY <2>2, UpsertItemEffect
    <3>2. CASE Refused(s) /\ RowsUnchanged
      BY <3>1, <3>2, RefusedTypes DEF RowsUnchanged, Elsewhere, StoreTypeOK
    <3>3. ASSUME NEW i \in R.todo, NEW items,
                 \/ items = v.items
                 \/ items = v.items \cup {[item |-> i, tenant |-> Stamp(setting[c])]},
                 Put(s, R.on, [v EXCEPT !.items = items]),
                 storeReq' = [storeReq EXCEPT ![s] = [R EXCEPT !.todo = R.todo \ {i}]]
          PROVE  StoreTypeOK'
      <4>1. items \in SUBSET [item : StoreItems, tenant : StoreShops \cup {NoScope}]
        BY <2>0, <2>a, <3>1, <3>3 DEF StoreRow
      <4>2. [R EXCEPT !.todo = R.todo \ {i}] \in StoreRequest
        BY <1>0 DEF StoreRequest
      <4>3. [v EXCEPT !.items = items] \in StoreRow
        BY <2>0, <3>1, <4>1 DEF StoreRow
      <4> QED
        BY <1>12, <2>0, <3>1, <3>3, <4>2, <4>3
    <3> QED
      BY <2>2, <3>2, <3>3, UpsertItemEffect
  <2>3. CASE DeleteRemovedItems(s, c)
    <3> DEFINE items == {x \in v.items : \/ x.item \in R.keep
                                         \/ ~SeesRow(setting[c], v.table, x.tenant)}
    <3>1. /\ R.op = "upsert" /\ Elsewhere /\ UNCHANGED overwrote
          /\ Put(s, R.on, [v EXCEPT !.items = items, !.meant = v.meant \cap R.keep])
          /\ storeReq' = [storeReq EXCEPT
                            ![s] = [R EXCEPT !.op = "none", !.on = NoId, !.keep = {}]]
      BY <2>3, DeleteEffect
    <3>2. items \subseteq v.items
      OBVIOUS
    <3> HIDE DEF items
    <3>3. [v EXCEPT !.items = items, !.meant = v.meant \cap R.keep] \in StoreRow
      BY <2>0, <3>1, <3>2 DEF StoreRow
    <3>4. [R EXCEPT !.op = "none", !.on = NoId, !.keep = {}] \in StoreRequest
      BY <1>0 DEF StoreRequest
    <3> QED
      BY <1>12, <2>0, <3>1, <3>3, <3>4
  <2>4. ASSUME NEW ids \in SUBSET R.unloaded, SelectItems(s, c, ids)
        PROVE  StoreTypeOK'
    <3> DEFINE got == [id \in StoreIds |-> IF id \notin ids THEN R.got[id] ELSE Loaded(s, c, id)]
               op == IF R.unloaded \subseteq ids THEN "none" ELSE R.op
    <3>1. /\ R.op = "load" /\ RowsUnchanged /\ Elsewhere /\ UNCHANGED overwrote
          /\ storeReq' = [storeReq EXCEPT ![s] = LoadedRequest(s, c, ids)]
      BY <2>4, SelectItemsEffect
    <3>2. ASSUME NEW id \in StoreIds
          PROVE  Loaded(s, c, id) \in StoreRow
      BY <1>0, VersionHasType DEF Loaded, StoreRow
    <3>3. got \in [StoreIds -> StoreRow]
      BY <1>0, <3>2
    <3>4. op \in {"none", "load"}
      BY <3>1
    <3>5. LoadedRequest(s, c, ids) = [R EXCEPT !.got = got, !.unloaded = R.unloaded \ ids, !.op = op]
      BY DEF LoadedRequest
    <3> HIDE DEF got, op
    <3>6. LoadedRequest(s, c, ids) \in StoreRequest
      BY <1>0, <3>3, <3>4, <3>5 DEF StoreRequest
    <3> QED
      BY <3>1, <3>6, RequestTypes DEF RowsUnchanged, Elsewhere, StoreTypeOK
  <2> QED
    BY <1>13, <2>1, <2>2, <2>3, <2>4 DEF ItemStep
<1>14. ASSUME NEW c \in StoreConns, NEW table \in StoreTables, TableStep(s, c, table)
       PROVE  StoreTypeOK'
  <2>1. ASSUME NEW id \in StoreIds, RowStep(s, c, table, id)
        PROVE  StoreTypeOK'
    <3>1. CASE SelectRow(s, c, table, id)
      BY <1>9, <3>1 DEF SelectRow
    <3>2. CASE SelectForUpdate(s, c, table, id)
      BY <1>10, <3>2 DEF SelectForUpdate
    <3> QED
      BY <1>8, <1>11, <2>1, <3>1, <3>2 DEF RowStep
  <2>2. CASE SelectRows(s, c, table)
    <3>1. PICK ids \in SUBSET Visible(s, c, table) :
            storeReq' = [storeReq EXCEPT ![s] = Fetched(s, table, ids)]
      BY <2>2 DEF SelectRows
    <3> QED
      BY <1>9, <2>2, <3>1 DEF SelectRows, Visible
  <2>3. CASE SelectSkipLocked(s, c, table)
    <3>1. PICK ids \in SUBSET {id \in Visible(s, c, table) : Lockable(s, id)} :
            /\ Lock(s, ids)
            /\ storeReq' = [storeReq EXCEPT
                 ![s] = [Fetched(s, table, ids) EXCEPT !.locked = @ \cup ids]]
      BY <2>3 DEF SelectSkipLocked
    <3>2. ids \in SUBSET StoreIds
      BY DEF Visible
    <3> QED
      BY <1>10, <2>3, <3>1, <3>2 DEF SelectSkipLocked
  <2> QED
    BY <1>14, <2>1, <2>2, <2>3 DEF TableStep
<1> QED
  BY <1>1, <1>2, <1>4, <1>5, <1>6, <1>7, <1>13, <1>14 DEF RequestStep

-----------------------------------------------------------------------------
(***************************************************************************)
(* What a step does to the invariant: first the steps that write a row.    *)
(***************************************************************************)
LEMMA FollowsItself ==
    \A r : Follows(r, r)
BY DEF Follows

LEMMA FollowsOn ==
    \A a, b, c : Follows(b, a) /\ Follows(c, b) => Follows(c, a)
BY DEF Follows

LEMMA TablesApart ==
    /\ "none" \notin StoreTables /\ "none" \notin Shared /\ "none" \notin Stamped
    /\ Shared \cap Stamped = {} /\ Shared \cap GivenTenant = {} /\ Stamped \cap GivenTenant = {}
    /\ "invoices" \in Stamped /\ Pruned \subseteq WithItems /\ "invoices" \notin Pruned
    /\ Shared \subseteq Pruned /\ Pruned \cap GivenTenant = {} /\ "plans" \in Shared
    /\ \A t \in Shared : t = "plans"
BY DEF StoreTables, Stamped, GivenTenant, Shared, WithItems, Pruned

LEMMA SpecialValues ==
    /\ NoScope \notin StoreShops /\ Platform \notin StoreShops /\ NoScope # Platform
    /\ NoConn \notin StoreConns /\ NoTx \notin StoreRequests /\ NoId \notin StoreIds
BY StoreAssumption DEF NoScope, Platform

\* Request s goes on with the connection and the scope it has.
LEMMA SameConns ==
    ASSUME StoreTypeOK, ConnsApart, NEW s \in StoreRequests, NEW q \in StoreRequest,
           storeReq' = [storeReq EXCEPT ![s] = q], UNCHANGED setting,
           q.at # "closed", q.conn = storeReq[s].conn, q.scope = storeReq[s].scope
    PROVE  /\ ConnsApart'
           /\ \A t \in StoreRequests : InTx(t)' <=> InTx(t)
           /\ \A t \in StoreRequests : storeReq'[t].scope = storeReq[t].scope
           /\ \A t \in StoreRequests \ {s} : storeReq'[t] = storeReq[t]
           /\ storeReq'[s] = q
<1>1. /\ \A t \in StoreRequests : storeReq'[t].conn = storeReq[t].conn
      /\ \A t \in StoreRequests : storeReq'[t].scope = storeReq[t].scope
      /\ \A t \in StoreRequests \ {s} : storeReq'[t] = storeReq[t]
      /\ storeReq'[s] = q
  BY DEF StoreTypeOK
<1>2. \A t \in StoreRequests : InTx(t)' <=> InTx(t)
  BY <1>1 DEF InTx
<1>3. Taken' = Taken
  BY <1>1 DEF Taken
<1>4. \A t \in StoreRequests : storeReq'[t].at = "closed" => storeReq[t].at = "closed" /\ t # s
  BY <1>1
<1> QED
  BY <1>1, <1>2, <1>3, <1>4 DEF ConnsApart

LEMMA PutKeeps ==
    ASSUME StoreInv, StoreTypeOK',
           NEW s \in StoreRequests, NEW id \in StoreIds, NEW r \in StoreRow, NEW q \in StoreRequest,
           Put(s, id, r), storeReq' = [storeReq EXCEPT ![s] = q], UNCHANGED setting, ~overwrote',
           Lockable(s, id),
           \* the row
           r.table # "none", r.table \in Shared <=> ~InTx(s),
           RowSound(r), Follows(r, Version(s, id)),
           r.table = "invoices" =>
             Names(r.items) = r.meant \ (IF q.op = "insert" /\ q.on = id THEN q.todo ELSE {}),
           \* the request
           q.at # "closed", q.conn = storeReq[s].conn, q.scope = storeReq[s].scope,
           q.locked = storeReq[s].locked,
           storeReq[s].op = "insert" => storeReq[s].on = id,
           q.op # "none" => q.on = id,
           q.op # "load", q.unloaded = {},
           q.op = "upsert" => r.table \in Pruned,
           q.op = "insert" /\ r.table = "invoices" =>
             q.todo \subseteq r.meant /\ r.tenant = Stamp(storeReq[s].scope),
           storeReq[s].unloaded = {},
           \A j \in StoreIds : q.got[j] = [storeReq[s].got[j] EXCEPT !.value = q.got[j].value],
           \A j \in StoreIds \ {id} : q.got[j].value = storeReq[s].got[j].value,
           \/ q.got[id].value = r.value
           \/ q.got[id].value = storeReq[s].got[id].value /\ r.value = Version(s, id).value
    PROVE  StoreInv'
<1> DEFINE R == storeReq[s]
<1>t. StoreTypeOK /\ ConnsApart /\ RowsSound /\ ReadsSound /\ OpsSound /\ LocksSound
  BY DEF StoreInv
<1>0. /\ rows \in [StoreIds -> StoreRow] /\ draft \in [StoreIds -> StoreRow]
      /\ holder \in [StoreIds -> StoreRequests \cup {NoTx}]
      /\ R \in StoreRequest /\ R.got \in [StoreIds -> StoreRow] /\ R.on \in StoreIds \cup {NoId}
  BY <1>t DEF StoreTypeOK, StoreRequest
<1>1. /\ ConnsApart'
      /\ \A t \in StoreRequests : InTx(t)' <=> InTx(t)
      /\ \A t \in StoreRequests : storeReq'[t].scope = storeReq[t].scope
      /\ \A t \in StoreRequests \ {s} : storeReq'[t] = storeReq[t]
      /\ storeReq'[s] = q
  BY <1>t, SameConns
\* Who holds what.
<1>2. \A j \in StoreIds : holder[j] = s => InTx(s)
  BY <1>t DEF RowsSound
<1>3. /\ \A j \in StoreIds : \A t \in StoreRequests \ {s} : holder'[j] = t <=> holder[j] = t
      /\ \A j \in StoreIds \ {id} : holder'[j] = holder[j] /\ draft'[j] = draft[j] /\ rows'[j] = rows[j]
      /\ \A j \in StoreIds : holder[j] = s => holder'[j] = s
      /\ \A t \in StoreRequests \ {s} : holder[id] # t /\ holder'[id] # t
  BY <1>0, SpecialValues DEF Put, Lockable
<1>4. /\ Version(s, id)' = r
      /\ InTx(s) => rows' = rows /\ draft'[id] = r /\ holder'[id] = s
      /\ ~InTx(s) => rows'[id] = r /\ draft' = draft /\ holder' = holder
                     /\ holder[id] # s /\ holder[id] = NoTx /\ Version(s, id) = rows[id]
  BY <1>0, <1>2 DEF Put, Version, Lockable
\* Every version that a request sees follows the one before.
<1>5. /\ \A j \in StoreIds \ {id} : \A t \in StoreRequests : Version(t, j)' = Version(t, j)
      /\ \A t \in StoreRequests \ {s} : Version(t, id) = rows[id] /\ Version(t, id)' = rows'[id]
  BY <1>3 DEF Version
<1>6. Follows(rows'[id], rows[id])
  BY <1>4, FollowsItself
<1>7. \A t \in StoreRequests, j \in StoreIds : Follows(Version(t, j)', Version(t, j))
  BY <1>4, <1>5, <1>6, FollowsItself
<1>8. RowsSound'
  <2>1. ASSUME NEW j \in StoreIds \ {id}, NEW t \in StoreRequests, holder'[j] = t
        PROVE  Missing(t, j)' = Missing(t, j)
    <3>1. CASE t = s
      BY <1>1, <3>1, <2>1 DEF Missing
    <3> QED
      BY <1>1, <3>1, <2>1 DEF Missing
  <2>2. ASSUME NEW j \in StoreIds \ {id}
        PROVE  /\ RowSound(rows'[j])
               /\ rows'[j].table = "invoices" => Names(rows'[j].items) = rows'[j].meant
               /\ \A t \in StoreRequests : holder'[j] = t =>
                    /\ InTx(t)'
                    /\ RowSound(draft'[j])
                    /\ Follows(draft'[j], rows'[j])
                    /\ draft'[j].table \notin Shared
                    /\ draft'[j].table = "invoices" =>
                         Names(draft'[j].items) = draft'[j].meant \ Missing(t, j)'
    BY <1>1, <1>3, <1>t, <2>1 DEF RowsSound
  <2>3. CASE InTx(s)
    <3>1. Missing(s, id)' = IF q.op = "insert" /\ q.on = id THEN q.todo ELSE {}
      BY <1>1 DEF Missing
    <3>2. Follows(r, rows[id])
      <4>1. CASE holder[id] = s
        BY <4>1, <1>t, FollowsOn DEF Version, RowsSound
      <4>2. CASE holder[id] # s
        BY <4>2 DEF Version
      <4> QED  BY <4>1, <4>2
    <3>3. /\ RowSound(rows'[id])
          /\ rows'[id].table = "invoices" => Names(rows'[id].items) = rows'[id].meant
      BY <1>4, <1>t, <2>3 DEF RowsSound
    <3>4. ASSUME NEW t \in StoreRequests, holder'[id] = t
          PROVE  /\ InTx(t)'
                 /\ RowSound(draft'[id])
                 /\ Follows(draft'[id], rows'[id])
                 /\ draft'[id].table \notin Shared
                 /\ draft'[id].table = "invoices" =>
                      Names(draft'[id].items) = draft'[id].meant \ Missing(t, id)'
      <4>1. t = s
        BY <3>4, <1>4, <2>3
      <4> QED
        BY <4>1, <1>1, <1>4, <2>3, <3>1, <3>2
    <3> QED
      BY <2>2, <3>3, <3>4 DEF RowsSound
  <2>4. CASE ~InTx(s)
    <3>1. r.table \in Shared /\ r.table # "invoices"
      BY <2>4, TablesApart
    <3>2. \A t \in StoreRequests : holder'[id] # t
      BY <1>4, <2>4, SpecialValues
    <3> QED
      BY <1>4, <2>2, <2>4, <3>1, <3>2 DEF RowsSound
  <2> QED  BY <2>3, <2>4
<1>g. ASSUME NEW j \in StoreIds
      PROVE  /\ q.got[j].table = R.got[j].table /\ q.got[j].tenant = R.got[j].tenant
             /\ q.got[j].items = R.got[j].items /\ q.got[j].meant = R.got[j].meant
  <2>1. R.got[j] \in StoreRow
    BY <1>0
  <2> QED
    BY <2>1 DEF StoreRow
<1>9. ReadsSound'
  <2>1. ASSUME NEW t \in StoreRequests \ {s}, NEW j \in StoreIds
        PROVE  Follows(Version(t, j)', storeReq[t].got[j])
    BY <2>1, <1>7, <1>t, FollowsOn DEF ReadsSound
  <2>2. ASSUME NEW j \in StoreIds
        PROVE  Follows(Version(s, j)', R.got[j])
    BY <2>2, <1>7, <1>t, FollowsOn DEF ReadsSound
  <2>4. ASSUME NEW t \in StoreRequests \ {s}
        PROVE  /\ storeReq'[t].op # "load" => storeReq'[t].unloaded = {}
               /\ \A j \in StoreIds :
                    LET g == storeReq'[t].got[j]
                    IN /\ Follows(Version(t, j)', g)
                       /\ g.table \in Shared \cup {"none"} \/ storeReq'[t].scope = Platform
                            \/ /\ storeReq'[t].scope \in StoreShops
                               /\ g.tenant = storeReq'[t].scope
                               /\ \A x \in g.items : x.tenant = storeReq'[t].scope
                       /\ j \in storeReq'[t].unloaded /\ g.table \notin Shared => InTx(t)'
                       /\ j \notin storeReq'[t].unloaded =>
                            /\ g.table = "invoices" => Names(g.items) = g.meant
                            /\ g.table \in Shared => g.meant \subseteq Names(g.items)
    BY <1>1, <1>t, <2>1, <2>4 DEF ReadsSound
  <2>5. ASSUME NEW j \in StoreIds
        PROVE  LET g == q.got[j]
               IN /\ Follows(Version(s, j)', g)
                  /\ g.table \in Shared \cup {"none"} \/ q.scope = Platform
                       \/ /\ q.scope \in StoreShops
                          /\ g.tenant = q.scope
                          /\ \A x \in g.items : x.tenant = q.scope
                  /\ g.table = "invoices" => Names(g.items) = g.meant
                  /\ g.table \in Shared => g.meant \subseteq Names(g.items)
    <3>1. Follows(Version(s, j)', q.got[j])
      BY <2>2, <1>g DEF Follows
    <3> QED
      BY <3>1, <1>g, <1>t DEF ReadsSound
  <2> QED
    BY <2>4, <2>5, <1>1 DEF ReadsSound
<1>10. OpsSound'
  <2>1. ASSUME NEW t \in StoreRequests \ {s}, NEW j \in StoreIds,
               storeReq[t].op \in {"insert", "upsert"}, storeReq[t].on = j
        PROVE  /\ Version(t, j)'.table = Version(t, j).table
               /\ storeReq[t].op = "insert" /\ InTx(t) =>
                    holder'[j] = t /\ Version(t, j)' = Version(t, j)
    <3>1. Version(t, j).table # "none"
      BY <1>t, <2>1 DEF OpsSound
    <3>2. storeReq[t].op = "insert" /\ InTx(t) => holder[j] = t
      BY <1>t, <2>1 DEF OpsSound
    <3>3. Follows(Version(t, j)', Version(t, j))
      BY <1>7
    <3> QED
      BY <3>1, <3>2, <3>3, <1>3, <1>5 DEF Follows
  <2>2. ASSUME NEW t \in StoreRequests \ {s}, NEW j \in StoreIds,
               storeReq[t].op \in {"insert", "upsert"}, storeReq[t].on = j
        PROVE  /\ Version(t, j)'.table # "none"
               /\ Version(t, j)'.table \in Shared <=> ~InTx(t)
               /\ storeReq[t].op = "upsert" => Version(t, j)'.table \in Pruned
               /\ storeReq[t].op = "insert" /\ InTx(t) => holder'[j] = t
               /\ storeReq[t].op = "insert" /\ Version(t, j)'.table = "invoices" =>
                    /\ storeReq[t].todo \subseteq Version(t, j)'.meant
                    /\ Version(t, j)'.tenant = Stamp(storeReq[t].scope)
    <3>1. "invoices" \notin Shared
      BY TablesApart
    <3> QED
      BY <2>1, <2>2, <3>1, <1>t DEF OpsSound
  <2>3. ASSUME q.op \in {"insert", "upsert"}
        PROVE  /\ q.on = id
               /\ Version(s, id)'.table # "none"
               /\ Version(s, id)'.table \in Shared <=> ~InTx(s)
               /\ q.op = "upsert" => Version(s, id)'.table \in Pruned
               /\ q.op = "insert" /\ InTx(s) => holder'[id] = s
               /\ q.op = "insert" /\ Version(s, id)'.table = "invoices" =>
                    /\ q.todo \subseteq Version(s, id)'.meant
                    /\ Version(s, id)'.tenant = Stamp(q.scope)
    BY <2>3, <1>4
  <2> QED
    BY <2>2, <2>3, <1>1, <1>t DEF OpsSound
<1>11. LocksSound'
  <2>1. ASSUME NEW t \in StoreRequests \ {s}, NEW j \in storeReq[t].locked
        PROVE  /\ holder'[j] = t
               /\ storeReq[t].got[j].table # "none" => storeReq[t].got[j].value = draft'[j].value
    <3>1. j \in StoreIds /\ holder[j] = t
      BY <1>t, <2>1 DEF LocksSound, StoreTypeOK, StoreRequest
    <3>2. j # id
      BY <3>1, <1>3
    <3> QED
      BY <3>1, <3>2, <1>3, <1>t DEF LocksSound
  <2>2. ASSUME NEW j \in R.locked
        PROVE  /\ holder'[j] = s
               /\ q.got[j].table # "none" => q.got[j].value = draft'[j].value
    <3>1. j \in StoreIds /\ holder[j] = s
      BY <1>t, <2>2 DEF LocksSound, StoreTypeOK, StoreRequest
    <3>2. R.got[j].table # "none" => R.got[j].value = draft[j].value
      BY <1>t, <2>2 DEF LocksSound
    <3>3. q.got[j].table = R.got[j].table
      BY <1>g, <3>1
    <3>4. CASE j # id
      BY <3>1, <3>2, <3>3, <3>4, <1>3
    <3>5. CASE j = id
      <4>1. draft'[id] = r /\ Version(s, id) = draft[id]
        BY <3>1, <3>5, <1>2, <1>4 DEF Version
      <4> QED
        BY <3>1, <3>2, <3>3, <3>5, <4>1, <1>3
    <3> QED  BY <3>4, <3>5
  <2> QED
    BY <2>1, <2>2, <1>1 DEF LocksSound
<1> QED
  BY <1>1, <1>8, <1>9, <1>10, <1>11 DEF StoreInv

-----------------------------------------------------------------------------
(***************************************************************************)
(* The steps that only read.                                               *)
(***************************************************************************)
\* What a request may have in its hands of row id.
GotSound(s, id, q) ==
    LET g == q.got[id]
    IN /\ Follows(Version(s, id), g)
       /\ g.table \in Shared \cup {"none"} \/ q.scope = Platform
            \/ /\ q.scope \in StoreShops
               /\ g.tenant = q.scope
               /\ \A x \in g.items : x.tenant = q.scope
       /\ id \in q.unloaded /\ g.table \notin Shared => InTx(s)
       /\ id \notin q.unloaded =>
            /\ g.table = "invoices" => Names(g.items) = g.meant
            /\ g.table \in Shared => g.meant \subseteq Names(g.items)

LEMMA RequestKeeps ==
    ASSUME StoreInv, StoreTypeOK', NEW s \in StoreRequests, NEW q \in StoreRequest,
           RowsUnchanged, storeReq' = [storeReq EXCEPT ![s] = q], UNCHANGED <<setting, overwrote>>,
           q.at # "closed", q.conn = storeReq[s].conn, q.scope = storeReq[s].scope,
           q.op \in {"insert", "upsert"} =>
             q.op = storeReq[s].op /\ q.on = storeReq[s].on /\ q.todo = storeReq[s].todo,
           storeReq[s].op = "insert" /\ InTx(s) => q.op = "insert",
           q.locked \subseteq storeReq[s].locked,
           \A j \in q.locked : q.got[j].table # "none" => q.got[j].value = draft[j].value,
           q.op # "load" => q.unloaded = {},
           \A j \in StoreIds : GotSound(s, j, q)
    PROVE  StoreInv'
<1> DEFINE R == storeReq[s]
<1>t. StoreTypeOK /\ ConnsApart /\ RowsSound /\ ReadsSound /\ OpsSound /\ LocksSound
  BY DEF StoreInv
<1>1. /\ ConnsApart'
      /\ \A t \in StoreRequests : InTx(t)' <=> InTx(t)
      /\ \A t \in StoreRequests : storeReq'[t].scope = storeReq[t].scope
      /\ \A t \in StoreRequests \ {s} : storeReq'[t] = storeReq[t]
      /\ storeReq'[s] = q
  BY <1>t, SameConns
<1>2. rows' = rows /\ draft' = draft /\ holder' = holder
  BY DEF RowsUnchanged
<1>3. \A t \in StoreRequests, j \in StoreIds : Version(t, j)' = Version(t, j)
  BY <1>2 DEF Version
<1>4. RowsSound'
  <2>1. ASSUME NEW j \in StoreIds, NEW t \in StoreRequests, holder[j] = t
        PROVE  Missing(t, j)' = Missing(t, j)
    <3>1. InTx(t)
      BY <1>t, <2>1 DEF RowsSound
    <3>2. CASE t = s
      BY <1>1, <3>1, <3>2 DEF Missing
    <3> QED
      BY <1>1, <3>2 DEF Missing
  <2> QED
    BY <1>1, <1>2, <1>t, <2>1 DEF RowsSound
<1>5. ReadsSound'
  <2>1. ASSUME NEW t \in StoreRequests \ {s}, NEW j \in StoreIds
        PROVE  GotSound(t, j, storeReq[t])
    BY <1>t, <2>1 DEF ReadsSound, GotSound
  <2>2. ASSUME NEW t \in StoreRequests, NEW j \in StoreIds
        PROVE  \E r : r = storeReq'[t] /\ GotSound(t, j, r)
    BY <2>1, <1>1
  <2>3. ASSUME NEW t \in StoreRequests, NEW j \in StoreIds, NEW r, r = storeReq'[t],
               GotSound(t, j, r)
        PROVE  LET g == storeReq'[t].got[j]
               IN /\ Follows(Version(t, j)', g)
                  /\ g.table \in Shared \cup {"none"} \/ storeReq'[t].scope = Platform
                       \/ /\ storeReq'[t].scope \in StoreShops
                          /\ g.tenant = storeReq'[t].scope
                          /\ \A x \in g.items : x.tenant = storeReq'[t].scope
                  /\ j \in storeReq'[t].unloaded /\ g.table \notin Shared => InTx(t)'
                  /\ j \notin storeReq'[t].unloaded =>
                       /\ g.table = "invoices" => Names(g.items) = g.meant
                       /\ g.table \in Shared => g.meant \subseteq Names(g.items)
    BY <2>3, <1>1, <1>3 DEF GotSound
  <2>4. ASSUME NEW t \in StoreRequests
        PROVE  storeReq'[t].op # "load" => storeReq'[t].unloaded = {}
    BY <1>1, <1>t, <2>4 DEF ReadsSound
  <2> QED
    BY <2>2, <2>3, <2>4 DEF ReadsSound
<1>6. OpsSound'
  <2>1. ASSUME NEW t \in StoreRequests \ {s}
        PROVE  storeReq'[t] = storeReq[t]
    BY <1>1
  <2>2. q.op \in {"insert", "upsert"} =>
          storeReq'[s].op = R.op /\ storeReq'[s].on = R.on /\ storeReq'[s].todo = R.todo
    BY <1>1
  <2>3. storeReq'[s].op = q.op /\ storeReq'[s].scope = R.scope
    BY <1>1
  <2> QED
    BY <1>1, <1>2, <1>3, <1>t, <2>1, <2>2, <2>3 DEF OpsSound
<1>7. LocksSound'
  BY <1>1, <1>2, <1>t DEF LocksSound
<1> QED
  BY <1>1, <1>4, <1>5, <1>6, <1>7 DEF StoreInv

\* A request that starts anew has nothing in its hands.
LEMMA OpenedSound ==
    ASSUME NEW s \in StoreRequests, NEW scope
    PROVE  /\ \A j \in StoreIds : GotSound(s, j, Opened(scope))
           /\ Opened(scope).at = "open" /\ Opened(scope).scope = scope
           /\ Opened(scope).op = "none" /\ Opened(scope).unloaded = {}
           /\ Opened(scope).locked = {} /\ Opened(scope).conn = NoConn
BY TablesApart DEF Opened, Closed, GotSound, NothingRead, BlankRow, Follows

LEMMA RefusedKeeps ==
    ASSUME StoreInv, StoreTypeOK', NEW s \in StoreRequests, Refused(s), RowsUnchanged,
           UNCHANGED <<setting, overwrote>>
    PROVE  StoreInv'
<1> DEFINE R == storeReq[s]
<1>t. StoreTypeOK /\ ConnsApart /\ RowsSound /\ ReadsSound /\ OpsSound /\ LocksSound
  BY DEF StoreInv
<1>0. R \in StoreRequest /\ R.scope \in StoreShops \cup {NoScope, Platform}
      /\ R.conn \in StoreConns \cup {NoConn}
  BY <1>t DEF StoreTypeOK, StoreRequest
<1>1. CASE InTx(s)
  <2> DEFINE q == [R EXCEPT !.at = "failed"]
  <2>1. q \in StoreRequest
    BY <1>0 DEF StoreRequest
  <2>2. storeReq' = [storeReq EXCEPT ![s] = q]
    BY <1>1, <1>t DEF Refused, StoreTypeOK
  <2>3. /\ q.at = "failed" /\ q.conn = R.conn /\ q.scope = R.scope /\ q.op = R.op /\ q.on = R.on
        /\ q.todo = R.todo /\ q.locked = R.locked /\ q.got = R.got /\ q.unloaded = R.unloaded
    BY <1>0 DEF StoreRequest
  <2>4. \A j \in StoreIds : GotSound(s, j, q)
    BY <1>t, <2>3 DEF ReadsSound, GotSound
  <2>5. /\ \A j \in q.locked : q.got[j].table # "none" => q.got[j].value = draft[j].value
        /\ q.op # "load" => q.unloaded = {}
    BY <1>t, <2>3 DEF ReadsSound, LocksSound
  <2> HIDE DEF q
  <2> QED
    BY <2>1, <2>2, <2>3, <2>4, <2>5, RequestKeeps
<1>2. CASE ~InTx(s)
  <2> DEFINE q == Opened(R.scope)
  <2>1. q \in StoreRequest
    BY <1>0, BlankTypes
  <2>2. storeReq' = [storeReq EXCEPT ![s] = q]
    BY <1>2, <1>t DEF Refused, StoreTypeOK
  <2>3. /\ q.at = "open" /\ q.scope = R.scope /\ q.op = "none" /\ q.unloaded = {}
        /\ q.locked = {} /\ q.conn = NoConn /\ \A j \in StoreIds : GotSound(s, j, q)
    BY OpenedSound
  <2>4. q.conn = R.conn
    BY <1>0, <1>2, <2>3 DEF InTx
  <2> HIDE DEF q
  <2> QED
    BY <1>2, <2>1, <2>2, <2>3, <2>4, RequestKeeps
<1> QED  BY <1>1, <1>2

\* Where a statement runs, and as whom.
LEMMA ScopeOfStatement ==
    ASSUME StoreTypeOK, ConnsApart, NEW s \in StoreRequests, NEW c \in StoreConns, OnConn(s, c)
    PROVE  /\ storeReq[s].at = "open"
           /\ InTx(s) => setting[c] = storeReq[s].scope
           /\ ~InTx(s) => setting[c] = NoScope
BY DEF OnConn, ConnsApart, InTx

\* A row that the policies show is the request's own, or the platform sees it.
LEMMA VisibleIsOwn ==
    ASSUME StoreTypeOK, ConnsApart, NEW s \in StoreRequests, NEW c \in StoreConns, OnConn(s, c),
           NEW table, NEW shop, SeesRow(setting[c], table, shop), table \notin Shared
    PROVE  /\ InTx(s)
           /\ \/ storeReq[s].scope = Platform
              \/ storeReq[s].scope \in StoreShops /\ shop = storeReq[s].scope
BY ScopeOfStatement, SpecialValues DEF SeesRow

LEMMA FetchedSound ==
    ASSUME StoreInv, NEW s \in StoreRequests, NEW c \in StoreConns, Ready(s, c),
           NEW table \in StoreTables, NEW ids \in SUBSET Visible(s, c, table),
           NEW q, q = Fetched(s, table, ids)
    PROVE  /\ \A j \in StoreIds : GotSound(s, j, q)
           /\ q.at = "open" /\ q.conn = storeReq[s].conn /\ q.scope = storeReq[s].scope
           /\ q.locked = storeReq[s].locked /\ q.on = storeReq[s].on
           /\ q.op \in {"none", "load"} /\ (q.op # "load" => q.unloaded = {})
           /\ \A j \in StoreIds : q.got[j].table # "none" =>
                j \in ids /\ q.got[j].value = Version(s, j).value
<1> DEFINE R == storeReq[s]
<1>t. StoreTypeOK /\ ConnsApart
  BY DEF StoreInv
<1>0. R \in StoreRequest /\ OnConn(s, c) /\ R.op = "none" /\ R.at = "open"
  BY <1>t DEF StoreTypeOK, Ready, OnConn
<1>1. /\ q.got = [id \in StoreIds |-> IF id \in ids THEN [Version(s, id) EXCEPT !.items = {}]
                                      ELSE BlankRow]
      /\ q.unloaded = IF table \in WithItems THEN ids ELSE {}
      /\ q.op = IF table \in WithItems /\ ids # {} THEN "load" ELSE "none"
      /\ q.at = "open" /\ q.conn = R.conn /\ q.scope = R.scope
      /\ q.locked = R.locked /\ q.on = R.on
  BY <1>0 DEF Fetched, StoreRequest
<1>2. ASSUME NEW j \in StoreIds, j \in ids
      PROVE  /\ q.got[j].table = table /\ Version(s, j).table = table
             /\ q.got[j].tenant = Version(s, j).tenant /\ q.got[j].items = {}
             /\ q.got[j].value = Version(s, j).value
             /\ SeesRow(setting[c], table, Version(s, j).tenant)
  <2>1. Version(s, j) \in StoreRow
    BY <1>t, VersionHasType
  <2> QED
    BY <1>1, <1>2, <2>1 DEF Visible, StoreRow
<1>3. ASSUME NEW j \in StoreIds, j \notin ids
      PROVE  q.got[j].table = "none" /\ j \notin q.unloaded
  BY <1>1, <1>3 DEF BlankRow
<1>4. ASSUME NEW j \in StoreIds
      PROVE  GotSound(s, j, q)
  <2>1. CASE j \in ids
    <3>1. Follows(Version(s, j), q.got[j])
      BY <1>2, <2>1 DEF Follows
    <3>2. table \notin Shared =>
            /\ InTx(s)
            /\ \/ q.scope = Platform
               \/ q.scope \in StoreShops /\ q.got[j].tenant = q.scope
      <4>1. PICK shop : shop = Version(s, j).tenant
        OBVIOUS
      <4>2. SeesRow(setting[c], table, shop) /\ q.got[j].tenant = shop
        BY <1>2, <2>1, <4>1
      <4>3. OnConn(s, c) /\ R.scope = q.scope
        BY <1>0, <1>1
      <4>4. CASE table \notin Shared
        <5>1. InTx(s) /\ (R.scope = Platform \/ (R.scope \in StoreShops /\ shop = R.scope))
          BY <1>t, <4>2, <4>3, <4>4, VisibleIsOwn
        <5> QED
          BY <4>2, <4>3, <5>1
      <4> QED
        BY <4>4
    <3>3. table = "invoices" \/ table \in Shared => j \in q.unloaded
      BY <1>1, <2>1, TablesApart DEF WithItems, Shared
    <3> QED
      BY <1>2, <2>1, <3>1, <3>2, <3>3 DEF GotSound
  <2>2. CASE j \notin ids
    BY <1>3, <2>2, TablesApart DEF GotSound, Follows
  <2> QED  BY <2>1, <2>2
<1> QED
  BY <1>1, <1>2, <1>3, <1>4

LEMMA SelectKeeps ==
    ASSUME StoreInv, StoreTypeOK', NEW s \in StoreRequests, NEW c \in StoreConns, Ready(s, c),
           NEW table \in StoreTables, NEW ids \in SUBSET Visible(s, c, table),
           storeReq' = [storeReq EXCEPT ![s] = Fetched(s, table, ids)],
           RowsUnchanged, UNCHANGED <<setting, overwrote>>
    PROVE  StoreInv'
<1> DEFINE q == Fetched(s, table, ids)
<1>t. StoreTypeOK /\ LocksSound
  BY DEF StoreInv
<1>1. /\ \A j \in StoreIds : GotSound(s, j, q)
      /\ q.at = "open" /\ q.conn = storeReq[s].conn /\ q.scope = storeReq[s].scope
      /\ q.locked = storeReq[s].locked /\ q.on = storeReq[s].on
      /\ q.op \in {"none", "load"} /\ (q.op # "load" => q.unloaded = {})
      /\ \A j \in StoreIds : q.got[j].table # "none" =>
           j \in ids /\ q.got[j].value = Version(s, j).value
  BY FetchedSound
<1>2. q \in StoreRequest
  BY <1>t, FetchedType DEF Visible
<1>3. \A j \in q.locked : q.got[j].table # "none" => q.got[j].value = draft[j].value
  <2>1. q.locked \subseteq StoreIds
    BY <1>2 DEF StoreRequest
  <2> QED
    BY <1>1, <1>t, <2>1 DEF LocksSound, Version
<1>4. storeReq[s].op = "none"
  BY DEF Ready
<1> HIDE DEF q
<1>5. storeReq' = [storeReq EXCEPT ![s] = q]
  BY DEF q
<1> QED
  BY <1>1, <1>2, <1>3, <1>4, <1>5, RequestKeeps

LEMMA LoadKeeps ==
    ASSUME StoreInv, StoreTypeOK', NEW s \in StoreRequests, NEW c \in StoreConns,
           NEW ids \in SUBSET storeReq[s].unloaded, SelectItems(s, c, ids)
    PROVE  StoreInv'
<1> DEFINE R == storeReq[s]
           q == LoadedRequest(s, c, ids)
<1>t. StoreTypeOK /\ ConnsApart /\ RowsSound /\ ReadsSound /\ OpsSound /\ LocksSound
  BY DEF StoreInv
<1>0. R \in StoreRequest /\ R.got \in [StoreIds -> StoreRow] /\ R.unloaded \subseteq StoreIds
  BY <1>t DEF StoreTypeOK, StoreRequest
<1>1. /\ R.op = "load" /\ OnConn(s, c)
      /\ storeReq' = [storeReq EXCEPT ![s] = q]
      /\ RowsUnchanged /\ UNCHANGED <<setting, overwrote>>
  BY <1>t, SelectItemsEffect DEF Elsewhere
<1>2. /\ q.got = [id \in StoreIds |-> IF id \notin ids THEN R.got[id] ELSE Loaded(s, c, id)]
      /\ q.unloaded = R.unloaded \ ids
      /\ q.op = IF R.unloaded \subseteq ids THEN "none" ELSE "load"
      /\ q.at = R.at /\ q.conn = R.conn /\ q.scope = R.scope /\ q.locked = R.locked
  BY <1>0, <1>1 DEF LoadedRequest, StoreRequest
<1>3. q \in StoreRequest
  <2>1. storeReq' \in [StoreRequests -> StoreRequest]
    BY DEF StoreTypeOK
  <2> QED
    BY <1>1, <1>t, <2>1 DEF StoreTypeOK
<1> HIDE DEF q
<1>4. ASSUME NEW j \in StoreIds
      PROVE  /\ q.got[j].table = R.got[j].table /\ q.got[j].tenant = R.got[j].tenant
             /\ q.got[j].value = R.got[j].value
             /\ j \in ids =>
                  /\ q.got[j].items = {x \in Version(s, j).items :
                                         SeesRow(setting[c], Version(s, j).table, x.tenant)}
                  /\ q.got[j].meant = Version(s, j).meant
             /\ j \notin ids => q.got[j] = R.got[j]
  <2>1. R.got[j] \in StoreRow
    BY <1>0
  <2>2. CASE j \notin ids
    BY <1>2, <2>2
  <2>3. CASE j \in ids
    <3>1. q.got[j] = Loaded(s, c, j)
      BY <1>2, <2>3
    <3>2. q.got[j].items = {x \in Version(s, j).items :
                              SeesRow(setting[c], Version(s, j).table, x.tenant)}
      BY <2>1, <3>1 DEF Loaded, StoreRow
    <3>3. /\ q.got[j].table = R.got[j].table /\ q.got[j].tenant = R.got[j].tenant
          /\ q.got[j].value = R.got[j].value /\ q.got[j].meant = Version(s, j).meant
      BY <2>1, <3>1 DEF Loaded, StoreRow
    <3> QED
      BY <2>3, <3>2, <3>3
  <2> QED  BY <2>2, <2>3
<1>5. ASSUME NEW j \in StoreIds
      PROVE  GotSound(s, j, q)
  <2>1. GotSound(s, j, R)
    BY <1>t DEF ReadsSound, GotSound
  <2>2. CASE j \notin ids
    BY <1>2, <1>4, <2>1, <2>2 DEF GotSound
  <2>3. CASE j \in ids
    <3> DEFINE v == Version(s, j)
               g == R.got[j]
    <3>1. /\ j \in R.unloaded /\ j \notin q.unloaded
      BY <1>2, <2>3
    <3>2. /\ RowSound(v)
          /\ v.table = "invoices" => Names(v.items) = v.meant
      <4>1. Missing(s, j) = {}
        BY <1>1 DEF Missing
      <4> QED
        BY <1>t, <4>1 DEF Version, RowsSound
    <3>3. Follows(v, g) /\ Follows(v, q.got[j])
      BY <1>4, <2>1 DEF GotSound, Follows
    <3>4. g.table \notin Shared =>
            /\ InTx(s)
            /\ setting[c] = R.scope
      BY <1>1, <1>t, <2>1, <3>1, ScopeOfStatement DEF GotSound
    <3>5. CASE g.table \in Shared
      <4>1. v.table = g.table
        BY <3>3, <3>5, TablesApart DEF Follows
      <4>2. q.got[j].items = v.items /\ q.got[j].meant = v.meant
        BY <1>4, <2>3, <3>5, <4>1 DEF SeesRow
      <4>3. v.meant \subseteq Names(v.items)
        BY <3>2, <3>5, <4>1 DEF RowSound
      <4> QED
        BY <1>4, <2>1, <3>1, <3>3, <3>5, <4>2, <4>3, TablesApart DEF GotSound
    <3>6. CASE g.table = "none"
      BY <1>4, <3>1, <3>3, <3>6, TablesApart DEF GotSound
    <3>7. CASE g.table \notin Shared \cup {"none"}
      <4>1. v.table = g.table /\ InTx(s) /\ setting[c] = R.scope
        BY <3>3, <3>4, <3>7 DEF Follows
      <4>2. R.scope = Platform \/ (R.scope \in StoreShops /\ g.tenant = R.scope)
        BY <2>1, <3>7 DEF GotSound
      <4>3. \A x \in q.got[j].items : R.scope = Platform \/ x.tenant = R.scope
        BY <1>4, <2>3, <3>7, <4>1 DEF SeesRow
      <4>4. ASSUME g.table = "invoices"
            PROVE  Names(q.got[j].items) = q.got[j].meant
        <5>1. \A x \in v.items : x.tenant = v.tenant
          BY <3>2, <4>1, <4>4 DEF RowSound
        <5>2. v.tenant = g.tenant
          BY <3>3, <3>7, <4>4, TablesApart DEF Follows
        <5>3. q.got[j].items = v.items
          <6>1. \A x \in v.items : SeesRow(setting[c], v.table, x.tenant)
            BY <4>1, <4>2, <5>1, <5>2 DEF SeesRow
          <6>2. {x \in v.items : SeesRow(setting[c], v.table, x.tenant)} = v.items
            BY <6>1
          <6> QED
            BY <1>4, <2>3, <6>2
        <5> QED
          BY <1>4, <2>3, <3>2, <4>1, <4>4, <5>3
      <4> QED
        BY <1>2, <1>4, <3>1, <3>3, <3>7, <4>1, <4>2, <4>3, <4>4 DEF GotSound
    <3> QED  BY <3>5, <3>6, <3>7
  <2> QED  BY <2>2, <2>3
<1>6. \A j \in q.locked : q.got[j].table # "none" => q.got[j].value = draft[j].value
  <2>1. q.locked \subseteq StoreIds
    BY <1>3 DEF StoreRequest
  <2> QED
    BY <1>2, <1>4, <1>t, <2>1 DEF LocksSound
<1>7. q.op # "load" => q.unloaded = {}
  BY <1>2
<1>8. q.at # "closed" /\ q.op \in {"none", "load"}
  BY <1>1, <1>2 DEF OnConn
<1> QED
  BY <1>1, <1>2, <1>3, <1>5, <1>6, <1>7, <1>8, RequestKeeps

\* FOR UPDATE and SKIP LOCKED: what is read is what the drafts start from.
LEMMA LockKeeps ==
    ASSUME StoreInv, StoreTypeOK', NEW s \in StoreRequests, NEW c \in StoreConns, Ready(s, c),
           NEW table \in StoreTables, table \notin Shared, InTx(s),
           NEW ids \in SUBSET Visible(s, c, table), \A j \in ids : Lockable(s, j), Lock(s, ids),
           storeReq' = [storeReq EXCEPT ![s] = [Fetched(s, table, ids) EXCEPT !.locked = @ \cup ids]],
           UNCHANGED <<setting, overwrote>>
    PROVE  StoreInv'
<1> DEFINE R == storeReq[s]
           p == Fetched(s, table, ids)
           q == [p EXCEPT !.locked = @ \cup ids]
<1>t. StoreTypeOK /\ ConnsApart /\ RowsSound /\ ReadsSound /\ OpsSound /\ LocksSound
  BY DEF StoreInv
<1>i. ids \in SUBSET StoreIds
  BY DEF Visible
<1>0. p \in StoreRequest /\ q \in StoreRequest
  BY <1>i, <1>t, FetchedType
<1>1. /\ \A j \in StoreIds : GotSound(s, j, p)
      /\ p.at = "open" /\ p.conn = R.conn /\ p.scope = R.scope /\ p.locked = R.locked
      /\ p.op \in {"none", "load"} /\ (p.op # "load" => p.unloaded = {})
      /\ \A j \in StoreIds : p.got[j].table # "none" => j \in ids /\ p.got[j].value = Version(s, j).value
  BY FetchedSound
<1>2. /\ q.got = p.got /\ q.at = "open" /\ q.conn = R.conn /\ q.scope = R.scope
      /\ q.locked = R.locked \cup ids /\ q.op = p.op /\ q.unloaded = p.unloaded
  BY <1>0, <1>1 DEF StoreRequest
<1>3. storeReq' = [storeReq EXCEPT ![s] = q] /\ R.op = "none"
  BY DEF Ready
<1> HIDE DEF q, p
<1>4. /\ ConnsApart'
      /\ \A t \in StoreRequests : InTx(t)' <=> InTx(t)
      /\ \A t \in StoreRequests : storeReq'[t].scope = storeReq[t].scope
      /\ \A t \in StoreRequests \ {s} : storeReq'[t] = storeReq[t]
      /\ storeReq'[s] = q
  BY <1>0, <1>2, <1>3, <1>t, SameConns
<1>5. /\ rows' = rows
      /\ \A j \in ids : holder'[j] = s /\ draft'[j] = Version(s, j)
      /\ \A j \in StoreIds \ ids : holder'[j] = holder[j] /\ draft'[j] = draft[j]
      /\ \A j \in StoreIds, t \in StoreRequests \ {s} : holder'[j] = t <=> holder[j] = t
      /\ \A j \in StoreIds, t \in StoreRequests \ {s} : holder[j] = t => draft'[j] = draft[j]
  BY <1>i, SpecialValues DEF Lock, Lockable
<1>6. \A t \in StoreRequests, j \in StoreIds : Version(t, j)' = Version(t, j)
  BY <1>5 DEF Version
<1>7. \A t \in StoreRequests : storeReq'[t].op = "insert" => t # s /\ storeReq[t].op = "insert"
  BY <1>1, <1>2, <1>4
<1>8. \A t \in StoreRequests, j \in StoreIds : Missing(t, j)' = Missing(t, j)
  <2>1. storeReq'[s].op # "insert" /\ storeReq[s].op # "insert"
    BY <1>1, <1>2, <1>3, <1>4
  <2>2. ASSUME NEW j \in StoreIds
        PROVE  Missing(s, j)' = Missing(s, j)
    BY <2>1 DEF Missing
  <2>3. ASSUME NEW t \in StoreRequests \ {s}, NEW j \in StoreIds
        PROVE  Missing(t, j)' = Missing(t, j)
    BY <1>4 DEF Missing
  <2> QED
    BY <2>2, <2>3
<1>9. RowsSound'
  <2>1. ASSUME NEW j \in StoreIds, NEW t \in StoreRequests, holder'[j] = t
        PROVE  /\ InTx(t)
               /\ RowSound(draft'[j])
               /\ Follows(draft'[j], rows[j])
               /\ draft'[j].table \notin Shared
               /\ draft'[j].table = "invoices" => Names(draft'[j].items) = draft'[j].meant \ Missing(t, j)
    <3>1. CASE holder[j] = t
      <4>1. draft'[j] = draft[j]
        BY <1>5, <3>1 DEF Version
      <4> QED
        BY <1>t, <3>1, <4>1 DEF RowsSound
    <3>2. CASE holder[j] # t
      <4>1. t = s /\ j \in ids /\ draft'[j] = rows[j] /\ rows[j].table = table
        BY <1>5, <2>1, <3>2 DEF Version, Visible
      <4>2. Missing(t, j) = {}
        BY <1>3, <4>1 DEF Missing
      <4> QED
        BY <1>t, <4>1, <4>2, FollowsItself DEF RowsSound
    <3> QED  BY <3>1, <3>2
  <2> QED
    BY <1>4, <1>5, <1>8, <1>t, <2>1 DEF RowsSound
<1>10. ReadsSound'
  <2>1. ASSUME NEW t \in StoreRequests \ {s}, NEW j \in StoreIds
        PROVE  GotSound(t, j, storeReq[t])
    BY <1>t, <2>1 DEF ReadsSound, GotSound
  <2>2. ASSUME NEW j \in StoreIds
        PROVE  GotSound(s, j, q)
    BY <1>1, <1>2 DEF GotSound
  <2>3. ASSUME NEW t \in StoreRequests, NEW j \in StoreIds
        PROVE  \E r : r = storeReq'[t] /\ GotSound(t, j, r)
    BY <1>4, <2>1, <2>2
  <2>4. ASSUME NEW t \in StoreRequests, NEW j \in StoreIds, NEW r, r = storeReq'[t],
               GotSound(t, j, r)
        PROVE  LET g == storeReq'[t].got[j]
               IN /\ Follows(Version(t, j)', g)
                  /\ g.table \in Shared \cup {"none"} \/ storeReq'[t].scope = Platform
                       \/ /\ storeReq'[t].scope \in StoreShops
                          /\ g.tenant = storeReq'[t].scope
                          /\ \A x \in g.items : x.tenant = storeReq'[t].scope
                  /\ j \in storeReq'[t].unloaded /\ g.table \notin Shared => InTx(t)'
                  /\ j \notin storeReq'[t].unloaded =>
                       /\ g.table = "invoices" => Names(g.items) = g.meant
                       /\ g.table \in Shared => g.meant \subseteq Names(g.items)
    BY <2>4, <1>4, <1>6 DEF GotSound
  <2>5. ASSUME NEW t \in StoreRequests
        PROVE  storeReq'[t].op # "load" => storeReq'[t].unloaded = {}
    <3>1. CASE t = s
      BY <1>1, <1>2, <1>4, <3>1
    <3>2. CASE t # s
      BY <1>4, <1>t, <3>2 DEF ReadsSound
    <3> QED  BY <3>1, <3>2
  <2> QED
    BY <2>3, <2>4, <2>5 DEF ReadsSound
<1>11. OpsSound'
  <2>1. storeReq'[s].op \notin {"insert", "upsert"}
    BY <1>1, <1>2, <1>4
  <2> QED
    BY <1>4, <1>5, <1>6, <1>t, <2>1 DEF OpsSound
<1>12. LocksSound'
  <2>1. ASSUME NEW t \in StoreRequests \ {s}, NEW j \in storeReq[t].locked
        PROVE  /\ holder'[j] = t
               /\ storeReq[t].got[j].table # "none" => storeReq[t].got[j].value = draft'[j].value
    <3>1. j \in StoreIds /\ holder[j] = t
      BY <1>t, <2>1 DEF LocksSound, StoreTypeOK, StoreRequest
    <3> QED
      BY <1>5, <1>t, <2>1, <3>1 DEF LocksSound
  <2>2. ASSUME NEW j \in q.locked
        PROVE  /\ holder'[j] = s
               /\ q.got[j].table # "none" => q.got[j].value = draft'[j].value
    <3>1. j \in StoreIds
      BY <1>0, <2>2 DEF StoreRequest
    <3>2. j \in ids \/ holder[j] = s
      BY <1>2, <1>t, <2>2 DEF LocksSound
    <3> QED
      BY <1>1, <1>2, <1>5, <3>1, <3>2
  <2>3. ~overwrote'
    BY <1>t DEF LocksSound
  <2>4. ASSUME NEW t \in StoreRequests, NEW j \in storeReq'[t].locked
        PROVE  /\ holder'[j] = t
               /\ storeReq'[t].got[j].table # "none" => storeReq'[t].got[j].value = draft'[j].value
    <3>1. CASE t = s
      BY <1>4, <2>2, <2>4, <3>1
    <3>2. CASE t # s
      <4>1. storeReq'[t] = storeReq[t]
        BY <1>4, <3>2
      <4> QED
        BY <2>1, <2>4, <3>2, <4>1
    <3> QED  BY <3>1, <3>2
  <2> QED
    BY <2>3, <2>4 DEF LocksSound
<1> QED
  BY <1>4, <1>9, <1>10, <1>11, <1>12 DEF StoreInv

-----------------------------------------------------------------------------
(***************************************************************************)
(* The steps that write.                                                   *)
(***************************************************************************)
\* A request that holds on to what it has read.
LEMMA GotKept ==
    ASSUME StoreTypeOK, NEW s \in StoreRequests, NEW q \in StoreRequest, q.got = storeReq[s].got
    PROVE  \A j \in StoreIds : q.got[j] = [storeReq[s].got[j] EXCEPT !.value = q.got[j].value]
<1> SUFFICES ASSUME NEW j \in StoreIds
             PROVE  q.got[j] = [q.got[j] EXCEPT !.value = q.got[j].value]
  OBVIOUS
<1>1. q.got[j] \in StoreRow
  BY DEF StoreRequest
<1> QED
  BY <1>1 DEF StoreRow

\* What a version is, and what it is to a request that is between two methods.
LEMMA VersionSound ==
    ASSUME StoreTypeOK, RowsSound, NEW s \in StoreRequests, NEW id \in StoreIds
    PROVE  /\ RowSound(Version(s, id))
           /\ Version(s, id).table = "invoices" =>
                Names(Version(s, id).items) =
                  Version(s, id).meant \ (IF holder[id] = s THEN Missing(s, id) ELSE {})
BY DEF Version, RowsSound

\* Nobody holds a plan.
LEMMA PlansAreFree ==
    ASSUME StoreTypeOK, RowsSound, NEW s \in StoreRequests, NEW id \in StoreIds,
           Version(s, id).table \in Shared
    PROVE  holder[id] = NoTx
<1>1. ASSUME NEW t \in StoreRequests, holder[id] = t
      PROVE  FALSE
  <2>1. draft[id].table \notin Shared /\ Follows(draft[id], rows[id])
    BY <1>1 DEF RowsSound
  <2>2. rows[id].table \in Shared
    BY <1>1, <2>1 DEF Version
  <2> QED
    BY <2>1, <2>2, TablesApart DEF Follows
<1> QED
  BY <1>1 DEF StoreTypeOK

\* The row that a method is at work on.
LEMMA RowAtWork ==
    ASSUME StoreInv, NEW s \in StoreRequests, storeReq[s].op \in {"insert", "upsert"},
           NEW id, id = storeReq[s].on, NEW v, v = Version(s, id)
    PROVE  /\ id \in StoreIds /\ v \in StoreRow
           /\ v.table # "none" /\ (v.table \in Shared <=> ~InTx(s))
           /\ RowSound(v)
           /\ storeReq[s].unloaded = {} /\ ~overwrote
           /\ storeReq[s].op = "upsert" => v.table \in Pruned /\ v.table # "invoices"
           /\ storeReq[s].op = "insert" => Lockable(s, id)
           /\ storeReq[s].op = "insert" /\ v.table = "invoices" =>
                /\ InTx(s)
                /\ Names(v.items) = v.meant \ storeReq[s].todo
                /\ storeReq[s].todo \subseteq v.meant
                /\ v.tenant = Stamp(storeReq[s].scope)
<1> DEFINE R == storeReq[s]
<1>t. StoreTypeOK /\ RowsSound /\ ReadsSound /\ OpsSound /\ LocksSound
  BY DEF StoreInv
<1>1. id \in StoreIds
  BY <1>t DEF OpsSound
<1>2. v \in StoreRow /\ RowSound(v)
  BY <1>1, <1>t, VersionHasType, VersionSound
<1>3. /\ v.table # "none" /\ (v.table \in Shared <=> ~InTx(s))
      /\ R.op = "upsert" => v.table \in Pruned /\ v.table # "invoices"
      /\ R.op = "insert" /\ InTx(s) => holder[id] = s
      /\ R.op = "insert" /\ v.table = "invoices" => R.todo \subseteq v.meant /\ v.tenant = Stamp(R.scope)
  BY <1>1, <1>t, TablesApart DEF OpsSound
<1>4. R.unloaded = {} /\ ~overwrote
  BY <1>t DEF ReadsSound, LocksSound
<1>5. R.op = "insert" => Lockable(s, id)
  BY <1>1, <1>3, <1>t, PlansAreFree DEF Lockable
<1>6. ASSUME R.op = "insert", v.table = "invoices"
      PROVE  InTx(s) /\ Names(v.items) = v.meant \ R.todo
  <2>1. InTx(s) /\ holder[id] = s
    BY <1>3, <1>6, TablesApart
  <2>2. Missing(s, id) = R.todo
    BY <1>6 DEF Missing
  <2> QED
    BY <1>1, <1>6, <1>t, <2>1, <2>2, VersionSound
<1> QED
  BY <1>1, <1>2, <1>3, <1>4, <1>5, <1>6

LEMMA NamesGrow ==
    \A items, i, shop : Names(items \cup {[item |-> i, tenant |-> shop]}) = Names(items) \cup {i}
<1> SUFFICES ASSUME NEW items, NEW i, NEW shop, NEW n
             PROVE  n \in Names(items \cup {[item |-> i, tenant |-> shop]})
                      <=> n \in Names(items) \cup {i}
  OBVIOUS
<1> DEFINE x == [item |-> i, tenant |-> shop]
<1>1. x.item = i
  OBVIOUS
<1>2. Names(items \cup {x}) = {y.item : y \in items \cup {x}} /\ Names(items) = {y.item : y \in items}
  BY DEF Names
<1> HIDE DEF x
<1>3. n \in {y.item : y \in items \cup {x}} <=> n = x.item \/ n \in {y.item : y \in items}
  OBVIOUS
<1> QED
  BY <1>1, <1>2, <1>3 DEF x

LEMMA InsertItemKeeps ==
    ASSUME StoreInv, StoreTypeOK', NEW s \in StoreRequests, NEW c \in StoreConns, InsertItem(s, c)
    PROVE  StoreInv'
<1> DEFINE R == storeReq[s]
<1>t. StoreTypeOK /\ ConnsApart /\ RowsSound /\ ReadsSound /\ OpsSound /\ LocksSound
  BY DEF StoreInv
<1>0. R \in StoreRequest /\ R.op = "insert" /\ OnConn(s, c) /\ UNCHANGED <<setting, overwrote>>
  BY <1>t, InsertItemEffect DEF StoreTypeOK, Elsewhere
<1>1. PICK id : id = R.on
  OBVIOUS
<1>2. PICK v : v = Version(s, id)
  OBVIOUS
<1>p. PICK scope : scope = setting[c]
  OBVIOUS
<1>e. PICK i \in R.todo : \E meant :
        LET items == v.items \cup {[item |-> i, tenant |-> Stamp(scope)]}
            op == IF R.todo = {i} THEN "none" ELSE R.op
        IN /\ meant = v.meant \/ (~InTx(s) /\ meant = Names(items))
           /\ Put(s, id, [v EXCEPT !.items = items, !.meant = meant])
           /\ storeReq' = [storeReq EXCEPT ![s] = [R EXCEPT !.todo = R.todo \ {i}, !.op = op]]
  BY <1>1, <1>2, <1>p, <1>t, InsertItemEffect
<1>3. PICK meant :
        LET items == v.items \cup {[item |-> i, tenant |-> Stamp(scope)]}
            op == IF R.todo = {i} THEN "none" ELSE R.op
        IN /\ meant = v.meant \/ (~InTx(s) /\ meant = Names(items))
           /\ Put(s, id, [v EXCEPT !.items = items, !.meant = meant])
           /\ storeReq' = [storeReq EXCEPT ![s] = [R EXCEPT !.todo = R.todo \ {i}, !.op = op]]
  BY <1>e
<1> DEFINE items == v.items \cup {[item |-> i, tenant |-> Stamp(scope)]}
           op == IF R.todo = {i} THEN "none" ELSE R.op
           r == [v EXCEPT !.items = items, !.meant = meant]
           q == [R EXCEPT !.todo = R.todo \ {i}, !.op = op]
<1>4. /\ id \in StoreIds /\ v \in StoreRow
      /\ v.table # "none" /\ (v.table \in Shared <=> ~InTx(s))
      /\ RowSound(v) /\ R.unloaded = {} /\ ~overwrote
      /\ Lockable(s, id)
      /\ v.table = "invoices" =>
           /\ InTx(s)
           /\ Names(v.items) = v.meant \ R.todo
           /\ R.todo \subseteq v.meant
           /\ v.tenant = Stamp(R.scope)
  BY <1>0, <1>1, <1>2, RowAtWork
<1>5. i \in StoreItems /\ R.todo \in SUBSET StoreItems /\ R.got \in [StoreIds -> StoreRow]
  BY <1>0, <1>3 DEF StoreRequest
<1>6. Names(items) = Names(v.items) \cup {i}
  BY NamesGrow
<1>7. /\ r.table = v.table /\ r.tenant = v.tenant /\ r.value = v.value /\ r.by = v.by
      /\ r.items = items /\ r.meant = meant
  BY <1>4 DEF StoreRow
<1>8. r \in StoreRow
  <2>1. Names(v.items) \subseteq StoreItems
    BY <1>4 DEF StoreRow, Names
  <2>a. v.meant \in SUBSET StoreItems
    BY <1>4 DEF StoreRow
  <2>b. Names(items) \in SUBSET StoreItems
    BY <1>5, <1>6, <2>1
  <2>c. meant = v.meant \/ meant = Names(items)
    BY <1>3
  <2>2. meant \in SUBSET StoreItems
    BY <2>a, <2>b, <2>c
  <2>3. [item |-> i, tenant |-> Stamp(scope)] \in [item : StoreItems, tenant : StoreShops \cup {NoScope}]
    BY <1>5, StampIsOwner
  <2>4. items \in SUBSET [item : StoreItems, tenant : StoreShops \cup {NoScope}]
    BY <1>4, <2>3 DEF StoreRow
  <2> HIDE DEF items
  <2> QED
    BY <1>4, <2>2, <2>4 DEF StoreRow
<1>9. /\ q.at = "open" /\ q.conn = R.conn /\ q.scope = R.scope /\ q.locked = R.locked
      /\ q.on = id /\ q.got = R.got /\ q.unloaded = {} /\ q.op = op /\ q.todo = R.todo \ {i}
  BY <1>0, <1>1, <1>4 DEF StoreRequest, OnConn
<1>10. q \in StoreRequest /\ op \in {"none", "insert"}
  BY <1>0, <1>5 DEF StoreRequest
<1>11. v.table = "invoices" =>
         /\ meant = v.meant /\ scope = R.scope
         /\ Names(items) = v.meant \ (IF op = "insert" THEN R.todo \ {i} ELSE {})
  <2>1. v.table = "invoices" => meant = v.meant /\ scope = R.scope
    BY <1>0, <1>3, <1>4, <1>p, <1>t, ScopeOfStatement
  <2>2. CASE R.todo = {i}
    BY <1>4, <1>6, <2>1, <2>2
  <2>3. CASE R.todo # {i}
    BY <1>0, <1>4, <1>6, <2>1, <2>3
  <2> QED  BY <2>2, <2>3
<1>12. RowSound(r)
  <2>1. v.table = "invoices" => \A x \in items : x.tenant = v.tenant
    BY <1>4, <1>11 DEF RowSound
  <2>2. v.table \in Shared => meant \subseteq Names(items)
    BY <1>3, <1>4, <1>6 DEF RowSound
  <2> QED
    BY <1>4, <1>7, <2>1, <2>2 DEF RowSound
<1>13. Follows(r, v)
  BY <1>7 DEF Follows
<1>14. \A j \in StoreIds : q.got[j] = [R.got[j] EXCEPT !.value = q.got[j].value]
  BY <1>9, <1>10, <1>t, GotKept
<1>15. Put(s, id, r) /\ storeReq' = [storeReq EXCEPT ![s] = q]
  BY <1>3
<1> HIDE DEF r, q, op, items
<1>16. Follows(r, Version(s, id)) /\ r.value = Version(s, id).value
  BY <1>2, <1>7, <1>13
<1>17. r.table = "invoices" =>
         Names(r.items) = r.meant \ (IF q.op = "insert" /\ q.on = id THEN q.todo ELSE {})
  BY <1>7, <1>9, <1>11
<1>18. q.op = "insert" /\ r.table = "invoices" => q.todo \subseteq r.meant /\ r.tenant = Stamp(R.scope)
  BY <1>4, <1>7, <1>9, <1>11
<1>19. q.op \in {"none", "insert"} /\ ~overwrote'
  BY <1>0, <1>4, <1>9, <1>10
<1> QED
  BY <1>0, <1>1, <1>4, <1>7, <1>8, <1>9, <1>10, <1>12, <1>14, <1>15, <1>16, <1>17, <1>18, <1>19, PutKeeps

LEMMA UpsertItemKeeps ==
    ASSUME StoreInv, StoreTypeOK', NEW s \in StoreRequests, NEW c \in StoreConns, UpsertItem(s, c)
    PROVE  StoreInv'
<1> DEFINE R == storeReq[s]
<1>t. StoreTypeOK /\ ConnsApart /\ RowsSound /\ ReadsSound /\ OpsSound /\ LocksSound
  BY DEF StoreInv
<1>1. PICK id : id = R.on
  OBVIOUS
<1>2. PICK v : v = Version(s, id)
  OBVIOUS
<1>p. PICK scope : scope = setting[c]
  OBVIOUS
<1>0. /\ R \in StoreRequest /\ R.op = "upsert" /\ OnConn(s, c) /\ UNCHANGED <<setting, overwrote>>
      /\ Lockable(s, id)
  BY <1>1, <1>t, UpsertItemEffect DEF StoreTypeOK, Elsewhere
<1>3. CASE Refused(s) /\ RowsUnchanged
  BY <1>0, <1>3, RefusedKeeps
<1>4. ASSUME NEW i \in R.todo, NEW items,
             items = v.items \/ items = v.items \cup {[item |-> i, tenant |-> Stamp(scope)]},
             Put(s, id, [v EXCEPT !.items = items]),
             storeReq' = [storeReq EXCEPT ![s] = [R EXCEPT !.todo = R.todo \ {i}]]
      PROVE  StoreInv'
  <2> DEFINE r == [v EXCEPT !.items = items]
             q == [R EXCEPT !.todo = R.todo \ {i}]
  <2>1. /\ id \in StoreIds /\ v \in StoreRow
        /\ v.table # "none" /\ (v.table \in Shared <=> ~InTx(s))
        /\ RowSound(v) /\ R.unloaded = {} /\ ~overwrote
        /\ v.table \in Pruned /\ v.table # "invoices"
    BY <1>0, <1>1, <1>2, RowAtWork
  <2>2. i \in StoreItems /\ R.todo \in SUBSET StoreItems
    BY <1>0, <1>4 DEF StoreRequest
  <2>3. /\ r.table = v.table /\ r.tenant = v.tenant /\ r.value = v.value /\ r.by = v.by
        /\ r.items = items /\ r.meant = v.meant
    BY <2>1 DEF StoreRow
  <2>4. items \in SUBSET [item : StoreItems, tenant : StoreShops \cup {NoScope}]
    <3>1. [item |-> i, tenant |-> Stamp(scope)] \in [item : StoreItems, tenant : StoreShops \cup {NoScope}]
      BY <2>2, StampIsOwner
    <3>2. v.items \in SUBSET [item : StoreItems, tenant : StoreShops \cup {NoScope}]
      BY <2>1 DEF StoreRow
    <3> QED  BY <1>4, <3>1, <3>2
  <2>5. r \in StoreRow
    BY <2>1, <2>4 DEF StoreRow
  <2>6. /\ q.at = "open" /\ q.conn = R.conn /\ q.scope = R.scope /\ q.locked = R.locked
        /\ q.on = id /\ q.got = R.got /\ q.unloaded = {} /\ q.op = "upsert"
    BY <1>0, <1>1, <2>1 DEF StoreRequest, OnConn
  <2>7. q \in StoreRequest
    BY <1>0, <2>2 DEF StoreRequest
  <2>8. Names(v.items) \subseteq Names(items)
    <3>1. v.items \subseteq items
      BY <1>4
    <3> QED
      BY <3>1 DEF Names
  <2>9. RowSound(r)
    BY <2>1, <2>3, <2>8 DEF RowSound
  <2>10. Follows(r, v)
    BY <2>3 DEF Follows
  <2>11. \A j \in StoreIds : q.got[j] = [R.got[j] EXCEPT !.value = q.got[j].value]
    BY <1>t, <2>6, <2>7, GotKept
  <2>12. Put(s, id, r) /\ storeReq' = [storeReq EXCEPT ![s] = q]
    BY <1>4
  <2> HIDE DEF r, q
  <2>13. Follows(r, Version(s, id)) /\ r.value = Version(s, id).value /\ ~overwrote'
    BY <1>0, <1>2, <2>1, <2>3, <2>10
  <2> QED
    BY <1>0, <1>1, <2>1, <2>3, <2>5, <2>6, <2>7, <2>9, <2>11, <2>12, <2>13, PutKeeps
<1> QED
  BY <1>1, <1>2, <1>p, <1>t, <1>3, <1>4, UpsertItemEffect

LEMMA DeleteKeeps ==
    ASSUME StoreInv, StoreTypeOK', NEW s \in StoreRequests, NEW c \in StoreConns,
           DeleteRemovedItems(s, c)
    PROVE  StoreInv'
<1> DEFINE R == storeReq[s]
<1>t. StoreTypeOK /\ ConnsApart /\ RowsSound /\ ReadsSound /\ OpsSound /\ LocksSound
  BY DEF StoreInv
<1>1. PICK id : id = R.on
  OBVIOUS
<1>2. PICK v : v = Version(s, id)
  OBVIOUS
<1>3. PICK items, meant :
        /\ items = {x \in v.items : \/ x.item \in R.keep
                                    \/ ~SeesRow(setting[c], v.table, x.tenant)}
        /\ meant = v.meant \cap R.keep
  OBVIOUS
<1> DEFINE r == [v EXCEPT !.items = items, !.meant = meant]
           q == [R EXCEPT !.op = "none", !.on = NoId, !.keep = {}]
<1>a. /\ R \in StoreRequest /\ R.op = "upsert" /\ OnConn(s, c) /\ UNCHANGED <<setting, overwrote>>
      /\ Lockable(s, R.on) /\ storeReq' = [storeReq EXCEPT ![s] = q]
      /\ Put(s, R.on, [Version(s, R.on) EXCEPT
                         !.items = {x \in Version(s, R.on).items :
                                      \/ x.item \in R.keep
                                      \/ ~SeesRow(setting[c], Version(s, R.on).table, x.tenant)},
                         !.meant = Version(s, R.on).meant \cap R.keep])
  BY <1>t, DeleteEffect DEF StoreTypeOK, Elsewhere
<1>b. Put(s, id, r)
  BY <1>1, <1>2, <1>3, <1>a
<1>0. /\ R \in StoreRequest /\ R.op = "upsert" /\ OnConn(s, c) /\ UNCHANGED <<setting, overwrote>>
      /\ Lockable(s, id) /\ Put(s, id, r) /\ storeReq' = [storeReq EXCEPT ![s] = q]
  BY <1>1, <1>a, <1>b
<1>4. /\ id \in StoreIds /\ v \in StoreRow
      /\ v.table # "none" /\ (v.table \in Shared <=> ~InTx(s))
      /\ RowSound(v) /\ R.unloaded = {} /\ ~overwrote
      /\ v.table # "invoices"
  BY <1>0, <1>1, <1>2, RowAtWork
<1>5. /\ r.table = v.table /\ r.tenant = v.tenant /\ r.value = v.value /\ r.by = v.by
      /\ r.items = items /\ r.meant = meant
  BY <1>4 DEF StoreRow
<1>6. r \in StoreRow
  <2>1. items \in SUBSET [item : StoreItems, tenant : StoreShops \cup {NoScope}] /\ meant \in SUBSET StoreItems
    BY <1>3, <1>4 DEF StoreRow
  <2> QED
    BY <1>4, <2>1 DEF StoreRow
<1>7. /\ q.at = "open" /\ q.conn = R.conn /\ q.scope = R.scope /\ q.locked = R.locked
      /\ q.got = R.got /\ q.unloaded = {} /\ q.op = "none"
  BY <1>0, <1>4 DEF StoreRequest, OnConn
<1>8. q \in StoreRequest
  BY <1>0 DEF StoreRequest
<1>9. RowSound(r)
  <2>1. ASSUME v.table \in Shared
        PROVE  meant \subseteq Names(items)
    <3>1. v.meant \subseteq Names(v.items)
      BY <1>4, <2>1 DEF RowSound
    <3>2. ASSUME NEW m \in meant
          PROVE  m \in Names(items)
      <4>1. PICK x \in v.items : x.item = m
        BY <1>3, <3>1, <3>2 DEF Names
      <4>2. x \in items
        BY <1>3, <3>2, <4>1
      <4> QED
        BY <4>1, <4>2 DEF Names
    <3> QED  BY <3>2
  <2> QED
    BY <1>4, <1>5, <2>1 DEF RowSound
<1>10. \A j \in StoreIds : q.got[j] = [R.got[j] EXCEPT !.value = q.got[j].value]
  BY <1>t, <1>7, <1>8, GotKept
<1> HIDE DEF r, q
<1>11. Follows(r, Version(s, id)) /\ r.value = Version(s, id).value /\ ~overwrote'
  BY <1>0, <1>2, <1>4, <1>5 DEF Follows
<1> QED
  BY <1>0, <1>1, <1>4, <1>5, <1>6, <1>7, <1>8, <1>9, <1>10, <1>11, PutKeeps

LEMMA InsertRowKeeps ==
    ASSUME StoreInv, StoreTypeOK', NEW s \in StoreRequests, NEW c \in StoreConns,
           NEW table \in StoreTables, NEW id \in StoreIds, NEW owner \in StoreShops \cup {NoScope},
           NEW items \in SUBSET StoreItems,
           MayOwn(s, c, table, owner), InsertRow(s, c, table, id, owner, items)
    PROVE  StoreInv'
<1> DEFINE R == storeReq[s]
<1>t. StoreTypeOK /\ ConnsApart /\ RowsSound /\ ReadsSound /\ OpsSound /\ LocksSound
  BY DEF StoreInv
<1>0. /\ R \in StoreRequest /\ R.op = "none" /\ OnConn(s, c) /\ UNCHANGED <<setting, overwrote>>
      /\ Writes(s, table) /\ rows[id] = BlankRow /\ holder[id] = NoTx
      /\ R.scope \in StoreShops \cup {NoScope, Platform}
  BY <1>t DEF InsertRow, Ready, StoreTypeOK, StoreRequest, Elsewhere
<1>1. CASE ~Passes(setting[c], table, owner)
  <2>1. Refused(s) /\ RowsUnchanged
    BY <1>1 DEF InsertRow
  <2> QED
    BY <1>0, <2>1, RefusedKeeps
<1>2. CASE Passes(setting[c], table, owner)
  <2> DEFINE meant == IF InTx(s) THEN items ELSE {}
             r == [BlankRow EXCEPT !.table = table, !.tenant = owner, !.meant = meant, !.by = R.scope]
             q == IF items = {} THEN R
                  ELSE [R EXCEPT !.op = "insert", !.on = id, !.todo = items]
  <2>1. Put(s, id, r)
    BY <1>2 DEF InsertRow
  <2>2. storeReq' = [storeReq EXCEPT ![s] = q]
    <3>1. storeReq' = IF items = {} THEN storeReq
                      ELSE [storeReq EXCEPT ![s].op = "insert", ![s].on = id, ![s].todo = items]
      BY <1>2 DEF InsertRow
    <3> QED
      BY <1>t, <3>1 DEF StoreTypeOK, StoreRequest
  <2>3. /\ r.table = table /\ r.tenant = owner /\ r.value = 0 /\ r.by = R.scope
        /\ r.items = {} /\ r.meant = meant
    BY DEF BlankRow
  <2>4. r \in StoreRow
    BY <1>0, BlankTypes DEF StoreRow
  <2>5. /\ q.at = "open" /\ q.conn = R.conn /\ q.scope = R.scope /\ q.locked = R.locked
        /\ q.got = R.got /\ q.unloaded = {}
        /\ items = {} => q.op = "none"
        /\ items # {} => q.op = "insert" /\ q.on = id /\ q.todo = items
    BY <1>0, <1>t DEF StoreRequest, OnConn, ReadsSound
  <2>6. q \in StoreRequest
    BY <1>0 DEF StoreRequest
  <2>7. /\ Version(s, id) = BlankRow /\ Lockable(s, id) /\ ~overwrote'
        /\ table # "none" /\ (table \in Shared <=> ~InTx(s))
    BY <1>0, <1>t, SpecialValues, TablesApart DEF Version, Lockable, LocksSound, Writes
  <2>8. InTx(s) => setting[c] = R.scope
    BY <1>0, <1>t, ScopeOfStatement
  <2>9. RowSound(r)
    <3>1. owner \in StoreShops => R.scope \in {Platform, owner}
      BY SpecialValues DEF MayOwn
    <3>2. table \in Stamped => R.scope # NoScope
      BY <1>2, <2>7, <2>8, SpecialValues, TablesApart DEF Passes, SeesRow
    <3>3. table \in Shared => owner = NoScope /\ meant = {}
      BY <2>7 DEF MayOwn
    <3> HIDE DEF r, meant
    <3> QED
      BY <2>3, <3>1, <3>2, <3>3 DEF RowSound
  <2>10. Follows(r, Version(s, id)) /\ r.value = Version(s, id).value
    BY <2>3, <2>7 DEF Follows, BlankRow
  <2>11. table = "invoices" => meant = items /\ owner = Stamp(R.scope)
    BY <2>7, <2>8, TablesApart DEF MayOwn
  <2>12. \A j \in StoreIds : q.got[j] = [R.got[j] EXCEPT !.value = q.got[j].value]
    BY <1>t, <2>5, <2>6, GotKept
  <2>13. r.table = "invoices" =>
           Names(r.items) = r.meant \ (IF q.op = "insert" /\ q.on = id THEN q.todo ELSE {})
    BY <2>3, <2>5, <2>11 DEF Names
  <2> HIDE DEF r, q, meant
  <2>14. /\ q.op = "insert" /\ r.table = "invoices" => q.todo \subseteq r.meant /\ r.tenant = Stamp(R.scope)
         /\ q.op # "none" => q.on = id
         /\ q.op \in {"none", "insert"}
    BY <2>3, <2>5, <2>11
  <2>15. R.unloaded = {}
    BY <1>0, <1>t DEF ReadsSound
  <2> QED
    BY <1>0, <2>1, <2>2, <2>3, <2>4, <2>5, <2>6, <2>7, <2>9, <2>10, <2>12, <2>13, <2>14, <2>15,
       PutKeeps
<1> QED
  BY <1>1, <1>2

\* A row that was read is still there for the update.
LEMMA ReadIsVisible ==
    ASSUME StoreInv, NEW s \in StoreRequests, NEW c \in StoreConns, OnConn(s, c),
           NEW table \in StoreTables, Writes(s, table), NEW id \in StoreIds,
           storeReq[s].got[id].table = table
    PROVE  /\ id \in Visible(s, c, table) /\ Version(s, id).table = table
           /\ table \notin Shared =>
                /\ setting[c] = storeReq[s].scope
                /\ \/ storeReq[s].scope = Platform
                   \/ storeReq[s].scope \in StoreShops /\ Version(s, id).tenant = storeReq[s].scope
<1> DEFINE R == storeReq[s]
           g == R.got[id]
           v == Version(s, id)
<1>t. StoreTypeOK /\ ConnsApart /\ ReadsSound
  BY DEF StoreInv
<1>1. Follows(v, g) /\ table # "none"
  BY <1>t, TablesApart DEF ReadsSound
<1>2. v.table = table
  BY <1>1 DEF Follows
<1>3. CASE table \in Shared
  BY <1>2, <1>3 DEF Visible, SeesRow
<1>4. CASE table \notin Shared
  <2>1. InTx(s) /\ setting[c] = R.scope
    BY <1>4, <1>t, ScopeOfStatement DEF Writes
  <2>2. R.scope = Platform \/ (R.scope \in StoreShops /\ g.tenant = R.scope)
    BY <1>1, <1>4, <1>t DEF ReadsSound
  <2>3. R.scope = Platform \/ (R.scope \in StoreShops /\ v.tenant = R.scope)
    BY <1>1, <2>2 DEF Follows
  <2> QED
    BY <1>2, <1>4, <2>1, <2>3 DEF Visible, SeesRow
<1> QED
  BY <1>3, <1>4

LEMMA UpdateRowKeeps ==
    ASSUME StoreInv, StoreTypeOK', NEW s \in StoreRequests, NEW c \in StoreConns,
           NEW table \in StoreTables, NEW id \in StoreIds, NEW owner \in StoreShops \cup {NoScope},
           NEW keep \in SUBSET StoreItems,
           MayBecome(s, id, table, owner), UpdateRow(s, c, table, id, owner, keep)
    PROVE  StoreInv'
<1> DEFINE R == storeReq[s]
<1>t. StoreTypeOK /\ ConnsApart /\ RowsSound /\ ReadsSound /\ OpsSound /\ LocksSound
  BY DEF StoreInv
<1>0. /\ R \in StoreRequest /\ R.op = "none" /\ OnConn(s, c) /\ setting' = setting
      /\ Writes(s, table) /\ R.got[id].table = table /\ R.got[id].value < MaxStoreValue
      /\ Lockable(s, id)
      /\ R.got \in [StoreIds -> StoreRow] /\ R.scope \in StoreShops \cup {NoScope, Platform}
  BY <1>t DEF UpdateRow, Ready, StoreTypeOK, StoreRequest, Elsewhere
<1>1. PICK v : v = Version(s, id)
  OBVIOUS
<1>2. /\ id \in Visible(s, c, table) /\ v.table = table
      /\ table \notin Shared =>
           /\ setting[c] = R.scope
           /\ \/ R.scope = Platform
              \/ R.scope \in StoreShops /\ v.tenant = R.scope
  BY <1>0, <1>1, ReadIsVisible
<1>3. v \in StoreRow /\ RowSound(v)
  BY <1>1, <1>t, VersionHasType, VersionSound
<1>4. PICK n : n = R.got[id].value + 1
  OBVIOUS
<1>5. n \in 0 .. MaxStoreValue
  <2>1. R.got[id].value \in 0 .. MaxStoreValue
    BY <1>0 DEF StoreRow
  <2> QED
    BY <1>0, <1>4, <2>1, StoreAssumption
<1> DEFINE r == [v EXCEPT !.value = n, !.tenant = owner, !.by = R.scope]
           got == [R.got EXCEPT ![id] = [R.got[id] EXCEPT !.value = n]]
           op == IF table \in Pruned THEN "upsert" ELSE "none"
           on == IF table \in Pruned THEN id ELSE NoId
           todo == IF table \in Pruned THEN keep ELSE {}
           q == [R EXCEPT !.got = got, !.op = op, !.on = on, !.todo = todo, !.keep = todo]
<1>6. Put(s, id, r)
  BY <1>1, <1>2, <1>4 DEF UpdateRow
<1>7. storeReq' = [storeReq EXCEPT ![s] = q]
  <2>1. storeReq' = [storeReq EXCEPT
            ![s].got[id].value = n, ![s].op = op, ![s].on = on, ![s].todo = todo, ![s].keep = todo]
    BY <1>4 DEF UpdateRow
  <2> HIDE DEF op, on, todo
  <2> QED
    BY <1>0, <1>t, <2>1 DEF StoreTypeOK, StoreRequest
<1>8. ~overwrote'
  <2>1. overwrote' = (overwrote \/ ( /\ id \in Visible(s, c, table)
                                     /\ id \in R.locked /\ v.value # R.got[id].value))
    BY <1>1 DEF UpdateRow
  <2>2. ~overwrote
    BY <1>t DEF LocksSound
  <2>3. ASSUME id \in R.locked
        PROVE  v.value = R.got[id].value
    <3>1. holder[id] = s /\ R.got[id].value = draft[id].value
      BY <1>0, <1>t, <2>3, TablesApart DEF LocksSound
    <3> QED
      BY <1>1, <3>1 DEF Version
  <2> QED
    BY <2>1, <2>2, <2>3
<1>9. /\ r.table = table /\ r.tenant = owner /\ r.value = n /\ r.by = R.scope
      /\ r.items = v.items /\ r.meant = v.meant
  BY <1>2, <1>3 DEF StoreRow
<1>10. r \in StoreRow
  BY <1>0, <1>3, <1>5 DEF StoreRow
<1>11. /\ q.at = "open" /\ q.conn = R.conn /\ q.scope = R.scope /\ q.locked = R.locked
       /\ q.unloaded = {} /\ q.op = op /\ q.on = on /\ q.got = got /\ R.unloaded = {}
  BY <1>0, <1>t DEF StoreRequest, OnConn, ReadsSound
<1>12. q \in StoreRequest
  <2>1. storeReq' \in [StoreRequests -> StoreRequest]
    BY DEF StoreTypeOK
  <2> HIDE DEF q
  <2> QED
    BY <1>7, <1>t, <2>1 DEF StoreTypeOK
<1>13. owner = v.tenant \/ (table \in GivenTenant /\ R.scope = Platform /\ v.tenant = NoScope)
  BY <1>1 DEF MayBecome
<1>14. RowSound(r)
  <2>1. table \in Shared => v.tenant = NoScope /\ owner = NoScope
    BY <1>2, <1>3, <1>13, TablesApart DEF RowSound
  <2>2. owner \in StoreShops => R.scope \in {Platform, owner}
    BY <1>2, <1>13, <2>1, SpecialValues
  <2>3. table \in Stamped => R.scope # NoScope
    BY <1>2, SpecialValues, TablesApart
  <2>4. table = "invoices" => \A x \in v.items : x.tenant = owner
    BY <1>2, <1>3, <1>13, TablesApart DEF RowSound
  <2>5. table \in Shared => v.meant \subseteq Names(v.items)
    BY <1>2, <1>3 DEF RowSound
  <2> HIDE DEF r
  <2> QED
    BY <1>9, <2>1, <2>2, <2>3, <2>4, <2>5 DEF RowSound
<1>15. Follows(r, Version(s, id))
  BY <1>1, <1>2, <1>9, <1>13, SpecialValues DEF Follows
<1>16. r.table = "invoices" => Names(r.items) = r.meant /\ op = "none"
  <2>1. Missing(s, id) = {}
    BY <1>0 DEF Missing
  <2> QED
    <3>1. Version(s, id).table = "invoices" => Names(Version(s, id).items) = Version(s, id).meant
      <4>1. PICK none : none = IF holder[id] = s THEN Missing(s, id) ELSE {}
        OBVIOUS
      <4>2. none = {}
        BY <2>1, <4>1
      <4>3. Version(s, id).table = "invoices" =>
              Names(Version(s, id).items) =
                Version(s, id).meant \ none
        BY <1>t, <4>1, VersionSound
      <4> QED
        BY <4>2, <4>3
    <3>2. table = "invoices" => op = "none"
      BY TablesApart
    <3> HIDE DEF op, r
    <3> QED
      BY <1>1, <1>2, <1>9, <3>1, <3>2
<1>17. /\ q.got[id].value = r.value
       /\ \A j \in StoreIds \ {id} : q.got[j] = R.got[j]
       /\ q.got[id] = [R.got[id] EXCEPT !.value = n]
  BY <1>0, <1>9, <1>11 DEF StoreRow
<1>18. \A j \in StoreIds : q.got[j] = [R.got[j] EXCEPT !.value = q.got[j].value]
  <2>1. ASSUME NEW j \in StoreIds \ {id}
        PROVE  q.got[j] = [R.got[j] EXCEPT !.value = q.got[j].value]
    <3>1. R.got[j] \in StoreRow
      BY <1>0
    <3> QED
      BY <1>17, <3>1 DEF StoreRow
  <2>2. q.got[id] = [R.got[id] EXCEPT !.value = q.got[id].value]
    BY <1>9, <1>17
  <2> HIDE DEF q
  <2> QED  BY <2>1, <2>2
<1>19. /\ q.op \in {"none", "upsert"} /\ (q.op # "none" => q.on = id)
       /\ q.op = "upsert" => r.table \in Pruned
  BY <1>9, <1>11
<1>20. table # "none" /\ (table \in Shared <=> ~InTx(s))
  BY <1>0, TablesApart DEF Writes
<1> HIDE DEF r, q, got, op, on, todo
<1>21. \A j \in StoreIds \ {id} : q.got[j].value = R.got[j].value
  BY <1>17
<1>22. q.op = "insert" => FALSE
  BY <1>19
<1>23. r.table = "invoices" =>
         Names(r.items) = r.meant \ (IF q.op = "insert" /\ q.on = id THEN q.todo ELSE {})
  BY <1>16, <1>22
<1>24. /\ r.table # "none" /\ (r.table \in Shared <=> ~InTx(s))
       /\ q.op = "insert" /\ r.table = "invoices" =>
            q.todo \subseteq r.meant /\ r.tenant = Stamp(R.scope)
       /\ R.op = "insert" => R.on = id
       /\ q.at # "closed" /\ q.op # "load"
       /\ setting' = setting
  BY <1>0, <1>9, <1>11, <1>19, <1>20, <1>22
<1>25. \/ q.got[id].value = r.value
       \/ q.got[id].value = R.got[id].value /\ r.value = Version(s, id).value
  BY <1>17
<1> QED
  BY <1>0, <1>6, <1>7, <1>8, <1>10, <1>11, <1>12, <1>14, <1>15, <1>18, <1>19, <1>21, <1>23, <1>24,
     <1>25, PutKeeps

-----------------------------------------------------------------------------
(***************************************************************************)
(* The steps by which requests and transactions begin and end.             *)
(***************************************************************************)
\* A request outside a transaction starts anew.
LEMMA OutsideKeeps ==
    ASSUME StoreInv, StoreTypeOK', NEW s \in StoreRequests, ~InTx(s), NEW q \in StoreRequest,
           RowsUnchanged, storeReq' = [storeReq EXCEPT ![s] = q], UNCHANGED <<setting, overwrote>>,
           q.conn = NoConn, q.op = "none", q.unloaded = {}, q.locked = {},
           \A j \in StoreIds : q.got[j].table = "none"
    PROVE  StoreInv'
<1>t. StoreTypeOK /\ ConnsApart /\ RowsSound /\ ReadsSound /\ OpsSound /\ LocksSound
  BY DEF StoreInv
<1>0. storeReq[s].conn = NoConn
  BY <1>t DEF InTx, StoreTypeOK, StoreRequest
<1>1. /\ \A t \in StoreRequests : storeReq'[t].conn = storeReq[t].conn
      /\ \A t \in StoreRequests \ {s} : storeReq'[t] = storeReq[t]
      /\ storeReq'[s] = q
  BY <1>0, <1>t DEF StoreTypeOK
<1>2. rows' = rows /\ draft' = draft /\ holder' = holder /\ setting' = setting
  BY DEF RowsUnchanged
<1>3. \A t \in StoreRequests : InTx(t)' <=> InTx(t)
  BY <1>1 DEF InTx
<1>4. ConnsApart'
  <2>1. Taken' = Taken
    BY <1>1 DEF Taken
  <2>2. ASSUME NEW t \in StoreRequests
        PROVE  /\ storeReq'[t].at = "closed" => ~InTx(t)
               /\ InTx(t) => setting[storeReq[t].conn] = storeReq'[t].scope
    <3>1. CASE t = s
      BY <3>1
    <3>2. CASE t # s
      <4>1. storeReq'[t] = storeReq[t]
        BY <1>1, <3>2
      <4> QED
        BY <1>t, <4>1 DEF ConnsApart
    <3> QED  BY <3>1, <3>2
  <2> QED
    BY <1>1, <1>2, <1>3, <1>t, <2>1, <2>2 DEF ConnsApart
<1>5. \A t \in StoreRequests, j \in StoreIds : Version(t, j)' = Version(t, j)
  BY <1>2 DEF Version
<1>6. RowsSound'
  <2>1. ASSUME NEW j \in StoreIds, NEW t \in StoreRequests, holder[j] = t
        PROVE  Missing(t, j)' = Missing(t, j)
    <3>1. t # s
      BY <1>t, <2>1 DEF RowsSound
    <3> QED
      BY <1>1, <3>1 DEF Missing
  <2> QED
    BY <1>2, <1>3, <1>t, <2>1 DEF RowsSound
<1>7. ReadsSound'
  <2>1. ASSUME NEW t \in StoreRequests
        PROVE  \E r : r = storeReq'[t] /\ (t = s => r = q) /\ (t # s => r = storeReq[t])
    BY <1>1
  <2>2. ASSUME NEW t \in StoreRequests, NEW r, r = storeReq'[t], t = s => r = q, t # s => r = storeReq[t],
               NEW j \in StoreIds
        PROVE  /\ r.op # "load" => r.unloaded = {}
               /\ GotSound(t, j, r)
    <3>1. CASE t = s
      BY <2>2, <3>1, TablesApart DEF GotSound, Follows
    <3>2. CASE t # s
      BY <1>t, <2>2, <3>2 DEF ReadsSound, GotSound
    <3> QED  BY <3>1, <3>2
  <2>3. ASSUME NEW t \in StoreRequests, NEW r, r = storeReq'[t], NEW j \in StoreIds, GotSound(t, j, r)
        PROVE  LET g == storeReq'[t].got[j]
               IN /\ Follows(Version(t, j)', g)
                  /\ g.table \in Shared \cup {"none"} \/ storeReq'[t].scope = Platform
                       \/ /\ storeReq'[t].scope \in StoreShops
                          /\ g.tenant = storeReq'[t].scope
                          /\ \A x \in g.items : x.tenant = storeReq'[t].scope
                  /\ j \in storeReq'[t].unloaded /\ g.table \notin Shared => InTx(t)'
                  /\ j \notin storeReq'[t].unloaded =>
                       /\ g.table = "invoices" => Names(g.items) = g.meant
                       /\ g.table \in Shared => g.meant \subseteq Names(g.items)
    BY <2>3, <1>3, <1>5 DEF GotSound
  <2>4. ASSUME NEW t \in StoreRequests
        PROVE  storeReq'[t].op # "load" => storeReq'[t].unloaded = {}
    <3>1. CASE t = s
      BY <1>1, <3>1
    <3>2. CASE t # s
      BY <1>1, <1>t, <3>2 DEF ReadsSound
    <3> QED  BY <3>1, <3>2
  <2> QED
    BY <2>1, <2>2, <2>3, <2>4 DEF ReadsSound
<1>8. OpsSound'
  <2>1. storeReq'[s].op \notin {"insert", "upsert"}
    BY <1>1
  <2> QED
    BY <1>1, <1>2, <1>3, <1>5, <1>t, <2>1 DEF OpsSound
<1>9. LocksSound'
  <2>1. storeReq'[s].locked = {}
    BY <1>1
  <2> QED
    BY <1>1, <1>2, <1>t, <2>1 DEF LocksSound
<1> QED
  BY <1>4, <1>6, <1>7, <1>8, <1>9 DEF StoreInv

LEMMA BeginKeeps ==
    ASSUME StoreInv, StoreTypeOK', NEW s \in StoreRequests, NEW c \in StoreConns, BeginTx(s, c)
    PROVE  StoreInv'
<1> DEFINE R == storeReq[s]
           q == [R EXCEPT !.conn = c]
<1>t. StoreTypeOK /\ ConnsApart /\ RowsSound /\ ReadsSound /\ OpsSound /\ LocksSound
  BY DEF StoreInv
<1>0. R \in StoreRequest /\ R.op = "none" /\ R.at = "open" /\ ~InTx(s) /\ c \notin Taken
  BY <1>t DEF BeginTx, StoreTypeOK
<1>1. storeReq' = [storeReq EXCEPT ![s] = q]
  BY <1>t DEF BeginTx, StoreTypeOK
<1>2. /\ q.conn = c /\ q.at = "open" /\ q.scope = R.scope /\ q.op = "none"
      /\ q.got = R.got /\ q.unloaded = R.unloaded /\ q.locked = R.locked
  BY <1>0 DEF StoreRequest
<1> HIDE DEF q
<1>3. \A t \in StoreRequests : storeReq[t].conn # c
  BY <1>0 DEF Taken
<1>4. /\ setting'[c] = R.scope
      /\ \A d \in StoreConns \ {c} : setting'[d] = setting[d]
  <2>1. setting[c] = NoScope
    BY <1>0, <1>t DEF ConnsApart
  <2>2. setting' = [setting EXCEPT ![c] = IF R.scope = NoScope THEN setting[c] ELSE R.scope]
    BY DEF BeginTx
  <2> QED
    BY <1>t, <2>1, <2>2 DEF StoreTypeOK
<1>5. rows' = rows /\ draft' = draft /\ holder' = holder /\ overwrote' = overwrote
  BY DEF BeginTx, RowsUnchanged
<1>6. /\ \A t \in StoreRequests \ {s} : storeReq'[t] = storeReq[t]
      /\ storeReq'[s] = q
  BY <1>1, <1>t DEF StoreTypeOK
<1>7. /\ InTx(s)'
      /\ \A t \in StoreRequests \ {s} : InTx(t)' <=> InTx(t)
      /\ \A t \in StoreRequests : InTx(t) => InTx(t)'
  BY <1>0, <1>2, <1>6 DEF InTx
<1>8. \A t \in StoreRequests : /\ storeReq'[t].at = storeReq[t].at /\ storeReq'[t].scope = storeReq[t].scope
                               /\ storeReq'[t].op = storeReq[t].op /\ storeReq'[t].got = storeReq[t].got
                               /\ storeReq'[t].unloaded = storeReq[t].unloaded
                               /\ storeReq'[t].locked = storeReq[t].locked
  BY <1>0, <1>2, <1>6
<1>9. ConnsApart'
  <2>1. ASSUME NEW t \in StoreRequests
        PROVE  storeReq'[t].at = "closed" => ~InTx(t)'
    BY <1>0, <1>7, <1>8, <1>t DEF ConnsApart
  <2>2. ASSUME NEW t \in StoreRequests, NEW u \in StoreRequests, InTx(t)',
               storeReq'[u].conn = storeReq'[t].conn
        PROVE  t = u
    BY <1>2, <1>3, <1>6, <1>7, <1>t, <2>2 DEF ConnsApart
  <2>3. ASSUME NEW t \in StoreRequests, InTx(t)'
        PROVE  setting'[storeReq'[t].conn] = storeReq'[t].scope
    <3>1. CASE t = s
      BY <1>2, <1>4, <1>6, <3>1
    <3>2. CASE t # s
      <4>1. InTx(t) /\ storeReq[t].conn \in StoreConns \ {c} /\ storeReq'[t] = storeReq[t]
        BY <1>3, <1>6, <1>7, <2>3, <3>2 DEF InTx
      <4> QED
        BY <1>4, <1>t, <4>1 DEF ConnsApart
    <3> QED  BY <3>1, <3>2
  <2>4. ASSUME NEW d \in StoreConns, d \notin Taken'
        PROVE  setting'[d] = NoScope
    <3>1. \A t \in StoreRequests : storeReq'[t].conn # d
      BY <2>4 DEF Taken
    <3>2. d # c
      BY <1>2, <1>6, <3>1
    <3>3. \A t \in StoreRequests \ {s} : storeReq[t].conn # d
      BY <1>6, <3>1
    <3>4. R.conn # d
      BY <1>0 DEF InTx
    <3>5. d \notin Taken
      BY <3>3, <3>4 DEF Taken
    <3> QED
      BY <1>4, <1>t, <3>2, <3>5 DEF ConnsApart
  <2> QED
    BY <2>1, <2>2, <2>3, <2>4 DEF ConnsApart
<1>10. \A t \in StoreRequests, j \in StoreIds : Version(t, j)' = Version(t, j)
  BY <1>5 DEF Version
<1>11. RowsSound'
  <2>1. ASSUME NEW j \in StoreIds, NEW t \in StoreRequests, holder[j] = t
        PROVE  Missing(t, j)' = Missing(t, j) /\ InTx(t)'
    <3>1. InTx(t) /\ t # s
      BY <1>0, <1>t, <2>1 DEF RowsSound
    <3> QED
      BY <1>6, <1>7, <3>1 DEF Missing
  <2> QED
    BY <1>5, <1>t, <2>1 DEF RowsSound
<1>12. ReadsSound'
  BY <1>7, <1>8, <1>10, <1>t DEF ReadsSound
<1>13. OpsSound'
  <2>1. storeReq'[s].op \notin {"insert", "upsert"}
    BY <1>2, <1>6
  <2> QED
    BY <1>5, <1>6, <1>7, <1>10, <1>t, <2>1 DEF OpsSound
<1>14. LocksSound'
  BY <1>5, <1>8, <1>t DEF LocksSound
<1> QED
  BY <1>9, <1>11, <1>12, <1>13, <1>14 DEF StoreInv

\* A commit or a rollback: the rows are what the transaction made of them, or as they were.
LEMMA EndKeeps ==
    ASSUME StoreInv, StoreTypeOK', NEW s \in StoreRequests, EndTx(s), NEW q \in StoreRequest,
           storeReq' = [storeReq EXCEPT ![s] = q],
           q.conn = NoConn, q.scope = storeReq[s].scope, q.op = "none", q.unloaded = {}, q.locked = {},
           \/ /\ storeReq[s].op = "none" /\ q.got = storeReq[s].got
              /\ \A j \in StoreIds : rows'[j] = Version(s, j)
           \/ rows' = rows /\ \A j \in StoreIds : q.got[j].table = "none"
    PROVE  StoreInv'
<1> DEFINE R == storeReq[s]
<1>t. StoreTypeOK /\ ConnsApart /\ RowsSound /\ ReadsSound /\ OpsSound /\ LocksSound
  BY DEF StoreInv
<1>0. InTx(s) /\ R.conn \in StoreConns /\ overwrote' = overwrote
  BY DEF EndTx, InTx
<1>1. /\ \A t \in StoreRequests \ {s} : storeReq'[t] = storeReq[t]
      /\ storeReq'[s] = q
  BY <1>t DEF StoreTypeOK
<1>2. /\ setting'[R.conn] = NoScope
      /\ \A d \in StoreConns \ {R.conn} : setting'[d] = setting[d]
  BY <1>0, <1>t DEF EndTx, StoreTypeOK
<1>3. /\ \A j \in StoreIds, t \in StoreRequests : holder'[j] = t <=> t # s /\ holder[j] = t
      /\ \A j \in StoreIds, t \in StoreRequests \ {s} : holder[j] = t => draft'[j] = draft[j]
  BY SpecialValues DEF EndTx
<1>4. /\ ~InTx(s)'
      /\ \A t \in StoreRequests \ {s} : InTx(t)' <=> InTx(t)
  BY <1>1, SpecialValues DEF InTx
<1>5. ConnsApart'
  <2>1. ASSUME NEW t \in StoreRequests, storeReq'[t].at = "closed"
        PROVE  ~InTx(t)'
    BY <1>1, <1>4, <1>t, <2>1 DEF ConnsApart
  <2>2. ASSUME NEW t \in StoreRequests, NEW u \in StoreRequests, InTx(t)',
               storeReq'[u].conn = storeReq'[t].conn
        PROVE  t = u
    <3>1. t # s /\ InTx(t) /\ storeReq'[t] = storeReq[t] /\ storeReq[t].conn \in StoreConns
      BY <1>1, <1>4, <2>2 DEF InTx
    <3>2. u # s
      BY <1>1, <2>2, <3>1, SpecialValues
    <3> QED
      BY <1>1, <1>t, <2>2, <3>1, <3>2 DEF ConnsApart
  <2>3. ASSUME NEW t \in StoreRequests, InTx(t)'
        PROVE  setting'[storeReq'[t].conn] = storeReq'[t].scope
    <3>1. t # s /\ InTx(t) /\ storeReq'[t] = storeReq[t] /\ storeReq[t].conn \in StoreConns
      BY <1>1, <1>4, <2>3 DEF InTx
    <3>2. storeReq[t].conn # R.conn
      BY <1>0, <1>t, <3>1 DEF ConnsApart
    <3> QED
      BY <1>2, <1>t, <3>1, <3>2 DEF ConnsApart
  <2>4. ASSUME NEW d \in StoreConns, d \notin Taken'
        PROVE  setting'[d] = NoScope
    <3>1. CASE d = R.conn
      BY <1>2, <3>1
    <3>2. CASE d # R.conn
      <4>1. \A t \in StoreRequests : storeReq'[t].conn # d
        BY <2>4 DEF Taken
      <4>2. \A t \in StoreRequests : storeReq[t].conn # d
        BY <1>1, <3>2, <4>1
      <4>3. d \notin Taken
        BY <4>2 DEF Taken
      <4> QED
        BY <1>2, <1>t, <3>2, <4>3 DEF ConnsApart
    <3> QED  BY <3>1, <3>2
  <2> QED
    BY <2>1, <2>2, <2>3, <2>4 DEF ConnsApart
\* What the rows are now.
<1>6. ASSUME NEW j \in StoreIds
      PROVE  /\ RowSound(rows'[j])
             /\ rows'[j].table = "invoices" => Names(rows'[j].items) = rows'[j].meant
             /\ Follows(rows'[j], rows[j])
             /\ rows'[j] = rows[j] \/ (holder[j] = s /\ R.op = "none" /\ rows'[j] = Version(s, j))
  <2>1. CASE rows' = rows
    BY <1>t, <2>1, FollowsItself DEF RowsSound
  <2>2. CASE R.op = "none" /\ rows'[j] = Version(s, j)
    <3>1. CASE holder[j] = s
      <4>1. rows'[j] = draft[j] /\ Missing(s, j) = {}
        BY <2>2, <3>1 DEF Version, Missing
      <4>2. draft[j].table = "invoices" => Names(draft[j].items) = draft[j].meant \ Missing(s, j)
        BY <1>t, <3>1 DEF RowsSound
      <4>3. RowSound(draft[j]) /\ Follows(draft[j], rows[j])
        BY <1>t, <3>1 DEF RowsSound
      <4> QED
        BY <2>2, <3>1, <4>1, <4>2, <4>3
    <3>2. CASE holder[j] # s
      BY <1>t, <2>2, <3>2, FollowsItself DEF Version, RowsSound
    <3> QED  BY <3>1, <3>2
  <2> QED
    BY <2>1, <2>2
<1>7. \A j \in StoreIds, t \in StoreRequests \ {s} : holder[j] = t => rows'[j] = rows[j]
  BY <1>6
<1>8. ASSUME NEW t \in StoreRequests \ {s}, NEW j \in StoreIds
      PROVE  /\ Follows(Version(t, j)', Version(t, j))
             /\ holder[j] = t => Version(t, j)' = Version(t, j)
  <2>1. CASE holder[j] = t
    <3>1. Version(t, j)' = Version(t, j)
      BY <1>3, <2>1 DEF Version
    <3> QED
      BY <3>1, FollowsItself
  <2>2. CASE holder[j] # t
    <3>1. Version(t, j)' = rows'[j] /\ Version(t, j) = rows[j]
      BY <1>3, <2>2 DEF Version
    <3> QED
      BY <1>6, <2>2, <3>1
  <2> QED  BY <2>1, <2>2
<1>9. RowsSound'
  <2>1. ASSUME NEW j \in StoreIds, NEW t \in StoreRequests, holder'[j] = t
        PROVE  /\ InTx(t)'
               /\ RowSound(draft'[j])
               /\ Follows(draft'[j], rows'[j])
               /\ draft'[j].table \notin Shared
               /\ draft'[j].table = "invoices" => Names(draft'[j].items) = draft'[j].meant \ Missing(t, j)'
    <3>1. t # s /\ holder[j] = t /\ draft'[j] = draft[j] /\ rows'[j] = rows[j]
      BY <1>3, <1>7, <2>1
    <3>2. Missing(t, j)' = Missing(t, j)
      BY <1>1, <3>1 DEF Missing
    <3> QED
      BY <1>4, <1>t, <3>1, <3>2 DEF RowsSound
  <2> QED
    BY <1>6, <2>1 DEF RowsSound
<1>10. ReadsSound'
  <2>1. ASSUME NEW t \in StoreRequests \ {s}, NEW j \in StoreIds
        PROVE  Follows(Version(t, j)', storeReq[t].got[j])
    BY <1>8, <1>t, FollowsOn DEF ReadsSound
  <2>2. ASSUME NEW t \in StoreRequests \ {s}
        PROVE  /\ storeReq'[t].op # "load" => storeReq'[t].unloaded = {}
               /\ \A j \in StoreIds :
                    LET g == storeReq'[t].got[j]
                    IN /\ Follows(Version(t, j)', g)
                       /\ g.table \in Shared \cup {"none"} \/ storeReq'[t].scope = Platform
                            \/ /\ storeReq'[t].scope \in StoreShops
                               /\ g.tenant = storeReq'[t].scope
                               /\ \A x \in g.items : x.tenant = storeReq'[t].scope
                       /\ j \in storeReq'[t].unloaded /\ g.table \notin Shared => InTx(t)'
                       /\ j \notin storeReq'[t].unloaded =>
                            /\ g.table = "invoices" => Names(g.items) = g.meant
                            /\ g.table \in Shared => g.meant \subseteq Names(g.items)
    BY <1>1, <1>4, <1>t, <2>1, <2>2 DEF ReadsSound
  <2>3. ASSUME NEW j \in StoreIds
        PROVE  LET g == q.got[j]
               IN /\ Follows(Version(s, j)', g)
                  /\ g.table \in Shared \cup {"none"} \/ q.scope = Platform
                       \/ /\ q.scope \in StoreShops
                          /\ g.tenant = q.scope
                          /\ \A x \in g.items : x.tenant = q.scope
                  /\ g.table = "invoices" => Names(g.items) = g.meant
                  /\ g.table \in Shared => g.meant \subseteq Names(g.items)
    <3>1. CASE q.got[j].table = "none"
      BY <3>1, TablesApart DEF Follows
    <3>2. CASE R.op = "none" /\ q.got = R.got /\ rows'[j] = Version(s, j)
      <4>1. Version(s, j)' = Version(s, j)
        BY <1>3, <3>2 DEF Version
      <4>2. j \notin R.unloaded
        BY <1>t, <3>2 DEF ReadsSound
      <4> QED
        BY <1>t, <3>2, <4>1, <4>2 DEF ReadsSound
    <3> QED  BY <3>1, <3>2
  <2> QED
    BY <1>1, <2>2, <2>3 DEF ReadsSound
<1>11. OpsSound'
  <2>1. ASSUME NEW t \in StoreRequests \ {s}, NEW j \in StoreIds,
               storeReq[t].op \in {"insert", "upsert"}, storeReq[t].on = j
        PROVE  /\ Version(t, j)'.table = Version(t, j).table
               /\ storeReq[t].op = "insert" /\ InTx(t) =>
                    holder'[j] = t /\ Version(t, j)' = Version(t, j)
    <3>1. Version(t, j).table # "none"
      BY <1>t, <2>1 DEF OpsSound
    <3>2. storeReq[t].op = "insert" /\ InTx(t) => holder[j] = t
      BY <1>t, <2>1 DEF OpsSound
    <3>3. Follows(Version(t, j)', Version(t, j))
      BY <1>8
    <3> QED
      BY <1>3, <1>8, <3>1, <3>2, <3>3 DEF Follows
  <2>2. ASSUME NEW t \in StoreRequests \ {s}, NEW j \in StoreIds,
               storeReq[t].op \in {"insert", "upsert"}, storeReq[t].on = j
        PROVE  /\ Version(t, j)'.table # "none"
               /\ Version(t, j)'.table \in Shared <=> ~InTx(t)
               /\ storeReq[t].op = "upsert" => Version(t, j)'.table \in Pruned
               /\ storeReq[t].op = "insert" /\ InTx(t) => holder'[j] = t
               /\ storeReq[t].op = "insert" /\ Version(t, j)'.table = "invoices" =>
                    /\ storeReq[t].todo \subseteq Version(t, j)'.meant
                    /\ Version(t, j)'.tenant = Stamp(storeReq[t].scope)
    <3>1. "invoices" \notin Shared
      BY TablesApart
    <3> QED
      BY <1>t, <2>1, <2>2, <3>1 DEF OpsSound
  <2>3. storeReq'[s].op \notin {"insert", "upsert"}
    BY <1>1
  <2> QED
    BY <1>1, <1>4, <1>t, <2>2, <2>3 DEF OpsSound
<1>12. LocksSound'
  <2>1. ASSUME NEW t \in StoreRequests, NEW j \in storeReq'[t].locked
        PROVE  /\ holder'[j] = t
               /\ storeReq'[t].got[j].table # "none" => storeReq'[t].got[j].value = draft'[j].value
    <3>1. t # s /\ storeReq'[t] = storeReq[t]
      BY <1>1, <2>1
    <3>2. j \in StoreIds /\ holder[j] = t
      BY <1>t, <2>1, <3>1 DEF LocksSound, StoreTypeOK, StoreRequest
    <3> QED
      BY <1>3, <1>t, <2>1, <3>1, <3>2 DEF LocksSound
  <2>2. ~overwrote'
    BY <1>0, <1>t DEF LocksSound
  <2> QED
    BY <2>1, <2>2 DEF LocksSound
<1> QED
  BY <1>5, <1>9, <1>10, <1>11, <1>12 DEF StoreInv

-----------------------------------------------------------------------------
(***************************************************************************)
(* The invariant, and what follows from it.                                *)
(***************************************************************************)
LEMMA StoreInvInit ==
    ASSUME StoreInit
    PROVE  StoreInv
<1>1. StoreTypeOK
  <2>1. NothingRead \in [StoreIds -> StoreRow] /\ Closed \in StoreRequest
    BY BlankTypes
  <2>2. /\ rows \in [StoreIds -> StoreRow] /\ draft \in [StoreIds -> StoreRow]
        /\ storeReq \in [StoreRequests -> StoreRequest]
    BY <2>1 DEF StoreInit
  <2>3. /\ holder \in [StoreIds -> StoreRequests \cup {NoTx}]
        /\ setting \in [StoreConns -> StoreShops \cup {NoScope, Platform}]
        /\ overwrote \in BOOLEAN
    BY DEF StoreInit
  <2>4. MaxStoreCalls \in Nat /\ MaxStoreFaults \in Nat
    BY StoreAssumption
  <2>5. storeCalls \in 0 .. MaxStoreCalls /\ storeFaults \in 0 .. MaxStoreFaults
    BY <2>4 DEF StoreInit
  <2> QED
    BY <2>2, <2>3, <2>5 DEF StoreTypeOK
<1>2. \A s \in StoreRequests : storeReq[s] = Closed /\ ~InTx(s)
  BY StoreAssumption DEF StoreInit, InTx, Closed
<1>3. \A id \in StoreIds : rows[id] = BlankRow /\ holder[id] = NoTx
  BY DEF StoreInit, NothingRead
<1>4. ConnsApart
  BY <1>2 DEF ConnsApart, StoreInit
<1>5. RowSound(BlankRow)
  BY SpecialValues, TablesApart DEF RowSound, BlankRow
<1>6. RowsSound
  <2>1. Names({}) = {}
    BY DEF Names
  <2> QED
    BY <1>3, <1>5, <2>1, SpecialValues DEF RowsSound, BlankRow
<1>7. ReadsSound
  BY <1>2, TablesApart DEF ReadsSound, Closed, NothingRead, BlankRow, Follows
<1>8. OpsSound
  BY <1>2 DEF OpsSound, Closed
<1>9. LocksSound
  BY <1>2 DEF LocksSound, Closed, StoreInit
<1> QED
  BY <1>1, <1>4, <1>6, <1>7, <1>8, <1>9 DEF StoreInv

LEMMA StoreInvStep ==
    ASSUME StoreInv, NEW s \in StoreRequests, RequestStep(s)
    PROVE  StoreInv'
<1> DEFINE R == storeReq[s]
<1>t. StoreTypeOK /\ ConnsApart /\ OpsSound
  BY DEF StoreInv
<1>0. /\ R \in StoreRequest /\ R.conn \in StoreConns \cup {NoConn}
      /\ R.scope \in StoreShops \cup {NoScope, Platform}
  BY <1>t DEF StoreTypeOK, StoreRequest
<1>1. StoreTypeOK'
  BY <1>t, StoreTypeStep
<1>b. NothingRead = [id \in StoreIds |-> BlankRow] /\ BlankRow.table = "none"
  BY DEF NothingRead, BlankRow
<1>c. ASSUME NEW scope \in StoreShops \cup {NoScope, Platform}
      PROVE  /\ Opened(scope) \in StoreRequest /\ Opened(scope).conn = NoConn
             /\ Opened(scope).op = "none" /\ Opened(scope).unloaded = {}
             /\ Opened(scope).locked = {} /\ Opened(scope).scope = scope
             /\ \A j \in StoreIds : Opened(scope).got[j].table = "none"
  BY <1>b, BlankTypes DEF Opened, Closed
<1>2. ASSUME NEW scope \in StoreShops \cup {NoScope, Platform}, OpenRequest(s, scope)
      PROVE  StoreInv'
  <2>1. ~InTx(s)
    BY <1>2, <1>t DEF OpenRequest, ConnsApart
  <2>2. PICK q : q = Opened(scope)
    OBVIOUS
  <2>3. /\ storeReq' = [storeReq EXCEPT ![s] = q]
        /\ RowsUnchanged /\ UNCHANGED <<setting, overwrote>>
    BY <1>2, <2>2 DEF OpenRequest
  <2>4. /\ q \in StoreRequest /\ q.conn = NoConn /\ q.op = "none" /\ q.unloaded = {} /\ q.locked = {}
        /\ \A j \in StoreIds : q.got[j].table = "none"
    BY <1>c, <2>2
  <2> QED
    BY <1>1, <2>1, <2>3, <2>4, OutsideKeeps
<1>3. CASE CloseRequest(s)
  <2>1. /\ Closed \in StoreRequest /\ Closed.conn = NoConn /\ Closed.op = "none"
        /\ Closed.unloaded = {} /\ Closed.locked = {}
        /\ \A j \in StoreIds : Closed.got[j].table = "none"
    BY <1>b, BlankTypes DEF Closed
  <2> QED
    BY <1>1, <1>3, <2>1, OutsideKeeps DEF CloseRequest, Elsewhere
<1>4. CASE StoreFails(s)
  <2>1. ~InTx(s) /\ RowsUnchanged /\ UNCHANGED <<setting, overwrote>>
    BY <1>4 DEF StoreFails
  <2>2. storeReq' = [storeReq EXCEPT ![s] = Opened(R.scope)]
    BY <1>4 DEF StoreFails
  <2>3. PICK q : q = Opened(R.scope)
    OBVIOUS
  <2>4. /\ q \in StoreRequest /\ q.conn = NoConn /\ q.op = "none" /\ q.unloaded = {} /\ q.locked = {}
        /\ \A j \in StoreIds : q.got[j].table = "none"
    BY <1>0, <1>c, <2>3
  <2> QED
    BY <1>1, <2>1, <2>2, <2>3, <2>4, OutsideKeeps
<1>5. CASE CommitTx(s)
  <2> DEFINE q == [R EXCEPT !.conn = NoConn, !.locked = {}]
  <2>1. storeReq' = [storeReq EXCEPT ![s] = q] /\ EndTx(s) /\ R.op = "none"
    BY <1>5, <1>t DEF CommitTx, StoreTypeOK, StoreRequest
  <2>2. \A j \in StoreIds : rows'[j] = Version(s, j)
    BY <1>5 DEF CommitTx
  <2>3. /\ q \in StoreRequest /\ q.conn = NoConn /\ q.scope = R.scope /\ q.op = "none"
        /\ q.locked = {} /\ q.got = R.got /\ q.unloaded = R.unloaded
    BY <1>0, <2>1 DEF StoreRequest
  <2>4. R.unloaded = {}
    BY <2>1 DEF StoreInv, ReadsSound
  <2> HIDE DEF q
  <2> QED
    BY <1>1, <2>1, <2>2, <2>3, <2>4, EndKeeps
<1>6. CASE RollbackTx(s)
  <2>1. PICK q : q = Opened(R.scope)
    OBVIOUS
  <2>2. storeReq' = [storeReq EXCEPT ![s] = q] /\ EndTx(s) /\ rows' = rows
    BY <1>6, <2>1 DEF RollbackTx
  <2>3. /\ q \in StoreRequest /\ q.conn = NoConn /\ q.scope = R.scope /\ q.op = "none"
        /\ q.unloaded = {} /\ q.locked = {} /\ \A j \in StoreIds : q.got[j].table = "none"
    BY <1>0, <1>c, <2>1
  <2> QED
    BY <1>1, <2>2, <2>3, EndKeeps
<1>7. ASSUME NEW c \in StoreConns, BeginTx(s, c)
      PROVE  StoreInv'
  BY <1>1, <1>7, BeginKeeps
<1>8. ASSUME NEW c \in StoreConns, ItemStep(s, c)
      PROVE  StoreInv'
  BY <1>1, <1>8, InsertItemKeeps, UpsertItemKeeps, DeleteKeeps, LoadKeeps DEF ItemStep
<1>9. ASSUME NEW c \in StoreConns, NEW table \in StoreTables, TableStep(s, c, table)
      PROVE  StoreInv'
  <2>1. ASSUME NEW id \in StoreIds, RowStep(s, c, table, id)
        PROVE  StoreInv'
    <3>1. ASSUME NEW owner \in StoreShops \cup {NoScope}, NEW items \in SUBSET StoreItems,
                 MayOwn(s, c, table, owner), InsertRow(s, c, table, id, owner, items)
          PROVE  StoreInv'
      BY <1>1, <3>1, InsertRowKeeps
    <3>2. CASE SelectRow(s, c, table, id)
      <4>1. PICK ids \in SUBSET Visible(s, c, table) : ids = {id} \cap Visible(s, c, table)
        OBVIOUS
      <4>2. storeReq' = [storeReq EXCEPT ![s] = Fetched(s, table, ids)]
        BY <3>2, <4>1 DEF SelectRow
      <4> QED
        BY <1>1, <3>2, <4>2, SelectKeeps DEF SelectRow, Elsewhere
    <3>3. CASE table \notin Shared /\ SelectForUpdate(s, c, table, id)
      <4>1. PICK ids \in SUBSET Visible(s, c, table) : ids = {id} \cap Visible(s, c, table)
        OBVIOUS
      <4>2. /\ Ready(s, c) /\ InTx(s) /\ Lock(s, ids) /\ \A j \in ids : Lockable(s, j)
            /\ storeReq' = [storeReq EXCEPT
                 ![s] = [Fetched(s, table, ids) EXCEPT !.locked = @ \cup ids]]
            /\ UNCHANGED <<setting, overwrote>>
        BY <3>3, <4>1 DEF SelectForUpdate, Elsewhere
      <4> QED
        BY <1>1, <3>3, <4>2, LockKeeps
    <3>4. ASSUME NEW owner \in StoreShops \cup {NoScope}, NEW keep \in SUBSET StoreItems,
                 MayBecome(s, id, table, owner), UpdateRow(s, c, table, id, owner, keep)
          PROVE  StoreInv'
      BY <1>1, <3>4, UpdateRowKeeps
    <3> QED
      BY <2>1, <3>1, <3>2, <3>3, <3>4 DEF RowStep
  <2>2. CASE SelectRows(s, c, table)
    BY <1>1, <2>2, SelectKeeps DEF SelectRows, Elsewhere
  <2>3. CASE table \notin Shared /\ SelectSkipLocked(s, c, table)
    <3>1. PICK ids \in SUBSET {id \in Visible(s, c, table) : Lockable(s, id)} :
            /\ Lock(s, ids)
            /\ storeReq' = [storeReq EXCEPT
                 ![s] = [Fetched(s, table, ids) EXCEPT !.locked = @ \cup ids]]
      BY <2>3 DEF SelectSkipLocked
    <3>2. ids \in SUBSET Visible(s, c, table) /\ \A j \in ids : Lockable(s, j)
      BY <3>1
    <3>3. Ready(s, c) /\ InTx(s) /\ UNCHANGED <<setting, overwrote>>
      BY <2>3 DEF SelectSkipLocked, Elsewhere
    <3> QED
      BY <1>1, <2>3, <3>1, <3>2, <3>3, LockKeeps
  <2> QED
    BY <1>9, <2>1, <2>2, <2>3 DEF TableStep
<1> QED
  BY <1>2, <1>3, <1>4, <1>5, <1>6, <1>7, <1>8, <1>9 DEF RequestStep

LEMMA StoreInvStutter ==
    ASSUME StoreInv, UNCHANGED storeVars
    PROVE  StoreInv'
BY DEF StoreInv, storeVars, StoreTypeOK, ConnsApart, RowsSound, ReadsSound, OpsSound, LocksSound,
   InTx, Taken, Version, Missing

LEMMA StoreInvIsSafe ==
    ASSUME StoreInv
    PROVE  StoreSafe
<1>t. StoreTypeOK /\ RowsSound /\ ReadsSound /\ LocksSound
  BY DEF StoreInv
<1>1. TenantsApart
  <2>1. ASSUME NEW s \in StoreRequests, NEW id \in StoreIds,
               storeReq[s].got[id].table \notin Shared \cup {"none"}, storeReq[s].scope # Platform
        PROVE  /\ storeReq[s].got[id].tenant = storeReq[s].scope
               /\ \A x \in storeReq[s].got[id].items : x.tenant = storeReq[s].scope
    BY <1>t, <2>1 DEF ReadsSound
  <2>2. ASSUME NEW id \in StoreIds
        PROVE  /\ rows[id].tenant \in StoreShops => rows[id].by \in {Platform, rows[id].tenant}
               /\ rows[id].table \in Stamped => rows[id].by # NoScope
    BY <1>t DEF RowsSound, RowSound
  <2> QED
    BY <2>1, <2>2 DEF TenantsApart
<1>2. ItemsWhole
  BY <1>t DEF ItemsWhole, ReadsSound
<1>3. AddonsStay
  BY <1>t, TablesApart DEF AddonsStay, ReadsSound, RowsSound, RowSound
<1>4. LockedWritesKept
  BY <1>t DEF LockedWritesKept, LocksSound
<1> QED
  BY <1>1, <1>2, <1>3, <1>4, <1>t DEF StoreSafe

\* Whatever the requests, shops, rows and items: the connections, the rows, the locks and what
\* every request has read are as StoreInv says after each statement of the repositories, and
\* after each commit, rollback and failure (TxManager.RunInTx, DBFromContext).
THEOREM StoreInvariant == StoreSpec => []StoreInv
<1>1. StoreInit => StoreInv
  BY StoreInvInit
<1>2. StoreInv /\ [StoreNext]_storeVars => StoreInv'
  <2> SUFFICES ASSUME StoreInv, [StoreNext]_storeVars
               PROVE  StoreInv'
    OBVIOUS
  <2>1. CASE StoreNext
    <3>1. StoreTypeOK /\ ConnsApart
      BY DEF StoreInv
    <3>2. PICK s \in StoreRequests : RequestStep(s)
      BY <2>1, <3>1, StoreSteps
    <3> QED
      BY <3>2, StoreInvStep
  <2>2. CASE UNCHANGED storeVars
    BY <2>2, StoreInvStutter
  <2> QED  BY <2>1, <2>2
<1> QED
  BY <1>1, <1>2, PTL DEF StoreSpec

\* Whatever the requests, shops, rows and items: a shop reads only its own rows and items, what
\* it owns is written by itself or the platform, invoices are read with all of their line items,
\* plans keep the addons that no update has left out, and no update of a row that was read FOR
\* UPDATE writes over a change it has not seen.
THEOREM StoreIsSafe == StoreSpec => []StoreSafe
BY StoreInvariant, StoreInvIsSafe, PTL

-----------------------------------------------------------------------------
\* Reseller.  A set of sizes has a least one, so what holds of a set whenever it holds of
\* its proper subsets holds of every finite set; the sums are shown that way.
LEMMA LeastSize ==
  ASSUME NEW S \in SUBSET Nat, S # {}
  PROVE  \E x \in S : \A y \in S : x <= y
<1> DEFINE R == OpToRel(<, Nat)
<1>1. IsWellFoundedOn(R, Nat)
  BY NatLessThanWellFounded
<1>2. \A x, y \in Nat : y < x => <<y, x>> \in R
  BY DEF OpToRel
<1> HIDE DEF R
<1>3. PICK x \in S : \A y \in S : ~(<<y, x>> \in R)
  BY <1>1, WFMin
<1>4. \A y \in S : ~(y < x)
  BY <1>2, <1>3
<1> QED BY <1>3, <1>4

\* The sums of f over the subsets of T, one element after the other.
First(s) == CHOOSE x \in s : TRUE
Sums(g, f, D) == g = [s \in D |-> IF s = {} THEN 0 ELSE f[First(s)] + g[s \ {First(s)}]]
SumOf(f, T) == (CHOOSE g : Sums(g, f, SUBSET T))[T]

LEMMA Smaller ==
  ASSUME NEW s, IsFiniteSet(s), s # {}
  PROVE  /\ First(s) \in s /\ IsFiniteSet(s \ {First(s)})
         /\ Cardinality(s) \in Nat \ {0} /\ Cardinality(s \ {First(s)}) = Cardinality(s) - 1
<1>1. First(s) \in s
  BY DEF First
<1>2. Cardinality(s) \in Nat /\ Cardinality(s) # 0
  BY FS_CardinalityType, FS_EmptySet
<1> QED BY <1>1, <1>2, FS_RemoveElement

LEMMA SumsExist ==
  ASSUME NEW f, NEW T, IsFiniteSet(T)
  PROVE  \E g : Sums(g, f, SUBSET T)
<1> DEFINE UpTo(n) == {s \in SUBSET T : Cardinality(s) <= n}
<1>1. \A s \in SUBSET T : IsFiniteSet(s) /\ Cardinality(s) \in Nat /\ Cardinality(s) <= Cardinality(T)
  BY FS_Subset, FS_CardinalityType
<1>2. PICK B : B = {n \in Nat : ~\E g : Sums(g, f, UpTo(n))}
  OBVIOUS
<1>3. B = {}
  <2>1. SUFFICES ASSUME B # {}
                 PROVE  FALSE
    OBVIOUS
  <2>2. PICK n \in B : \A k \in B : n <= k
    BY <1>2, <2>1, LeastSize
  <2>3. n \in Nat
    BY <1>2
  <2>4. CASE n = 0
    <3>1. \A s \in UpTo(0) : s = {}
      BY <1>1, FS_EmptySet
    <3>2. PICK g : g = [s \in UpTo(0) |-> 0]
      OBVIOUS
    <3>3. Sums(g, f, UpTo(0))
      BY <3>1, <3>2 DEF Sums
    <3> QED BY <1>2, <2>4, <3>3
  <2>5. CASE n > 0
    <3>1. PICK g : Sums(g, f, UpTo(n - 1))
      <4>1. n - 1 \in Nat /\ n - 1 \notin B
        BY <2>2, <2>3, <2>5
      <4> QED BY <1>2, <4>1
    <3>2. PICK h : h = [s \in UpTo(n) |-> IF s = {} THEN 0 ELSE f[First(s)] + g[s \ {First(s)}]]
      OBVIOUS
    <3>3. \A s \in UpTo(n - 1) : s \in UpTo(n) /\ h[s] = g[s]
      <4>1. \A s \in UpTo(n - 1) : s \in UpTo(n)
        BY <1>1, <2>3
      <4>2. \A s \in UpTo(n - 1) : g[s] = IF s = {} THEN 0 ELSE f[First(s)] + g[s \ {First(s)}]
        BY <3>1 DEF Sums
      <4> QED BY <3>2, <4>1, <4>2
    <3>4. \A s \in UpTo(n) : s # {} => s \ {First(s)} \in UpTo(n - 1)
      <4>1. SUFFICES ASSUME NEW s \in UpTo(n), s # {}
                     PROVE  s \ {First(s)} \in UpTo(n - 1)
        OBVIOUS
      <4>2. Cardinality(s) <= n /\ IsFiniteSet(s) /\ s \ {First(s)} \in SUBSET T
        BY <1>1
      <4>3. Cardinality(s \ {First(s)}) = Cardinality(s) - 1 /\ Cardinality(s) \in Nat
        BY <4>1, <4>2, Smaller
      <4> QED BY <2>3, <4>2, <4>3
    <3>5. \A s \in UpTo(n) : s # {} => g[s \ {First(s)}] = h[s \ {First(s)}]
      BY <3>3, <3>4
    <3> HIDE DEF UpTo
    <3>6. Sums(h, f, UpTo(n))
      BY <3>2, <3>5 DEF Sums
    <3> QED BY <1>2, <3>6
  <2> QED BY <2>3, <2>4, <2>5
<1>4. Cardinality(T) \in Nat
  BY FS_CardinalityType
<1>5. UpTo(Cardinality(T)) = SUBSET T
  BY <1>1
<1> HIDE DEF UpTo
<1>6. \E g : Sums(g, f, UpTo(Cardinality(T)))
  BY <1>2, <1>3, <1>4
<1> QED BY <1>5, <1>6, Zenon

LEMMA SumsAgree ==
  ASSUME NEW f, NEW e, NEW T, NEW U, NEW W \in SUBSET T, IsFiniteSet(W), W \subseteq U,
         \A x \in W : f[x] = e[x]
  PROVE  \A g, h : Sums(g, f, SUBSET T) /\ Sums(h, e, SUBSET U) => g[W] = h[W]
<1>0. SUFFICES ASSUME NEW g, NEW h, Sums(g, f, SUBSET T), Sums(h, e, SUBSET U)
               PROVE  g[W] = h[W]
  OBVIOUS
<1>1. \A s \in SUBSET W : IsFiniteSet(s) /\ Cardinality(s) \in Nat
  BY FS_Subset, FS_CardinalityType
<1>2. PICK B : B = {n \in Nat : \E s \in SUBSET W : Cardinality(s) = n /\ g[s] # h[s]}
  OBVIOUS
<1>3. B = {}
  <2>1. SUFFICES ASSUME B # {}
                 PROVE  FALSE
    OBVIOUS
  <2>2. PICK n \in B : \A k \in B : n <= k
    BY <1>2, <2>1, LeastSize
  <2>3. PICK s \in SUBSET W : Cardinality(s) = n /\ g[s] # h[s]
    BY <1>2
  <2>4. /\ g[s] = IF s = {} THEN 0 ELSE f[First(s)] + g[s \ {First(s)}]
        /\ h[s] = IF s = {} THEN 0 ELSE e[First(s)] + h[s \ {First(s)}]
    BY <1>0 DEF Sums
  <2>5. s # {}
    BY <2>3, <2>4, Zenon
  <2>6. First(s) \in s /\ Cardinality(s) \in Nat \ {0} /\ Cardinality(s \ {First(s)}) = Cardinality(s) - 1
    BY <1>1, <2>5, Smaller
  <2>7. g[s \ {First(s)}] # h[s \ {First(s)}]
    <3>1. f[First(s)] = e[First(s)]
      BY <2>6
    <3>2. g[s] = f[First(s)] + g[s \ {First(s)}] /\ h[s] = e[First(s)] + h[s \ {First(s)}]
      BY <2>4, <2>5, Zenon
    <3> QED BY <2>3, <3>1, <3>2, Zenon
  <2>8. Cardinality(s \ {First(s)}) \in B /\ s \ {First(s)} \in SUBSET W
    <3>1. Cardinality(s \ {First(s)}) \in Nat /\ s \ {First(s)} \in SUBSET W
      BY <2>6
    <3> QED BY <1>2, <2>7, <3>1, Zenon
  <2> QED BY <2>2, <2>3, <2>6, <2>8
<1>4. W \in SUBSET W /\ Cardinality(W) \in Nat
  BY <1>1
<1>5. ~(g[W] # h[W])
  <2>1. SUFFICES ASSUME g[W] # h[W]
                 PROVE  FALSE
    OBVIOUS
  <2>2. Cardinality(W) \in B
    BY <1>2, <1>4, <2>1
  <2> QED BY <1>3, <2>2
<1> QED BY <1>5

LEMMA SumIsOne ==
  ASSUME NEW f, NEW T, IsFiniteSet(T)
  PROVE  \E g : Sums(g, f, SUBSET T) /\ SumOf(f, T) = g[T]
<1>1. PICK g : g = CHOOSE k : Sums(k, f, SUBSET T)
  OBVIOUS
<1>2. Sums(g, f, SUBSET T)
  BY <1>1, SumsExist, Zenon
<1> QED BY <1>1, <1>2, Zenon DEF SumOf

LEMMA SumAgree ==
  ASSUME NEW f, NEW e, NEW T, IsFiniteSet(T), \A x \in T : f[x] = e[x]
  PROVE  SumOf(f, T) = SumOf(e, T)
<1>1. PICK g : Sums(g, f, SUBSET T) /\ SumOf(f, T) = g[T]
  BY SumIsOne
<1>2. PICK h : Sums(h, e, SUBSET T) /\ SumOf(e, T) = h[T]
  BY SumIsOne
<1>3. T \in SUBSET T /\ T \subseteq T
  OBVIOUS
<1>4. \A k, m : Sums(k, f, SUBSET T) /\ Sums(m, e, SUBSET T) => k[T] = m[T]
  BY <1>3, SumsAgree
<1>5. g[T] = h[T]
  BY <1>1, <1>2, <1>4, Zenon
<1> QED BY <1>1, <1>2, <1>5, Zenon

LEMMA SumStep ==
  ASSUME NEW f, NEW T, IsFiniteSet(T)
  PROVE  SumOf(f, T) = IF T = {} THEN 0 ELSE f[First(T)] + SumOf(f, T \ {First(T)})
<1>1. PICK g : Sums(g, f, SUBSET T) /\ SumOf(f, T) = g[T]
  BY SumIsOne
<1>2. g[T] = IF T = {} THEN 0 ELSE f[First(T)] + g[T \ {First(T)}]
  BY <1>1 DEF Sums
<1>3. CASE T # {}
  <2>1. PICK U : U = T \ {First(T)}
    OBVIOUS
  <2>2. IsFiniteSet(U) /\ U \subseteq T
    BY <1>3, <2>1, Smaller
  <2>3. PICK h : Sums(h, f, SUBSET U) /\ SumOf(f, U) = h[U]
    BY <2>2, SumIsOne
  <2>4. g[U] = h[U]
    <3>1. U \in SUBSET T /\ U \subseteq U
      BY <2>2
    <3>2. \A k, m : Sums(k, f, SUBSET T) /\ Sums(m, f, SUBSET U) => k[U] = m[U]
      BY <2>2, <3>1, SumsAgree
    <3> QED BY <1>1, <2>3, <3>2, Zenon
  <2> QED BY <1>1, <1>2, <1>3, <2>1, <2>3, <2>4, Zenon
<1> QED BY <1>1, <1>2, <1>3, Zenon

LEMMA SetInduction ==
  ASSUME NEW T, IsFiniteSet(T), NEW P,
         \A s \in SUBSET T : (\A u \in SUBSET s : u # s => u \in P) => s \in P
  PROVE  T \in P
<1>1. \A s \in SUBSET T : IsFiniteSet(s) /\ Cardinality(s) \in Nat
  BY FS_Subset, FS_CardinalityType
<1>2. PICK B : B = {n \in Nat : \E s \in SUBSET T : Cardinality(s) = n /\ s \notin P}
  OBVIOUS
<1>3. B = {}
  <2>1. SUFFICES ASSUME B # {}
                 PROVE  FALSE
    OBVIOUS
  <2>2. PICK n \in B : \A k \in B : n <= k
    BY <1>2, <2>1, LeastSize
  <2>3. PICK s \in SUBSET T : Cardinality(s) = n /\ s \notin P
    BY <1>2
  <2>4. \A u \in SUBSET s : u # s => u \in P
    <3>1. SUFFICES ASSUME NEW u \in SUBSET s, u # s, u \notin P
                   PROVE  FALSE
      OBVIOUS
    <3>2. Cardinality(u) < Cardinality(s) /\ u \in SUBSET T
      BY <1>1, <3>1, FS_Subset
    <3>3. Cardinality(u) \in B
      BY <1>1, <1>2, <3>1, <3>2
    <3> QED BY <1>1, <2>2, <2>3, <3>2, <3>3
  <2> QED BY <2>3, <2>4
<1>4. T \in SUBSET T /\ Cardinality(T) \in Nat
  BY <1>1
<1>5. ~(T \notin P)
  <2>1. SUFFICES ASSUME T \notin P
                 PROVE  FALSE
    OBVIOUS
  <2>2. Cardinality(T) \in B
    BY <1>2, <1>4, <2>1
  <2> QED BY <1>3, <2>2
<1> QED BY <1>5

LEMMA SumNat ==
  ASSUME NEW f, NEW T, IsFiniteSet(T), \A x \in T : f[x] \in Nat
  PROVE  SumOf(f, T) \in Nat
<1>1. PICK P : P = {s \in SUBSET T : SumOf(f, s) \in Nat}
  OBVIOUS
<1>2. ASSUME NEW s \in SUBSET T, \A u \in SUBSET s : u # s => u \in P
      PROVE  s \in P
  <2>1. IsFiniteSet(s)
    BY FS_Subset
  <2>2. SumOf(f, s) = IF s = {} THEN 0 ELSE f[First(s)] + SumOf(f, s \ {First(s)})
    BY <2>1, SumStep
  <2>3. SumOf(f, s) \in Nat
    <3>1. CASE s # {}
      <4>1. First(s) \in s
        BY <2>1, <3>1, Smaller
      <4>2. s \ {First(s)} \in P
        BY <1>2, <4>1
      <4> QED BY <1>1, <2>2, <3>1, <4>1, <4>2
    <3> QED BY <2>2, <3>1
  <2> QED BY <1>1, <2>3
<1>3. T \in P
  BY <1>2, SetInduction
<1> QED BY <1>1, <1>3

LEMMA SumRemove ==
  ASSUME NEW f, NEW T, IsFiniteSet(T), \A y \in T : f[y] \in Nat, NEW x \in T
  PROVE  SumOf(f, T) = f[x] + SumOf(f, T \ {x})
<1>1. PICK P : P = {s \in SUBSET T : \A y \in s : SumOf(f, s) = f[y] + SumOf(f, s \ {y})}
  OBVIOUS
<1>2. ASSUME NEW s \in SUBSET T, \A u \in SUBSET s : u # s => u \in P
      PROVE  s \in P
  <2>1. IsFiniteSet(s)
    BY FS_Subset
  <2>2. ASSUME NEW y \in s
        PROVE  SumOf(f, s) = f[y] + SumOf(f, s \ {y})
    <3>1. PICK z : z = First(s)
      OBVIOUS
    <3>2. z \in s /\ SumOf(f, s) = f[z] + SumOf(f, s \ {z})
      BY <2>1, <3>1, Smaller, SumStep
    <3>3. CASE y # z
      <4>1. s \ {z} \in P /\ s \ {y} \in P
        BY <1>2, <3>2
      <4>2. SumOf(f, s \ {z}) = f[y] + SumOf(f, (s \ {z}) \ {y})
        BY <1>1, <3>3, <4>1
      <4>3. SumOf(f, s \ {y}) = f[z] + SumOf(f, (s \ {y}) \ {z})
        BY <1>1, <3>2, <3>3, <4>1
      <4>4. (s \ {z}) \ {y} = (s \ {y}) \ {z}
        OBVIOUS
      <4>5. SumOf(f, (s \ {z}) \ {y}) \in Nat
        <5>1. IsFiniteSet((s \ {z}) \ {y}) /\ \A v \in (s \ {z}) \ {y} : f[v] \in Nat
          BY <2>1, FS_Subset
        <5> QED BY <5>1, SumNat
      <4>6. f[y] \in Nat /\ f[z] \in Nat
        BY <3>2
      <4> HIDE <3>1
      <4> QED BY <3>2, <4>2, <4>3, <4>4, <4>5, <4>6
    <3> QED BY <3>2, <3>3
  <2> QED BY <1>1, <2>2
<1>3. T \in P
  BY <1>2, SetInduction
<1> QED BY <1>1, <1>3

LEMMA SumMono ==
  ASSUME NEW f, NEW T, IsFiniteSet(T), \A y \in T : f[y] \in Nat, NEW U \in SUBSET T
  PROVE  SumOf(f, U) <= SumOf(f, T)
<1>1. PICK P : P = {s \in SUBSET T : U \subseteq s => SumOf(f, U) <= SumOf(f, s)}
  OBVIOUS
<1>2. ASSUME NEW s \in SUBSET T, \A u \in SUBSET s : u # s => u \in P
      PROVE  s \in P
  <2>1. IsFiniteSet(s) /\ \A y \in s : f[y] \in Nat
    BY FS_Subset
  <2>2. ASSUME U \subseteq s
        PROVE  SumOf(f, U) <= SumOf(f, s)
    <3>0. SumOf(f, s) \in Nat
      BY <2>1, SumNat
    <3>1. CASE U # s
      <4>1. PICK x \in s : x \notin U
        BY <2>2, <3>1
      <4>2. s \ {x} \in P /\ U \subseteq s \ {x}
        BY <1>2, <2>2, <4>1
      <4>3. SumOf(f, U) <= SumOf(f, s \ {x})
        BY <1>1, <4>2
      <4>4. SumOf(f, s) = f[x] + SumOf(f, s \ {x})
        BY <2>1, SumRemove
      <4>5. SumOf(f, s \ {x}) \in Nat /\ SumOf(f, U) \in Nat /\ f[x] \in Nat
        <5>1. IsFiniteSet(s \ {x}) /\ IsFiniteSet(U)
          BY <2>1, <2>2, FS_Subset
        <5>2. (\A y \in s \ {x} : f[y] \in Nat) /\ \A y \in U : f[y] \in Nat
          BY <2>1, <2>2
        <5> QED BY <2>1, <5>1, <5>2, SumNat
      <4> QED BY <3>0, <4>3, <4>4, <4>5
    <3> QED BY <3>0, <3>1
  <2> QED BY <1>1, <2>2
<1>3. T \in P
  BY <1>2, SetInduction
<1> QED BY <1>1, <1>3

LEMMA AmountIs ==
  ASSUME NEW recs, NEW S, IsFiniteSet(S)
  PROVE  AmountOf(recs, S) = SumOf([c \in S |-> recs[c].amount], S)
<1>1. PICK f : f = [c \in S |-> recs[c].amount]
  OBVIOUS
<1>2. PICK k : k = CHOOSE h : h = [s \in SUBSET S |->
                     IF s = {} THEN 0 ELSE recs[First(s)].amount + h[s \ {First(s)}]]
  OBVIOUS
<1>3. AmountOf(recs, S) = k[S]
  BY <1>2 DEF AmountOf, MapThenSumSet, MapThenFoldSet, First
<1>4. \A s \in SUBSET S : s # {} => f[First(s)] = recs[First(s)].amount
  <2>1. \A s \in SUBSET S : s # {} => First(s) \in S
    BY FS_Subset, Smaller
  <2> QED BY <1>1, <2>1
<1>5. PICK g : Sums(g, f, SUBSET S) /\ SumOf(f, S) = g[S]
  BY SumIsOne
<1>6. g = [s \in SUBSET S |-> IF s = {} THEN 0 ELSE recs[First(s)].amount + g[s \ {First(s)}]]
  BY <1>4, <1>5 DEF Sums
<1>7. k = [s \in SUBSET S |-> IF s = {} THEN 0 ELSE recs[First(s)].amount + k[s \ {First(s)}]]
  BY <1>2, <1>6, Zenon
<1>8. Sums(k, f, SUBSET S)
  BY <1>4, <1>7 DEF Sums
<1>9. k[S] = g[S]
  <2>1. S \in SUBSET S /\ S \subseteq S
    OBVIOUS
  <2>2. \A m, n : Sums(m, f, SUBSET S) /\ Sums(n, f, SUBSET S) => m[S] = n[S]
    BY <2>1, SumsAgree
  <2> QED BY <1>5, <1>8, <2>2, Zenon
<1> QED BY <1>1, <1>3, <1>5, <1>9, Zenon

LEMMA AmountNat ==
  ASSUME NEW recs, NEW S, IsFiniteSet(S), \A c \in S : recs[c].amount \in Nat
  PROVE  AmountOf(recs, S) \in Nat
<1>1. PICK f : f = [c \in S |-> recs[c].amount]
  OBVIOUS
<1>2. \A c \in S : f[c] \in Nat
  BY <1>1
<1>3. SumOf(f, S) \in Nat
  BY <1>2, SumNat
<1> QED BY <1>1, <1>3, AmountIs

LEMMA AmountKept ==
  ASSUME NEW old, NEW recs, NEW S, IsFiniteSet(S), \A c \in S : recs[c].amount = old[c].amount
  PROVE  AmountOf(recs, S) = AmountOf(old, S)
<1>1. [c \in S |-> recs[c].amount] = [c \in S |-> old[c].amount]
  OBVIOUS
<1> QED BY <1>1, AmountIs

LEMMA AmountEmpty == ASSUME NEW recs PROVE AmountOf(recs, {}) = 0
<1>1. PICK f : f = [c \in {} |-> recs[c].amount]
  OBVIOUS
<1>2. IsFiniteSet({})
  BY FS_EmptySet
<1>3. SumOf(f, {}) = 0
  BY <1>2, SumStep
<1> QED BY <1>1, <1>2, <1>3, AmountIs

LEMMA AmountMono ==
  ASSUME NEW recs, NEW S, IsFiniteSet(S), \A c \in S : recs[c].amount \in Nat, NEW U \in SUBSET S
  PROVE  AmountOf(recs, U) <= AmountOf(recs, S)
<1>1. PICK f, e : f = [c \in S |-> recs[c].amount] /\ e = [c \in U |-> recs[c].amount]
  OBVIOUS
<1>2. (\A c \in S : f[c] \in Nat) /\ (\A c \in U : e[c] = f[c]) /\ IsFiniteSet(U)
  BY <1>1, FS_Subset
<1>3. SumOf(f, U) <= SumOf(f, S)
  BY <1>2, SumMono
<1>4. SumOf(e, U) = SumOf(f, U)
  BY <1>2, SumAgree
<1> QED BY <1>1, <1>2, <1>3, <1>4, AmountIs

LEMMA AmountAdd ==
  ASSUME NEW recs, NEW S, IsFiniteSet(S), \A c \in S : recs[c].amount \in Nat,
         NEW x, x \notin S, recs[x].amount \in Nat
  PROVE  AmountOf(recs, S \cup {x}) = AmountOf(recs, S) + recs[x].amount
<1>1. PICK T : T = S \cup {x}
  OBVIOUS
<1>2. IsFiniteSet(T) /\ x \in T /\ T \ {x} = S
  BY <1>1, FS_AddElement
<1>3. PICK f, e : f = [c \in T |-> recs[c].amount] /\ e = [c \in S |-> recs[c].amount]
  OBVIOUS
<1>4. (\A c \in T : f[c] \in Nat) /\ (\A c \in S : e[c] = f[c]) /\ f[x] = recs[x].amount
  BY <1>1, <1>3
<1>5. SumOf(f, T) = f[x] + SumOf(f, T \ {x})
  BY <1>2, <1>4, SumRemove
<1>6. SumOf(e, S) = SumOf(f, S)
  BY <1>4, SumAgree
<1>7. SumOf(f, S) \in Nat
  BY <1>1, <1>4, SumNat
<1>8. AmountOf(recs, T) = SumOf(f, T) /\ AmountOf(recs, S) = SumOf(e, S)
  BY <1>2, <1>3, AmountIs
<1>9. SumOf(f, T \ {x}) = SumOf(f, S) /\ recs[x].amount \in Nat
  BY <1>2, Zenon
<1>10. AmountOf(recs, T) = recs[x].amount + SumOf(f, S)
  BY <1>4, <1>5, <1>8, <1>9, Zenon
<1>11. AmountOf(recs, S) = SumOf(f, S)
  BY <1>6, <1>8, Zenon
<1>12. recs[x].amount + SumOf(f, S) = SumOf(f, S) + recs[x].amount
  BY <1>7, <1>9
<1> QED BY <1>1, <1>10, <1>11, <1>12, Zenon

-----------------------------------------------------------------------------
Busy(w) ==
  /\ w = [pc |-> w.pc, account |-> w.account, c |-> w.c, read |-> w.read, product |-> w.product,
          sale |-> w.sale, rate |-> w.rate, tenant |-> w.tenant]
  /\ w.pc \in {"add", "publish"} /\ w.c \in Sales
  /\ w.read \in Nat /\ w.product \in Nat /\ w.sale \in Nat /\ w.rate \in Nat
Row(r) ==
  /\ r = [account |-> r.account, amount |-> r.amount, sale |-> r.sale, rate |-> r.rate,
          status |-> r.status, tenant |-> r.tenant]
  /\ r.amount \in Nat /\ r.sale \in Nat /\ r.rate \in Nat /\ r.status \in {"pending", "paid"}
Sold == DOMAIN commission
Of(recs, a) == {c \in DOMAIN recs : recs[c].account = a}

\* What the parts of the state are.
ClerksTyped == DOMAIN clerk = Clerks /\ \A g \in Clerks : clerk[g] = IdleClerk \/ Busy(clerk[g])
RowsTyped ==
  /\ IsFiniteSet(Sold) /\ Sold \subseteq Sales
  /\ \A c \in Sold : Row(commission[c]) /\ commission[c].account \in Accounts
AccountsTyped == IsFiniteSet(Accounts) /\ \A a \in Accounts : resellers[a] \in Nat
CountsTyped == announced \in [EventTypes \X (Shops \cup Sales) -> Nat]

\* One commission is recorded by one clerk, before it exists; it is announced after that.
Recording ==
  /\ \A g, o \in Clerks : g # o /\ clerk[g] # IdleClerk /\ clerk[o] # IdleClerk =>
       clerk[g].c # clerk[o].c
  /\ \A g \in Clerks : clerk[g] # IdleClerk =>
       clerk[g].c \notin unpublished /\ (clerk[g].pc = "add" <=> clerk[g].c \notin Sold)
Unsold == \A c \in Sales \ Sold :
  /\ announced[<<"commission.paid", c>>] = 0 /\ announced[<<"commission.created", c>>] = 0
  /\ c \notin unpublished
Publishing(c) == \E g \in Clerks : clerk[g].pc = "publish" /\ clerk[g].c = c
Told == \A c \in Sold :
  /\ announced[<<"commission.paid", c>>] = IF commission[c].status = "paid" THEN 1 ELSE 0
  /\ announced[<<"commission.created", c>>] = IF c \in unpublished \/ Publishing(c) THEN 0 ELSE 1
Fair == \A c \in Sold : commission[c].rate <= PercentOf => commission[c].amount <= commission[c].sale
\* The balances and what the clerks have read of them.
Meets(read, a) == read <= Earned(a) /\ (a \notin overlapped => read = Earned(a))
Balances == \A a \in Accounts : Meets(resellers[a], a)
Reads == \A g \in Clerks : clerk[g].pc = "add" =>
  /\ clerk[g].account \in Accounts /\ Meets(clerk[g].read, clerk[g].account)
  /\ clerk[g].product <= MaxInt
  /\ clerk[g].rate <= PercentOf => Amount(g) <= clerk[g].sale
Alone == \A g, o \in Clerks :
  g # o /\ clerk[g].pc = "add" /\ clerk[o].pc = "add" /\ clerk[g].account = clerk[o].account =>
    clerk[g].account \in overlapped

SellerInv ==
  /\ ClerksTyped /\ RowsTyped /\ AccountsTyped /\ CountsTyped
  /\ Recording /\ Unsold /\ Told /\ Fair
  /\ Balances /\ Reads /\ Alone

LEMMA EarnedNat ==
  ASSUME RowsTyped, NEW a
  PROVE  Earned(a) \in Nat
<1>1. PICK S : S = Of(commission, a)
  OBVIOUS
<1>2. IsFiniteSet(S) /\ \A c \in S : commission[c].amount \in Nat
  BY <1>1, FS_Subset DEF RowsTyped, Sold, Of, Row
<1>3. Earned(a) = AmountOf(commission, S)
  BY <1>1 DEF Earned, Of
<1> QED BY <1>2, <1>3, AmountNat

LEMMA NothingEarned ==
  ASSUME RowsTyped, NEW a, a \notin Accounts
  PROVE  Earned(a) = 0
<1>1. Of(commission, a) = {}
  BY DEF RowsTyped, Sold, Of
<1>2. Earned(a) = AmountOf(commission, {})
  BY <1>1, Zenon DEF Earned, Of
<1> QED BY <1>2, AmountEmpty

LEMMA SellerHolds ==
  ASSUME SellerInv
  PROVE  BooksBalance
<1>1. \A a \in Accounts : resellers[a] <= Earned(a) /\ (a \notin overlapped => resellers[a] = Earned(a))
  BY DEF SellerInv, Balances, Meets
<1>2. ASSUME NEW s \in Shops, NEW a \in Accounts, Cardinality(Accounts) = 1
      PROVE  SumPending(s) <= Earned(a)
  <2>1. PICK U, S : /\ U = {c \in DOMAIN commission :
                              commission[c].tenant = s /\ commission[c].status = "pending"}
                    /\ S = Of(commission, a)
    OBVIOUS
  <2>2. Accounts = {a}
    BY <1>2, FS_Singleton DEF SellerInv, AccountsTyped
  <2>3. U \in SUBSET S
    BY <2>1, <2>2 DEF SellerInv, RowsTyped, Sold, Of
  <2>4. IsFiniteSet(S) /\ \A c \in S : commission[c].amount \in Nat
    BY <2>1, FS_Subset DEF SellerInv, RowsTyped, Sold, Of, Row
  <2>5. AmountOf(commission, U) <= AmountOf(commission, S)
    BY <2>3, <2>4, AmountMono
  <2>6. SumPending(s) = AmountOf(commission, U) /\ Earned(a) = AmountOf(commission, S)
    BY <2>1, Zenon DEF SumPending, Earned, Of
  <2> QED BY <2>5, <2>6
<1>3. \A g \in Clerks : clerk[g].pc = "add" => clerk[g].product <= MaxInt
  BY DEF SellerInv, Reads
<1> QED BY <1>1, <1>2, <1>3 DEF SellerInv, Told, Publishing, Fair, Sold, BooksBalance

LEMMA SellerStarts == ASSUME ResellerInit PROVE SellerInv
<1>1. DOMAIN resellers = {} /\ DOMAIN commission = {} /\ IsFiniteSet({})
  BY FS_EmptySet DEF ResellerInit
<1>2. DOMAIN clerk = Clerks /\ \A g \in Clerks : clerk[g] = IdleClerk /\ clerk[g].pc = "idle"
  BY DEF ResellerInit, IdleClerk
<1>3. ClerksTyped /\ RowsTyped /\ AccountsTyped
  BY <1>1, <1>2 DEF ClerksTyped, RowsTyped, AccountsTyped, Sold, Accounts
<1>4. CountsTyped
  BY DEF ResellerInit, CountsTyped
<1>5. Recording /\ Reads /\ Alone
  BY <1>2 DEF Recording, Reads, Alone
<1>6. Unsold
  BY DEF ResellerInit, Unsold, EventTypes
<1>7. Told /\ Fair /\ Balances
  BY <1>1 DEF Told, Fair, Balances, Sold, Accounts
<1> QED BY <1>3, <1>4, <1>5, <1>6, <1>7 DEF SellerInv

\* An announcement counts one event.
LEMMA Counted ==
  ASSUME CountsTyped, NEW type \in EventTypes, NEW id \in Shops \cup Sales, Announce(type, id)
  PROVE  /\ CountsTyped'
         /\ announced'[<<type, id>>] = announced[<<type, id>>] + 1
         /\ \A t \in EventTypes, i \in Shops \cup Sales :
              t # type \/ i # id => announced'[<<t, i>>] = announced[<<t, i>>]
<1>1. announced' = [announced EXCEPT ![<<type, id>>] = announced[<<type, id>>] + 1]
  BY DEF Announce
<1>2. <<type, id>> \in EventTypes \X (Shops \cup Sales) /\ announced[<<type, id>>] \in Nat
  BY DEF CountsTyped
<1>3. announced' \in [EventTypes \X (Shops \cup Sales) -> Nat]
  BY <1>1, <1>2 DEF CountsTyped
<1>4. announced'[<<type, id>>] = announced[<<type, id>>] + 1
  BY <1>1, <1>2 DEF CountsTyped
<1>5. \A t \in EventTypes, i \in Shops \cup Sales :
        t # type \/ i # id => announced'[<<t, i>>] = announced[<<t, i>>]
  BY <1>1 DEF CountsTyped
<1> QED BY <1>3, <1>4, <1>5 DEF CountsTyped

\* What no commission is touched by.
LEMMA ShopsQuiet ==
  ASSUME SellerInv, UNCHANGED <<resellers, commission, clerk, overlapped, unpublished>>, CountsTyped',
         \A t \in {"commission.created", "commission.paid"}, c \in Sales :
           announced'[<<t, c>>] = announced[<<t, c>>]
  PROVE  SellerInv'
<1>1. Sold' = Sold /\ Accounts' = Accounts /\ Sold \subseteq Sales
  BY DEF SellerInv, RowsTyped, Sold, Accounts
<1>2. \A a : Earned(a)' = Earned(a)
  BY DEF Earned
<1>3. ClerksTyped' /\ RowsTyped' /\ AccountsTyped'
  BY <1>1 DEF SellerInv, ClerksTyped, RowsTyped, AccountsTyped
<1>4. Recording' /\ Alone'
  BY <1>1 DEF SellerInv, Recording, Alone
<1>5. Balances' /\ Reads'
  BY <1>1, <1>2 DEF SellerInv, Balances, Reads, Meets, Amount
<1>6. Unsold'
  BY <1>1 DEF SellerInv, Unsold
<1>7. Told'
  <2>1. \A c : Publishing(c)' <=> Publishing(c)
    BY DEF Publishing
  <2> QED BY <1>1, <2>1 DEF SellerInv, Told
<1>8. Fair'
  BY <1>1 DEF SellerInv, Fair
<1> QED BY <1>3, <1>4, <1>5, <1>6, <1>7, <1>8 DEF SellerInv

LEMMA ShopsKeep ==
  ASSUME SellerInv, NEW s \in Shops,
         \/ \E owner \in Owners \cup {"pending"} : CreateTenant(s, owner)
         \/ \E owner \in Owners : SetTenantOwner(s, owner)
         \/ UpdateBranding(s)
  PROVE  SellerInv'
<1>1. CountsTyped
  BY DEF SellerInv
<1>2. UNCHANGED <<resellers, commission, clerk, overlapped, unpublished>>
  BY DEF CreateTenant, SetTenantOwner, UpdateBranding
<1>3. Announce("tenant.created", s) \/ Announce("tenant.updated", s) \/ UNCHANGED announced
  BY DEF CreateTenant, SetTenantOwner, UpdateBranding
<1>4. CountsTyped' /\ \A t \in {"commission.created", "commission.paid"}, c \in Sales :
         announced'[<<t, c>>] = announced[<<t, c>>]
  <2>1. CASE UNCHANGED announced
    BY <1>1, <2>1 DEF CountsTyped
  <2>2. ASSUME NEW type \in {"tenant.created", "tenant.updated"}, Announce(type, s)
        PROVE  CountsTyped' /\ \A t \in {"commission.created", "commission.paid"}, c \in Sales :
                 announced'[<<t, c>>] = announced[<<t, c>>]
    <3>1. type \in EventTypes /\ s \in Shops \cup Sales
      BY DEF EventTypes
    <3>2. CountsTyped' /\ \A t \in EventTypes, i \in Shops \cup Sales :
            t # type \/ i # s => announced'[<<t, i>>] = announced[<<t, i>>]
      BY <1>1, <2>2, <3>1, Counted
    <3>3. {"commission.created", "commission.paid"} \subseteq EventTypes /\ type # "commission.created"
          /\ type # "commission.paid"
      BY DEF EventTypes
    <3> QED BY <3>2, <3>3
  <2> QED BY <1>3, <2>1, <2>2
<1> QED BY <1>2, <1>4, ShopsQuiet

LEMMA AccountKeeps ==
  ASSUME SellerInv, NEW s \in Shops, NEW u \in Owners, NEW rate \in Rates,
         CreateResellerAccount(s, u, rate)
  PROVE  SellerInv'
<1>1. PICK a : a = <<s, u>>
  OBVIOUS
<1>2. /\ a \notin Accounts /\ UNCHANGED <<commission, clerk, overlapped, unpublished>>
      /\ resellers' = [b \in Accounts \cup {a} |-> IF b \in Accounts THEN resellers[b] ELSE 0]
      /\ Announce("reseller.created", s)
  BY <1>1 DEF CreateResellerAccount
<1>3. /\ Sold' = Sold /\ Accounts' = Accounts \cup {a} /\ Sold \subseteq Sales /\ resellers'[a] = 0
      /\ \A b \in Accounts : resellers'[b] = resellers[b]
  BY <1>2 DEF SellerInv, RowsTyped, Sold, Accounts
<1>4. \A b : Earned(b)' = Earned(b)
  BY <1>2 DEF Earned
<1>5. CountsTyped' /\ \A t \in {"commission.created", "commission.paid"}, c \in Sales :
         announced'[<<t, c>>] = announced[<<t, c>>]
  <2>1. "reseller.created" \in EventTypes /\ s \in Shops \cup Sales
        /\ {"commission.created", "commission.paid"} \subseteq EventTypes
    BY DEF EventTypes
  <2>2. CountsTyped' /\ \A t \in EventTypes, i \in Shops \cup Sales :
          t # "reseller.created" \/ i # s => announced'[<<t, i>>] = announced[<<t, i>>]
    BY <1>2, <2>1, Counted DEF SellerInv
  <2> QED BY <2>1, <2>2
<1>6. ClerksTyped' /\ RowsTyped'
  BY <1>2, <1>3 DEF SellerInv, ClerksTyped, RowsTyped
<1>7. AccountsTyped'
  <2>1. IsFiniteSet(Accounts \cup {a})
    BY FS_AddElement DEF SellerInv, AccountsTyped
  <2> QED BY <1>3, <2>1 DEF SellerInv, AccountsTyped
<1>8. Recording' /\ Alone'
  BY <1>2, <1>3 DEF SellerInv, Recording, Alone
<1>9. Balances'
  <2>1. Earned(a) = 0
    BY <1>2, NothingEarned DEF SellerInv
  <2> QED BY <1>2, <1>3, <1>4, <2>1 DEF SellerInv, Balances, Meets
<1>10. Reads'
  BY <1>2, <1>3, <1>4 DEF SellerInv, Reads, Meets, Amount
<1>11. Unsold' /\ Fair'
  BY <1>2, <1>3, <1>5 DEF SellerInv, Unsold, Fair
<1>12. Told'
  <2>1. \A c : Publishing(c)' <=> Publishing(c)
    BY <1>2 DEF Publishing
  <2> QED BY <1>2, <1>3, <1>5, <2>1 DEF SellerInv, Told
<1> QED BY <1>5, <1>6, <1>7, <1>8, <1>9, <1>10, <1>11, <1>12 DEF SellerInv

\* A product that does not overflow, and a share of the sale.
LEMMA ProductFits ==
  ASSUME NEW sale \in Nat, NEW rate \in Nat, ~Overflows(sale, rate)
  PROVE  /\ sale * rate \in Nat /\ sale * rate <= MaxInt /\ (sale * rate) \div PercentOf \in Nat
         /\ rate <= PercentOf => (sale * rate) \div PercentOf <= sale
<1>1. MaxInt \in Nat
  BY ResellerAssumption
<1>2. sale * rate \in Nat
  OBVIOUS
<1>3. sale * rate <= MaxInt
  <2>1. CASE sale = 0 \/ rate = 0
    BY <1>1, <2>1
  <2>2. CASE sale # 0 /\ rate # 0
    <3>1. PICK q : q = MaxInt \div rate
      OBVIOUS
    <3>2. q \in Nat /\ q * rate <= MaxInt /\ sale <= q
      BY <1>1, <2>2, <3>1 DEF Overflows
    <3>3. sale * rate <= q * rate
      BY <3>2
    <3> QED BY <1>1, <1>2, <3>2, <3>3
  <2> QED BY <2>1, <2>2
<1>4. (sale * rate) \div PercentOf \in Nat
  BY <1>2 DEF PercentOf
<1>5. ASSUME rate <= PercentOf
      PROVE  (sale * rate) \div PercentOf <= sale
  <2>1. sale * rate <= sale * 100
    BY <1>5 DEF PercentOf
  <2>2. PICK p : p = sale * rate
    OBVIOUS
  <2>3. p \in Nat /\ p <= 100 * sale
    BY <1>2, <2>1, <2>2
  <2>4. p \div 100 <= sale
    BY <2>3
  <2> QED BY <2>2, <2>4 DEF PercentOf
<1> QED BY <1>2, <1>3, <1>4, <1>5

LEMMA RecordKeeps ==
  ASSUME SellerInv, NEW g \in Clerks, NEW a \in Accounts, NEW c \in Sales, NEW sale \in SaleAmounts,
         NEW rate \in Rates, NEW scope \in Shops \cup {"*"}, RecordCommission(g, a, c, sale, rate, scope)
  PROVE  SellerInv'
<1>1. sale \in Nat /\ rate \in Nat
  BY ResellerAssumption
<1>2. PICK w : w = [pc |-> "add", account |-> a, c |-> c, read |-> resellers[a],
                    product |-> sale * rate, sale |-> sale, rate |-> rate, tenant |-> scope]
  OBVIOUS
<1>3. /\ clerk[g] = IdleClerk /\ c \notin DOMAIN commission
      /\ \A o \in Clerks : clerk[o] # IdleClerk => clerk[o].c # c
      /\ ~Overflows(sale, rate) /\ clerk' = [clerk EXCEPT ![g] = w]
      /\ UNCHANGED <<tenant, resellers, commission, announced, unpublished>>
  BY <1>2 DEF RecordCommission
<1>4. /\ overlapped \subseteq overlapped'
      /\ (\E o \in Clerks \ {g} : clerk[o].pc = "add" /\ clerk[o].account = a) => a \in overlapped'
      /\ \A b : b \in overlapped' => b \in overlapped \/ b = a
  BY DEF RecordCommission
<1>5. Sold' = Sold /\ Accounts' = Accounts /\ c \notin Sold
  BY <1>3 DEF Sold, Accounts
<1>6. \A b : Earned(b)' = Earned(b)
  BY <1>3 DEF Earned
<1>7. DOMAIN clerk' = Clerks /\ clerk'[g] = w /\ \A o \in Clerks \ {g} : clerk'[o] = clerk[o]
  BY <1>3 DEF SellerInv, ClerksTyped
<1>8. /\ w.pc = "add" /\ w.account = a /\ w.c = c /\ w.read = resellers[a] /\ w.product = sale * rate
      /\ w.sale = sale /\ w.rate = rate /\ w # IdleClerk /\ clerk[g].pc = "idle"
  BY <1>2, <1>3 DEF IdleClerk
<1>9. resellers[a] \in Nat
  BY DEF SellerInv, AccountsTyped
<1>10. ClerksTyped'
  <2>1. Busy(w)
    BY <1>1, <1>2, <1>9 DEF Busy
  <2> QED BY <1>7, <2>1 DEF SellerInv, ClerksTyped
<1>11. RowsTyped' /\ AccountsTyped' /\ CountsTyped'
  BY <1>3, <1>5 DEF SellerInv, RowsTyped, AccountsTyped, CountsTyped
<1>12. Recording'
  <2>1. c \notin unpublished
    BY <1>5 DEF SellerInv, Unsold
  <2> QED BY <1>3, <1>5, <1>7, <1>8, <2>1 DEF SellerInv, Recording
<1>13. Unsold' /\ Fair'
  BY <1>3, <1>5 DEF SellerInv, Unsold, Fair
<1>14. Told'
  <2>1. \A d : Publishing(d)' <=> Publishing(d)
    BY <1>7, <1>8 DEF Publishing
  <2> QED BY <1>3, <1>5, <2>1 DEF SellerInv, Told
<1>15. Balances'
  BY <1>3, <1>4, <1>5, <1>6 DEF SellerInv, Balances, Meets
<1>16. Reads'
  <2>1. Meets(resellers[a], a)'
    BY <1>3, <1>5, <1>15 DEF Balances
  <2>2. ASSUME NEW o \in Clerks, clerk'[o].pc = "add"
        PROVE  /\ clerk'[o].account \in Accounts' /\ Meets(clerk[o].read, clerk[o].account)'
               /\ clerk'[o].product <= MaxInt
               /\ clerk'[o].rate <= PercentOf => Amount(o)' <= clerk'[o].sale
    <3>1. CASE o = g
      <4>1. clerk'[o].read = resellers[a] /\ clerk'[o].account = a
        BY <1>7, <1>8, <3>1
      <4>2. Meets(clerk[o].read, clerk[o].account)'
        BY <1>3, <2>1, <4>1 DEF Meets
      <4>3. sale * rate <= MaxInt /\ (rate <= PercentOf => (sale * rate) \div PercentOf <= sale)
        BY <1>1, <1>3, ProductFits
      <4>4. clerk'[o].product = sale * rate /\ clerk'[o].rate = rate /\ clerk'[o].sale = sale
        BY <1>7, <1>8, <3>1
      <4> QED BY <1>5, <4>1, <4>2, <4>3, <4>4 DEF Amount
    <3>2. CASE o # g
      <4>1. clerk'[o] = clerk[o] /\ clerk[o].pc = "add"
        BY <1>7, <2>2, <3>2
      <4>2. /\ clerk[o].account \in Accounts /\ Meets(clerk[o].read, clerk[o].account)
            /\ clerk[o].product <= MaxInt
            /\ clerk[o].rate <= PercentOf => Amount(o) <= clerk[o].sale
        BY <4>1 DEF SellerInv, Reads
      <4>3. Meets(clerk[o].read, clerk[o].account)'
        BY <1>4, <1>6, <4>1, <4>2 DEF Meets
      <4> QED BY <1>5, <4>1, <4>2, <4>3 DEF Amount
    <3> QED BY <3>1, <3>2
  <2> QED BY <2>2 DEF Reads
<1>17. Alone'
  BY <1>4, <1>7, <1>8 DEF SellerInv, Alone
<1> QED BY <1>10, <1>11, <1>12, <1>13, <1>14, <1>15, <1>16, <1>17 DEF SellerInv

LEMMA CommitKeeps ==
  ASSUME SellerInv, NEW g \in Clerks, CommitCommission(g)
  PROVE  SellerInv'
<1>1. PICK w, a, x : w = clerk[g] /\ a = w.account /\ x = w.c
  OBVIOUS
<1>2. PICK row : row = [account |-> a, amount |-> Amount(g), sale |-> w.sale, rate |-> w.rate,
                        status |-> "pending", tenant |-> w.tenant]
  OBVIOUS
<1>3. /\ clerk[g].pc = "add" /\ clerk' = [clerk EXCEPT ![g].pc = "publish"]
      /\ resellers' = [resellers EXCEPT ![a] = w.read + Amount(g)]
      /\ commission' = [c \in DOMAIN commission \cup {x} |-> IF c = x THEN row ELSE commission[c]]
      /\ UNCHANGED <<tenant, announced, overlapped, unpublished>>
  BY <1>1, <1>2 DEF CommitCommission, UpdateResellerBalance
<1>4. Busy(w) /\ clerk[g] # IdleClerk
  BY <1>1, <1>3 DEF SellerInv, ClerksTyped, IdleClerk
<1>5. x \in Sales /\ x \notin Sold /\ x \notin unpublished
  BY <1>1, <1>3, <1>4 DEF SellerInv, Recording, Busy
<1>6. /\ a \in Accounts /\ Meets(w.read, a) /\ w.product <= MaxInt
      /\ w.rate <= PercentOf => Amount(g) <= w.sale
  BY <1>1, <1>3 DEF SellerInv, Reads
<1>7. Amount(g) \in Nat
  <2>1. clerk[g].product \in Nat
    BY <1>1, <1>4 DEF Busy
  <2> QED BY <2>1 DEF Amount, PercentOf
<1>8. /\ Sold' = Sold \cup {x} /\ commission'[x] = row /\ \A c \in Sold : commission'[c] = commission[c]
  BY <1>3, <1>5 DEF Sold
<1>9. /\ Accounts' = Accounts /\ resellers'[a] = w.read + Amount(g)
      /\ \A b \in Accounts : b # a => resellers'[b] = resellers[b]
  BY <1>3, <1>6 DEF Accounts
<1>10. PICK v : v = [w EXCEPT !.pc = "publish"]
  OBVIOUS
<1>11. DOMAIN clerk' = Clerks /\ clerk'[g] = v /\ \A o \in Clerks \ {g} : clerk'[o] = clerk[o]
  <2>1. DOMAIN clerk = Clerks
    BY DEF SellerInv, ClerksTyped
  <2> QED BY <1>1, <1>3, <1>10, <2>1
<1>12. Busy(v) /\ v.pc = "publish" /\ v.c = x /\ v # IdleClerk
  <2>1. v = [pc |-> "publish", account |-> w.account, c |-> w.c, read |-> w.read, product |-> w.product,
             sale |-> w.sale, rate |-> w.rate, tenant |-> w.tenant]
    BY <1>4, <1>10 DEF Busy
  <2>2. v.pc = "publish" /\ v.c = x /\ v # IdleClerk
    BY <1>1, <2>1 DEF IdleClerk
  <2>3. Busy(v)
    BY <1>4, <2>1 DEF Busy
  <2> QED BY <2>2, <2>3
<1>13. /\ Row(row) /\ row.account = a /\ row.amount = Amount(g) /\ row.sale = w.sale
       /\ row.rate = w.rate /\ row.status = "pending"
  BY <1>2, <1>4, <1>7 DEF Row, Busy
<1>14. RowsTyped'
  <2>1. IsFiniteSet(Sold \cup {x})
    BY FS_AddElement DEF SellerInv, RowsTyped
  <2> QED BY <1>5, <1>6, <1>8, <1>9, <1>13, <2>1 DEF SellerInv, RowsTyped
<1>15. Earned(a)' = Earned(a) + Amount(g)
  <2>1. PICK S, recs : S = Of(commission, a) /\ recs = commission'
    OBVIOUS
  <2>2. /\ Of(recs, a) = S \cup {x} /\ x \notin S /\ IsFiniteSet(S)
        /\ \A c \in S : recs[c].amount = commission[c].amount /\ recs[c].amount \in Nat
        /\ recs[x].amount = Amount(g)
    <3>1. S \subseteq Sold /\ IsFiniteSet(S)
      BY <2>1, FS_Subset DEF SellerInv, RowsTyped, Of, Sold
    <3>2. Of(recs, a) = S \cup {x} /\ x \notin S
      BY <1>5, <1>8, <1>13, <2>1 DEF Of, Sold
    <3>3. \A c \in S : recs[c].amount = commission[c].amount /\ recs[c].amount \in Nat
      BY <1>8, <2>1, <3>1 DEF SellerInv, RowsTyped, Row
    <3> QED BY <1>8, <1>13, <2>1, <3>1, <3>2, <3>3
  <2>3. AmountOf(recs, S \cup {x}) = AmountOf(recs, S) + recs[x].amount
    BY <1>7, <2>2, AmountAdd
  <2>4. AmountOf(recs, S) = AmountOf(commission, S)
    BY <2>2, AmountKept
  <2>5. Earned(a)' = AmountOf(recs, Of(recs, a)) /\ Earned(a) = AmountOf(commission, S)
    BY <2>1, Zenon DEF Earned, Of
  <2> QED BY <2>2, <2>3, <2>4, <2>5, Zenon
<1>16. \A b \in Accounts : b # a => Earned(b)' = Earned(b)
  <2>1. SUFFICES ASSUME NEW b \in Accounts, b # a
                 PROVE  Earned(b)' = Earned(b)
    OBVIOUS
  <2>2. PICK S, recs : S = Of(commission, b) /\ recs = commission'
    OBVIOUS
  <2>3. Of(recs, b) = S /\ IsFiniteSet(S) /\ S \subseteq Sold
    <3>1. S \subseteq Sold /\ IsFiniteSet(S)
      BY <2>2, FS_Subset DEF SellerInv, RowsTyped, Of, Sold
    <3>2. DOMAIN recs = Sold \cup {x} /\ recs[x].account = a /\ \A c \in Sold : recs[c] = commission[c]
      BY <1>8, <1>13, <2>2 DEF Sold
    <3>3. Of(recs, b) = S
      <4>1. ASSUME NEW c \in Of(recs, b)
            PROVE  c \in S
        BY <2>1, <2>2, <3>2, <4>1 DEF Of, Sold
      <4>2. ASSUME NEW c \in S
            PROVE  c \in Of(recs, b)
        BY <2>2, <3>2, <4>2 DEF Of, Sold
      <4> QED BY <4>1, <4>2
    <3> QED BY <3>1, <3>3
  <2>4. \A c \in S : recs[c].amount = commission[c].amount
    BY <1>8, <2>2, <2>3
  <2>5. AmountOf(recs, S) = AmountOf(commission, S)
    BY <2>3, <2>4, AmountKept
  <2>6. Earned(b)' = AmountOf(recs, Of(recs, b)) /\ Earned(b) = AmountOf(commission, S)
    BY <2>2, Zenon DEF Earned, Of
  <2> QED BY <2>3, <2>5, <2>6, Zenon
<1>17. Earned(a) \in Nat /\ w.read \in Nat
  BY <1>4, EarnedNat DEF SellerInv, Busy
<1>18. overlapped' = overlapped
  BY <1>3
<1>19. ClerksTyped'
  BY <1>11, <1>12 DEF SellerInv, ClerksTyped
<1>20. AccountsTyped'
  BY <1>7, <1>9, <1>17 DEF SellerInv, AccountsTyped
<1>21. CountsTyped'
  BY <1>3 DEF SellerInv, CountsTyped
<1>22. Recording'
  <2>1. \A o \in Clerks \ {g} : clerk[o] # IdleClerk => clerk[o].c # x
    BY <1>1, <1>4 DEF SellerInv, Recording
  <2>2. \A p, o \in Clerks : p # o /\ clerk'[p] # IdleClerk /\ clerk'[o] # IdleClerk =>
          clerk'[p].c # clerk'[o].c
    BY <1>11, <1>12, <2>1 DEF SellerInv, Recording
  <2>3. ASSUME NEW o \in Clerks, clerk'[o] # IdleClerk
        PROVE  clerk'[o].c \notin unpublished /\ (clerk'[o].pc = "add" <=> clerk'[o].c \notin Sold')
    <3>1. CASE o = g
      BY <1>5, <1>8, <1>11, <1>12, <3>1
    <3>2. CASE o # g
      <4>1. clerk'[o] = clerk[o] /\ clerk[o] # IdleClerk /\ clerk[o].c # x
        BY <1>11, <2>1, <2>3, <3>2
      <4>2. clerk[o].c \notin unpublished /\ (clerk[o].pc = "add" <=> clerk[o].c \notin Sold)
        BY <4>1 DEF SellerInv, Recording
      <4> QED BY <1>8, <4>1, <4>2
    <3> QED BY <3>1, <3>2
  <2>4. unpublished' = unpublished
    BY <1>3
  <2> QED BY <2>2, <2>3, <2>4 DEF Recording
<1>23. Unsold'
  BY <1>3, <1>8 DEF SellerInv, Unsold
<1>24. Told'
  <2>1. announced[<<"commission.paid", x>>] = 0 /\ announced[<<"commission.created", x>>] = 0
    BY <1>5 DEF SellerInv, Unsold
  <2>2. Publishing(x)'
    BY <1>11, <1>12 DEF Publishing
  <2>3. \A c \in Sold : Publishing(c)' <=> Publishing(c)
    BY <1>1, <1>3, <1>5, <1>11, <1>12 DEF Publishing
  <2>4. \A c \in Sold : /\ announced[<<"commission.paid", c>>] = IF commission[c].status = "paid" THEN 1 ELSE 0
                        /\ announced[<<"commission.created", c>>] =
                             IF c \in unpublished \/ Publishing(c) THEN 0 ELSE 1
    BY DEF SellerInv, Told
  <2> QED BY <1>3, <1>8, <1>13, <2>1, <2>2, <2>3, <2>4 DEF Told
<1>25. Fair'
  BY <1>6, <1>8, <1>13 DEF SellerInv, Fair
<1>26. Balances'
  <2>1. Meets(resellers[a], a)'
    <3>1. w.read <= Earned(a) /\ (a \notin overlapped => w.read = Earned(a))
      BY <1>6 DEF Meets
    <3>2. w.read + Amount(g) <= Earned(a) + Amount(g)
      BY <1>7, <1>17, <3>1
    <3> QED BY <1>9, <1>15, <1>18, <3>1, <3>2 DEF Meets
  <2>2. ASSUME NEW b \in Accounts, b # a
        PROVE  Meets(resellers[b], b)'
    <3>1. Meets(resellers[b], b)
      BY DEF SellerInv, Balances
    <3> QED BY <1>9, <1>16, <1>18, <2>2, <3>1 DEF Meets
  <2> QED BY <1>9, <2>1, <2>2 DEF Balances
<1>27. Reads'
  <2>1. ASSUME NEW o \in Clerks, clerk'[o].pc = "add"
        PROVE  /\ clerk'[o].account \in Accounts' /\ Meets(clerk[o].read, clerk[o].account)'
               /\ clerk'[o].product <= MaxInt
               /\ clerk'[o].rate <= PercentOf => Amount(o)' <= clerk'[o].sale
    <3>1. o # g /\ clerk'[o] = clerk[o] /\ clerk[o].pc = "add"
      BY <1>11, <1>12, <2>1
    <3>2. /\ clerk[o].account \in Accounts /\ Meets(clerk[o].read, clerk[o].account)
          /\ clerk[o].product <= MaxInt
          /\ clerk[o].rate <= PercentOf => Amount(o) <= clerk[o].sale
      BY <3>1 DEF SellerInv, Reads
    <3>3. Meets(clerk[o].read, clerk[o].account)'
      <4>1. CASE clerk[o].account = a
        <5>1. a \in overlapped
          BY <1>1, <1>3, <3>1, <4>1 DEF SellerInv, Alone
        <5>2. clerk[o].read <= Earned(a) /\ clerk[o].read \in Nat
          <6>1. Busy(clerk[o])
            BY <3>1 DEF SellerInv, ClerksTyped, IdleClerk
          <6> QED BY <3>2, <4>1, <6>1 DEF Meets, Busy
        <5>3. clerk[o].read <= Earned(a) + Amount(g)
          BY <1>7, <1>17, <5>2
        <5> QED BY <1>15, <1>18, <3>1, <4>1, <5>1, <5>3 DEF Meets
      <4>2. CASE clerk[o].account # a
        BY <1>16, <1>18, <3>1, <3>2, <4>2 DEF Meets
      <4> QED BY <4>1, <4>2
    <3> QED BY <1>9, <3>1, <3>2, <3>3 DEF Amount
  <2> QED BY <2>1 DEF Reads
<1>28. Alone'
  BY <1>11, <1>12, <1>18 DEF SellerInv, Alone
<1> QED BY <1>14, <1>19, <1>20, <1>21, <1>22, <1>23, <1>24, <1>25, <1>26, <1>27, <1>28 DEF SellerInv

\* A clerk that is idle again leaves what the others hold.
LEMMA ClerkFree ==
  ASSUME SellerInv, NEW g \in Clerks, clerk' = [clerk EXCEPT ![g] = IdleClerk],
         UNCHANGED <<resellers, commission, overlapped>>
  PROVE  /\ \A o \in Clerks \ {g} : clerk'[o] = clerk[o]
         /\ clerk'[g] = IdleClerk /\ Sold' = Sold /\ Accounts' = Accounts /\ Sold \subseteq Sales
         /\ ClerksTyped' /\ RowsTyped' /\ AccountsTyped' /\ Fair' /\ Balances' /\ Reads' /\ Alone'
<1>1. /\ DOMAIN clerk' = Clerks /\ clerk'[g] = IdleClerk /\ clerk'[g].pc = "idle"
      /\ \A o \in Clerks \ {g} : clerk'[o] = clerk[o]
  BY DEF SellerInv, ClerksTyped, IdleClerk
<1>2. Sold' = Sold /\ Accounts' = Accounts /\ Sold \subseteq Sales
  BY DEF SellerInv, RowsTyped, Sold, Accounts
<1>3. \A a : Earned(a)' = Earned(a)
  BY DEF Earned
<1>4. ClerksTyped' /\ RowsTyped' /\ AccountsTyped' /\ Fair'
  BY <1>1, <1>2 DEF SellerInv, ClerksTyped, RowsTyped, AccountsTyped, Fair
<1>5. Balances' /\ Alone'
  BY <1>1, <1>2, <1>3 DEF SellerInv, Balances, Meets, Alone
<1>6. Reads'
  <2>1. ASSUME NEW o \in Clerks, clerk'[o].pc = "add"
        PROVE  /\ clerk'[o].account \in Accounts' /\ Meets(clerk[o].read, clerk[o].account)'
               /\ clerk'[o].product <= MaxInt
               /\ clerk'[o].rate <= PercentOf => Amount(o)' <= clerk'[o].sale
    <3>1. clerk'[o] = clerk[o] /\ clerk[o].pc = "add"
      BY <1>1, <2>1
    <3>2. /\ clerk[o].account \in Accounts /\ Meets(clerk[o].read, clerk[o].account)
          /\ clerk[o].product <= MaxInt
          /\ clerk[o].rate <= PercentOf => Amount(o) <= clerk[o].sale
      BY <3>1 DEF SellerInv, Reads
    <3> QED BY <1>2, <1>3, <3>1, <3>2 DEF Meets, Amount
  <2> QED BY <2>1 DEF Reads
<1> QED BY <1>1, <1>2, <1>4, <1>5, <1>6

LEMMA AbortKeeps ==
  ASSUME SellerInv, NEW g \in Clerks, AbortCommission(g)
  PROVE  SellerInv'
<1>1. /\ clerk[g].pc = "add" /\ clerk' = [clerk EXCEPT ![g] = IdleClerk]
      /\ UNCHANGED <<resellers, commission, announced, overlapped, unpublished>>
  BY DEF AbortCommission
<1>2. /\ \A o \in Clerks \ {g} : clerk'[o] = clerk[o]
      /\ clerk'[g] = IdleClerk /\ Sold' = Sold /\ Accounts' = Accounts /\ Sold \subseteq Sales
      /\ ClerksTyped' /\ RowsTyped' /\ AccountsTyped' /\ Fair' /\ Balances' /\ Reads' /\ Alone'
  BY <1>1, ClerkFree
<1>3. CountsTyped'
  BY <1>1 DEF SellerInv, CountsTyped
<1>4. Unsold'
  BY <1>1, <1>2 DEF SellerInv, Unsold
<1>5. Recording'
  BY <1>1, <1>2 DEF SellerInv, Recording
<1>6. Told'
  <2>1. IdleClerk.pc = "idle"
    BY DEF IdleClerk
  <2>2. \A c : Publishing(c)' <=> Publishing(c)
    BY <1>1, <1>2, <2>1 DEF Publishing
  <2> QED BY <1>1, <1>2, <2>2 DEF SellerInv, Told
<1> QED BY <1>2, <1>3, <1>4, <1>5, <1>6 DEF SellerInv

LEMMA PublishKeeps ==
  ASSUME SellerInv, NEW g \in Clerks, PublishCreated(g)
  PROVE  SellerInv'
<1>1. PICK x : x = clerk[g].c
  OBVIOUS
<1>2. /\ clerk[g].pc = "publish" /\ clerk' = [clerk EXCEPT ![g] = IdleClerk]
      /\ UNCHANGED <<resellers, commission, overlapped>>
      /\ \/ Announce("commission.created", x) /\ UNCHANGED unpublished
         \/ unpublished' = unpublished \cup {x} /\ UNCHANGED announced
  BY <1>1 DEF PublishCreated
<1>3. /\ \A o \in Clerks \ {g} : clerk'[o] = clerk[o]
      /\ clerk'[g] = IdleClerk /\ Sold' = Sold /\ Accounts' = Accounts /\ Sold \subseteq Sales
      /\ ClerksTyped' /\ RowsTyped' /\ AccountsTyped' /\ Fair' /\ Balances' /\ Reads' /\ Alone'
  BY <1>2, ClerkFree
<1>4. clerk[g] # IdleClerk /\ IdleClerk.pc = "idle"
  BY <1>2 DEF IdleClerk
<1>5. Busy(clerk[g])
  BY <1>4 DEF SellerInv, ClerksTyped
<1>6. x \in Sold /\ x \notin unpublished /\ \A o \in Clerks \ {g} : clerk[o] # IdleClerk => clerk[o].c # x
  <2>1. x \in Sales
    BY <1>1, <1>5 DEF Busy
  <2>2. clerk[g].pc # "add"
    BY <1>2
  <2> QED BY <1>1, <1>4, <2>1, <2>2 DEF SellerInv, Recording
<1>7. \A c : c # x => (Publishing(c)' <=> Publishing(c))
  BY <1>1, <1>2, <1>3, <1>4 DEF Publishing
<1>8. ~Publishing(x)' /\ Publishing(x)
  <2>1. ~Publishing(x)'
    <3>1. ASSUME NEW o \in Clerks, clerk'[o].pc = "publish", clerk'[o].c = x
          PROVE  FALSE
      <4>1. o # g /\ clerk'[o] = clerk[o]
        BY <1>3, <1>4, <3>1
      <4>2. clerk[o] # IdleClerk
        BY <1>4, <3>1, <4>1
      <4> QED BY <1>6, <3>1, <4>1, <4>2
    <3> QED BY <3>1 DEF Publishing
  <2> QED BY <1>1, <1>2, <2>1 DEF Publishing
<1>9. announced[<<"commission.created", x>>] = 0
  BY <1>6, <1>8 DEF SellerInv, Told
<1>10. /\ CountsTyped'
       /\ \A c \in Sales : announced'[<<"commission.paid", c>>] = announced[<<"commission.paid", c>>]
       /\ \A c \in Sales \ {x} :
            announced'[<<"commission.created", c>>] = announced[<<"commission.created", c>>]
       /\ announced'[<<"commission.created", x>>] = IF x \in unpublished' THEN 0 ELSE 1
  <2>1. CASE unpublished' = unpublished \cup {x} /\ UNCHANGED announced
    BY <1>9, <2>1 DEF SellerInv, CountsTyped
  <2>2. CASE Announce("commission.created", x) /\ UNCHANGED unpublished
    <3>1. "commission.created" \in EventTypes /\ "commission.paid" \in EventTypes /\ x \in Shops \cup Sales
      BY <1>3, <1>6 DEF EventTypes
    <3>2. /\ CountsTyped'
          /\ announced'[<<"commission.created", x>>] = announced[<<"commission.created", x>>] + 1
          /\ \A t \in EventTypes, i \in Shops \cup Sales :
               t # "commission.created" \/ i # x => announced'[<<t, i>>] = announced[<<t, i>>]
      BY <2>2, <3>1, Counted DEF SellerInv
    <3> QED BY <1>6, <1>9, <2>2, <3>1, <3>2
  <2> QED BY <1>2, <2>1, <2>2
<1>11. (\A c : c # x => (c \in unpublished' <=> c \in unpublished))
  BY <1>2
<1>12. Recording'
  <2>1. \A p, o \in Clerks : p # o /\ clerk'[p] # IdleClerk /\ clerk'[o] # IdleClerk =>
          clerk'[p].c # clerk'[o].c
    BY <1>3 DEF SellerInv, Recording
  <2>2. ASSUME NEW o \in Clerks, clerk'[o] # IdleClerk
        PROVE  clerk'[o].c \notin unpublished' /\ (clerk'[o].pc = "add" <=> clerk'[o].c \notin Sold')
    <3>1. o # g /\ clerk'[o] = clerk[o]
      BY <1>3, <2>2
    <3>2. clerk[o].c # x
      BY <1>6, <2>2, <3>1
    <3>3. clerk[o].c \notin unpublished /\ (clerk[o].pc = "add" <=> clerk[o].c \notin Sold)
      BY <2>2, <3>1 DEF SellerInv, Recording
    <3> QED BY <1>3, <1>11, <3>1, <3>2, <3>3
  <2> QED BY <2>1, <2>2 DEF Recording
<1>13. Unsold'
  BY <1>3, <1>6, <1>10, <1>11 DEF SellerInv, Unsold
<1>14. Told'
  <2>1. ASSUME NEW c \in Sold
        PROVE  /\ announced'[<<"commission.paid", c>>] = IF commission[c].status = "paid" THEN 1 ELSE 0
               /\ announced'[<<"commission.created", c>>] =
                    IF c \in unpublished' \/ Publishing(c)' THEN 0 ELSE 1
    <3>1. /\ announced[<<"commission.paid", c>>] = IF commission[c].status = "paid" THEN 1 ELSE 0
          /\ announced[<<"commission.created", c>>] = IF c \in unpublished \/ Publishing(c) THEN 0 ELSE 1
          /\ c \in Sales
      BY <1>3 DEF SellerInv, Told
    <3>2. announced'[<<"commission.paid", c>>] = announced[<<"commission.paid", c>>]
      BY <1>10, <3>1
    <3>3. CASE c = x
      BY <1>8, <1>10, <3>1, <3>2, <3>3
    <3>4. CASE c # x
      BY <1>7, <1>10, <1>11, <3>1, <3>2, <3>4
    <3> QED BY <3>3, <3>4
  <2> QED BY <1>2, <1>3, <2>1 DEF Told
<1> QED BY <1>3, <1>10, <1>12, <1>13, <1>14 DEF SellerInv

LEMMA PaidKeeps ==
  ASSUME SellerInv, NEW x \in Sales, MarkCommissionPaid(x)
  PROVE  SellerInv'
<1>1. /\ x \in Sold /\ commission[x].status = "pending"
      /\ commission' = [commission EXCEPT ![x].status = "paid"]
      /\ Announce("commission.paid", x)
      /\ UNCHANGED <<resellers, clerk, overlapped, unpublished>>
  BY DEF MarkCommissionPaid, CanTransitionToPaid, Sold
<1>2. PICK r : r = [commission[x] EXCEPT !.status = "paid"]
  OBVIOUS
<1>3. Row(commission[x]) /\ commission[x].account \in Accounts
  BY <1>1 DEF SellerInv, RowsTyped
<1>4. /\ Row(r) /\ r.status = "paid" /\ r.account = commission[x].account
      /\ r.amount = commission[x].amount /\ r.sale = commission[x].sale /\ r.rate = commission[x].rate
  <2>1. r = [account |-> commission[x].account, amount |-> commission[x].amount,
             sale |-> commission[x].sale, rate |-> commission[x].rate, status |-> "paid",
             tenant |-> commission[x].tenant]
    BY <1>2, <1>3 DEF Row
  <2>2. /\ r.status = "paid" /\ r.account = commission[x].account /\ r.amount = commission[x].amount
        /\ r.sale = commission[x].sale /\ r.rate = commission[x].rate
    BY <2>1
  <2>3. Row(r)
    BY <1>3, <2>1 DEF Row
  <2> QED BY <2>2, <2>3
<1>5. /\ Sold' = Sold /\ Sold \subseteq Sales /\ Accounts' = Accounts /\ commission'[x] = r
      /\ \A c \in Sold \ {x} : commission'[c] = commission[c]
  BY <1>1, <1>2 DEF SellerInv, RowsTyped, Sold, Accounts
<1>6. \A c \in Sold : /\ commission'[c].account = commission[c].account
                      /\ commission'[c].amount = commission[c].amount
                      /\ commission'[c].sale = commission[c].sale
                      /\ commission'[c].rate = commission[c].rate
  BY <1>4, <1>5
<1>7. \A a : Earned(a)' = Earned(a)
  <2>1. SUFFICES ASSUME NEW a
                 PROVE  Earned(a)' = Earned(a)
    OBVIOUS
  <2>2. PICK S, recs : S = Of(commission, a) /\ recs = commission'
    OBVIOUS
  <2>3. S \subseteq Sold /\ IsFiniteSet(S)
    BY <2>2, FS_Subset DEF SellerInv, RowsTyped, Of, Sold
  <2>4. \A c \in S : recs[c].amount = commission[c].amount
    BY <1>6, <2>2, <2>3
  <2>5. Of(recs, a) = S
    <3>1. DOMAIN recs = Sold /\ \A c \in Sold : recs[c].account = commission[c].account
      BY <1>5, <1>6, <2>2 DEF Sold
    <3> QED BY <2>2, <3>1 DEF Of, Sold
  <2>6. AmountOf(recs, S) = AmountOf(commission, S)
    BY <2>3, <2>4, AmountKept
  <2>7. Earned(a)' = AmountOf(recs, Of(recs, a)) /\ Earned(a) = AmountOf(commission, S)
    BY <2>2, Zenon DEF Earned, Of
  <2> QED BY <2>5, <2>6, <2>7, Zenon
<1>8. /\ CountsTyped'
      /\ announced'[<<"commission.paid", x>>] = 1
      /\ \A c \in Sales \ {x} : announced'[<<"commission.paid", c>>] = announced[<<"commission.paid", c>>]
      /\ \A c \in Sales : announced'[<<"commission.created", c>>] = announced[<<"commission.created", c>>]
  <2>1. "commission.created" \in EventTypes /\ "commission.paid" \in EventTypes /\ x \in Shops \cup Sales
    BY DEF EventTypes
  <2>2. /\ CountsTyped'
        /\ announced'[<<"commission.paid", x>>] = announced[<<"commission.paid", x>>] + 1
        /\ \A t \in EventTypes, i \in Shops \cup Sales :
             t # "commission.paid" \/ i # x => announced'[<<t, i>>] = announced[<<t, i>>]
    BY <1>1, <2>1, Counted DEF SellerInv
  <2>3. announced[<<"commission.paid", x>>] = 0
    BY <1>1 DEF SellerInv, Told
  <2> QED BY <2>1, <2>2, <2>3
<1>9. ClerksTyped' /\ Recording' /\ Alone'
  BY <1>1, <1>5 DEF SellerInv, ClerksTyped, Recording, Alone
<1>10. RowsTyped' /\ AccountsTyped'
  BY <1>1, <1>3, <1>4, <1>5 DEF SellerInv, RowsTyped, AccountsTyped
<1>11. Unsold'
  BY <1>1, <1>5, <1>8 DEF SellerInv, Unsold
<1>12. Fair'
  BY <1>5, <1>6 DEF SellerInv, Fair
<1>13. Balances' /\ Reads'
  <2>1. overlapped' = overlapped /\ resellers' = resellers /\ clerk' = clerk
    BY <1>1
  <2>2. Balances'
    BY <1>5, <1>7, <2>1 DEF SellerInv, Balances, Meets
  <2>3. Reads'
    BY <1>5, <1>7, <2>1 DEF SellerInv, Reads, Meets, Amount
  <2> QED BY <2>2, <2>3
<1>14. Told'
  <2>1. ASSUME NEW c \in Sold
        PROVE  /\ announced'[<<"commission.paid", c>>] = IF commission'[c].status = "paid" THEN 1 ELSE 0
               /\ announced'[<<"commission.created", c>>] =
                    IF c \in unpublished \/ Publishing(c) THEN 0 ELSE 1
    <3>1. /\ announced[<<"commission.paid", c>>] = IF commission[c].status = "paid" THEN 1 ELSE 0
          /\ announced[<<"commission.created", c>>] = IF c \in unpublished \/ Publishing(c) THEN 0 ELSE 1
          /\ c \in Sales
      BY <1>5 DEF SellerInv, Told
    <3>2. CASE c = x
      BY <1>4, <1>5, <1>8, <3>1, <3>2
    <3>3. CASE c # x
      BY <1>5, <1>8, <3>1, <3>3
    <3> QED BY <3>2, <3>3
  <2>2. \A c : Publishing(c)' <=> Publishing(c)
    BY <1>1 DEF Publishing
  <2> QED BY <1>1, <1>5, <2>1, <2>2 DEF Told
<1> QED BY <1>8, <1>9, <1>10, <1>11, <1>12, <1>13, <1>14 DEF SellerInv

LEMMA SellersKeep ==
  ASSUME SellerInv, [ResellerNext]_resellerVars
  PROVE  SellerInv'
<1>1. CASE UNCHANGED resellerVars
  <2>1. UNCHANGED <<resellers, commission, clerk, overlapped, unpublished>> /\ UNCHANGED announced
    BY <1>1 DEF resellerVars
  <2>2. CountsTyped'
    BY <2>1 DEF SellerInv, CountsTyped
  <2> QED BY <2>1, <2>2, ShopsQuiet
<1>2. ASSUME NEW s \in Shops,
             \/ \E owner \in Owners \cup {"pending"} : CreateTenant(s, owner)
             \/ \E owner \in Owners : SetTenantOwner(s, owner)
             \/ UpdateBranding(s)
      PROVE  SellerInv'
  BY <1>2, ShopsKeep
<1>3. ASSUME NEW s \in Shops, NEW u \in Owners, NEW rate \in Rates, CreateResellerAccount(s, u, rate)
      PROVE  SellerInv'
  BY <1>3, AccountKeeps
<1>4. ASSUME NEW g \in Clerks, NEW a \in Accounts, NEW c \in Sales, NEW sale \in SaleAmounts,
             NEW rate \in Rates, NEW scope \in Shops \cup {"*"},
             RecordCommission(g, a, c, sale, rate, scope)
      PROVE  SellerInv'
  BY <1>4, RecordKeeps
<1>5. ASSUME NEW g \in Clerks, CommitCommission(g) \/ AbortCommission(g) \/ PublishCreated(g)
      PROVE  SellerInv'
  BY <1>5, CommitKeeps, AbortKeeps, PublishKeeps
<1>6. ASSUME NEW c \in Sales, MarkCommissionPaid(c)
      PROVE  SellerInv'
  BY <1>6, PaidKeeps
<1> QED BY <1>1, <1>2, <1>3, <1>4, <1>5, <1>6 DEF ResellerNext

\* reseller_service.go:343: whatever the interleaving of the clerks, a balance never exceeds
\* what its account earned and equals it unless two of its commissions were recorded at
\* once; a commission is paid once and announced once, and never overflows.
THEOREM BooksAreBalanced == ResellerSpec => []BooksBalance
<1>1. ResellerInit => SellerInv
  BY SellerStarts
<1>2. SellerInv /\ [ResellerNext]_resellerVars => SellerInv'
  BY SellersKeep
<1>3. SellerInv => BooksBalance
  BY SellerHolds
<1> QED BY <1>1, <1>2, <1>3, PTL DEF ResellerSpec
=============================================================================
