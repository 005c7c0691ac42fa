----------------------------- MODULE TenantStore -----------------------------
(***************************************************************************)
(* What lies beneath every service: the pool of connections, TxManager,    *)
(* and the repositories' statements on tables with row-level security.     *)
(*                                                                         *)
(* The scope of a request (a shop, the platform, or none) travels in its   *)
(* context.  RunInTx puts it into a setting of the transaction, which the  *)
(* policies of the tables compare with the tenant of each row; a statement *)
(* outside a transaction goes to any connection of the pool, where the     *)
(* setting is empty.  Statements see what is committed and what their own  *)
(* transaction wrote; rows are locked from the first write or FOR UPDATE   *)
(* until the transaction ends.                                             *)
(***************************************************************************)
EXTENDS Integers, FiniteSets

CONSTANTS
    StoreRequests,  \* requests, bot updates, events and jobs
    StoreConns,     \* the connections of the pool
    StoreShops,     \* the tenants
    StoreIds,       \* the rows that may come to be
    StoreItems,     \* the line items, family members or addons they may have
    MaxStoreValue, MaxStoreCalls, MaxStoreFaults

NoScope == "none"   \* no tenant in the context, no setting, NULL in a column
Platform == "*"     \* tenantctx.PlatformScopeSentinel
NoConn == "no connection"
NoTx == "no transaction"
NoId == "no row"

ASSUME StoreAssumption ==
    /\ StoreShops \cap {NoScope, Platform} = {}
    /\ NoConn \notin StoreConns
    /\ NoTx \notin StoreRequests
    /\ NoId \notin StoreIds
    /\ {MaxStoreValue, MaxStoreCalls, MaxStoreFaults} \subseteq Nat

\* The tables that stamp the setting's tenant, those that are given one, those without.
Stamped == {"subscriptions", "invoices", "family_groups", "payment_records",
            "remnawave_bindings", "commissions"}
GivenTenant == {"platform_users"}
Shared == {"plans"}
StoreTables == Stamped \cup GivenTenant \cup Shared

WithItems == {"invoices", "family_groups", "plans"}
Pruned == {"family_groups", "plans"}

VARIABLES
    rows,       \* the committed rows
    draft,      \* each locked row as the transaction that holds it sees it
    holder,     \* whose transaction holds the lock of each row
    setting,    \* app.tenant_id on each connection
    storeReq,    \* what each request is at
    overwrote,  \* history: an update wrote over a value other than the one read under its lock
    storeCalls, storeFaults

storeVars == <<rows, draft, holder, setting, storeReq, overwrote, storeCalls, storeFaults>>

\* A row with what hangs on it; meant and by are history: the items that it was created with
\* and no update has dropped, and the scope of the last writer.
BlankRow == [table |-> "none", tenant |-> NoScope, value |-> 0, items |-> {}, meant |-> {},
             by |-> NoScope]
NothingRead == [id \in StoreIds |-> BlankRow]
Closed == [at |-> "closed", scope |-> NoScope, conn |-> NoConn, op |-> "none", on |-> NoId,
           todo |-> {}, keep |-> {}, got |-> NothingRead, unloaded |-> {}, locked |-> {}]

Opened(scope) == [Closed EXCEPT !.at = "open", !.scope = scope]

StoreInit ==
    /\ rows = NothingRead /\ draft = NothingRead
    /\ holder = [id \in StoreIds |-> NoTx]
    /\ setting = [c \in StoreConns |-> NoScope]
    /\ storeReq = [s \in StoreRequests |-> Closed]
    /\ overwrote = FALSE
    /\ storeCalls = 0 /\ storeFaults = 0

-----------------------------------------------------------------------------
\* The policies: USING for what is seen, WITH CHECK for what is written.
SeesRow(scope, table, owner) ==
    table \in Shared \/ scope = Platform \/ (owner \in StoreShops /\ scope = owner)
Passes(scope, table, owner) ==
    \/ SeesRow(scope, table, owner)
    \/ table \in GivenTenant /\ owner = NoScope

\* NULLIF(current_setting('app.tenant_id', true), '*')::uuid
Stamp(scope) == IF scope \in StoreShops THEN scope ELSE NoScope

InTx(s) == storeReq[s].conn \in StoreConns
Taken == {storeReq[s].conn : s \in StoreRequests}
\* DBFromContext: the transaction of the context, or any connection that is free.
OnConn(s, c) ==
    /\ storeReq[s].at = "open"
    /\ IF InTx(s) THEN c = storeReq[s].conn ELSE c \notin Taken
Ready(s, c) == OnConn(s, c) /\ storeReq[s].op = "none"
\* The services write in transactions; the tariff plugin writes plans outside of any.
Writes(s, table) == InTx(s) <=> table \notin Shared

Lockable(s, id) == holder[id] \in {s, NoTx}
Version(s, id) == IF holder[id] = s THEN draft[id] ELSE rows[id]
Visible(s, c, table) ==
    {id \in StoreIds : Version(s, id).table = table
                       /\ SeesRow(setting[c], table, Version(s, id).tenant)}

Names(items) == {x.item : x \in items}

Put(s, id, found) ==
    IF InTx(s)
    THEN /\ draft' = [draft EXCEPT ![id] = found]
         /\ holder' = [holder EXCEPT ![id] = s]
         /\ UNCHANGED rows
    ELSE /\ rows' = [rows EXCEPT ![id] = found]
         /\ UNCHANGED <<draft, holder>>
RowsUnchanged == UNCHANGED <<rows, draft, holder>>
Elsewhere == UNCHANGED <<setting, storeCalls, storeFaults>>

-----------------------------------------------------------------------------
\* TenantRLS and its like put the scope into the context.
OpenRequest(s, scope) ==
    /\ storeReq[s].at = "closed"
    /\ storeCalls < MaxStoreCalls
    /\ storeCalls' = storeCalls + 1
    /\ storeReq' = [storeReq EXCEPT ![s] = Opened(scope)]
    /\ RowsUnchanged /\ UNCHANGED <<setting, overwrote, storeFaults>>

CloseRequest(s) ==
    /\ storeReq[s].at = "open" /\ ~InTx(s) /\ storeReq[s].op = "none"
    /\ storeReq' = [storeReq EXCEPT ![s] = Closed]
    /\ RowsUnchanged /\ Elsewhere /\ UNCHANGED overwrote

\* RunInTx inside another RunInTx joins it, with the setting that is there.
BeginTx(s, c) ==
    /\ storeReq[s].at = "open" /\ ~InTx(s) /\ storeReq[s].op = "none"
    /\ c \notin Taken
    /\ storeReq' = [storeReq EXCEPT ![s].conn = c]
    /\ LET scope == storeReq[s].scope
       IN setting' = [setting EXCEPT ![c] = IF scope = NoScope THEN @ ELSE scope]
    /\ RowsUnchanged /\ UNCHANGED <<overwrote, storeCalls, storeFaults>>

\* Mutant: the setting is made for the session.
EndTxOfSession(s) ==
    /\ InTx(s)
    /\ draft' = [id \in StoreIds |-> IF holder[id] = s THEN BlankRow ELSE draft[id]]
    /\ holder' = [id \in StoreIds |-> IF holder[id] = s THEN NoTx ELSE holder[id]]
    /\ UNCHANGED <<setting, overwrote, storeCalls, storeFaults>>

\* The setting was local to the transaction, and its locks go.
EndTx(s) ==
    /\ InTx(s)
    /\ setting' = [setting EXCEPT ![storeReq[s].conn] = NoScope]
    /\ draft' = [id \in StoreIds |-> IF holder[id] = s THEN BlankRow ELSE draft[id]]
    /\ holder' = [id \in StoreIds |-> IF holder[id] = s THEN NoTx ELSE holder[id]]
    /\ UNCHANGED <<overwrote, storeCalls, storeFaults>>

CommitTx(s) ==
    /\ storeReq[s].at = "open" /\ storeReq[s].op = "none"
    /\ rows' = [id \in StoreIds |-> Version(s, id)]
    /\ storeReq' = [storeReq EXCEPT ![s].conn = NoConn, ![s].locked = {}]
    /\ EndTx(s)

\* A statement, the function or the commit returned an error.
RollbackTx(s) ==
    /\ storeReq' = [storeReq EXCEPT ![s] = Opened(@.scope)]
    /\ EndTx(s)
    /\ UNCHANGED rows

\* A policy refuses a row: of a transaction nothing but the rollback is left, elsewhere the
\* repository's method returns and leaves what it has written.
Refused(s) ==
    storeReq' = [storeReq EXCEPT ![s] =
        IF InTx(s) THEN [@ EXCEPT !.at = "failed"]
        ELSE Opened(@.scope)]

\* So it does after any other error of a statement outside a transaction.
StoreFails(s) ==
    /\ storeReq[s].at = "open" /\ ~InTx(s) /\ storeReq[s].op # "none"
    /\ storeFaults < MaxStoreFaults
    /\ storeFaults' = storeFaults + 1
    /\ storeReq' = [storeReq EXCEPT ![s] = Opened(@.scope)]
    /\ RowsUnchanged /\ UNCHANGED <<setting, overwrote, storeCalls>>

-----------------------------------------------------------------------------
\* INSERT of a new id; the method goes on with the items, one statement each.
InsertRow(s, c, table, id, owner, items) ==
    /\ Ready(s, c) /\ Writes(s, table)
    /\ rows[id] = BlankRow /\ holder[id] = NoTx
    /\ IF Passes(setting[c], table, owner)
       THEN /\ Put(s, id, [BlankRow EXCEPT !.table = table, !.tenant = owner,
                                           !.meant = IF InTx(s) THEN items ELSE {},
                                           !.by = storeReq[s].scope])
            /\ storeReq' = IF items = {} THEN storeReq
                          ELSE [storeReq EXCEPT ![s].op = "insert", ![s].on = id, ![s].todo = items]
       ELSE Refused(s) /\ RowsUnchanged
    /\ Elsewhere /\ UNCHANGED overwrote

\* Once a method on the pool has inserted all items, readers may count on them.
InsertItem(s, c) ==
    \E i \in storeReq[s].todo :
        LET id == storeReq[s].on
            v == Version(s, id)
            items == v.items \cup {[item |-> i, tenant |-> Stamp(setting[c])]}
            last == storeReq[s].todo = {i}
        IN /\ OnConn(s, c) /\ storeReq[s].op = "insert"
           /\ Put(s, id, [v EXCEPT !.items = items,
                                   !.meant = IF last /\ ~InTx(s) THEN Names(items) ELSE @])
           /\ storeReq' = [storeReq EXCEPT ![s].todo = @ \ {i},
                                          ![s].op = IF last THEN "none" ELSE @]
           /\ Elsewhere /\ UNCHANGED overwrote

\* What a SELECT leaves in the hands of request s; items come with the next statements.
Fetched(s, table, ids) ==
    [storeReq[s] EXCEPT
        !.got = [id \in StoreIds |-> IF id \in ids THEN [Version(s, id) EXCEPT !.items = {}]
                                     ELSE BlankRow],
        !.unloaded = IF table \in WithItems THEN ids ELSE {},
        !.op = IF table \in WithItems /\ ids # {} THEN "load" ELSE "none"]

SelectRow(s, c, table, id) ==
    /\ Ready(s, c)
    /\ storeReq' = [storeReq EXCEPT ![s] = Fetched(s, table, {id} \cap Visible(s, c, table))]
    /\ RowsUnchanged /\ Elsewhere /\ UNCHANGED overwrote

\* By user, by subscription, by status: some of the rows that are visible.
SelectRows(s, c, table) ==
    /\ Ready(s, c)
    /\ \E ids \in SUBSET Visible(s, c, table) :
         storeReq' = [storeReq EXCEPT ![s] = Fetched(s, table, ids)]
    /\ RowsUnchanged /\ Elsewhere /\ UNCHANGED overwrote

Lock(s, ids) ==
    /\ draft' = [id \in StoreIds |-> IF id \in ids THEN Version(s, id) ELSE draft[id]]
    /\ holder' = [id \in StoreIds |-> IF id \in ids THEN s ELSE holder[id]]
    /\ UNCHANGED rows

\* FOR UPDATE waits for the transaction that holds the row.
SelectForUpdate(s, c, table, id) ==
    LET ids == {id} \cap Visible(s, c, table)
    IN /\ Ready(s, c) /\ InTx(s)
       /\ Lockable(s, id)
       /\ Lock(s, ids)
       /\ storeReq' = [storeReq EXCEPT
            ![s] = [Fetched(s, table, ids) EXCEPT !.locked = @ \cup ids]]
       /\ Elsewhere /\ UNCHANGED overwrote

\* FOR UPDATE SKIP LOCKED does not wait.
SelectSkipLocked(s, c, table) ==
    /\ Ready(s, c) /\ InTx(s)
    /\ \E ids \in SUBSET {id \in Visible(s, c, table) : Lockable(s, id)} :
         /\ Lock(s, ids)
         /\ storeReq' = [storeReq EXCEPT
              ![s] = [Fetched(s, table, ids) EXCEPT !.locked = @ \cup ids]]
    /\ Elsewhere /\ UNCHANGED overwrote

\* The items of the rows ids: of one row after the other, or of a list in one statement.
SelectItems(s, c, ids) ==
    /\ OnConn(s, c) /\ storeReq[s].op = "load" /\ ids # {}
    /\ storeReq' = [storeReq EXCEPT
         ![s].got = [id \in StoreIds |->
             IF id \notin ids THEN @[id]
             ELSE [@[id] EXCEPT
                     !.items = {x \in Version(s, id).items :
                                  SeesRow(setting[c], Version(s, id).table, x.tenant)},
                     !.meant = Version(s, id).meant]],
         ![s].unloaded = @ \ ids,
         ![s].op = IF storeReq[s].unloaded \subseteq ids THEN "none" ELSE @]
    /\ RowsUnchanged /\ Elsewhere /\ UNCHANGED overwrote
LoadItems(s, c) == \E id \in storeReq[s].unloaded : SelectItems(s, c, {id})
BatchLoadItems(s, c) == SelectItems(s, c, storeReq[s].unloaded)

\* UPDATE ... WHERE id writes the aggregate that was read, changed; no row is no error.
UpdateRow(s, c, table, id, owner, keep) ==
    LET v == Version(s, id)
        known == storeReq[s].got[id]
        hit == id \in Visible(s, c, table)
    IN /\ Ready(s, c) /\ Writes(s, table)
       /\ known.table = table /\ known.value < MaxStoreValue
       /\ Lockable(s, id)
       /\ IF hit
          THEN Put(s, id, [v EXCEPT !.value = known.value + 1, !.tenant = owner,
                                    !.by = storeReq[s].scope])
          ELSE RowsUnchanged
       /\ overwrote' = (overwrote \/ (hit /\ id \in storeReq[s].locked /\ v.value # known.value))
       /\ storeReq' = [storeReq EXCEPT
            ![s].got[id].value = known.value + 1,
            ![s].op = IF table \in Pruned THEN "upsert" ELSE "none",
            ![s].on = IF table \in Pruned THEN id ELSE NoId,
            ![s].todo = IF table \in Pruned THEN keep ELSE {},
            ![s].keep = IF table \in Pruned THEN keep ELSE {}]
       /\ Elsewhere

\* INSERT ... ON CONFLICT DO UPDATE, an error when the item is there and not to be seen.
UpsertItem(s, c) ==
    \E i \in storeReq[s].todo :
        LET id == storeReq[s].on
            v == Version(s, id)
            there == {x \in v.items : x.item = i}
            stamp == Stamp(setting[c])
            new == [item |-> i, tenant |-> stamp]
        IN /\ OnConn(s, c) /\ storeReq[s].op = "upsert"
           /\ Lockable(s, id)
           /\ IF \/ ~Passes(setting[c], v.table, stamp)
                 \/ \E x \in there : ~SeesRow(setting[c], v.table, x.tenant)
              THEN Refused(s) /\ RowsUnchanged
              ELSE /\ Put(s, id, [v EXCEPT !.items = IF there = {} THEN @ \cup {new} ELSE @])
                   /\ storeReq' = [storeReq EXCEPT ![s].todo = @ \ {i}]
           /\ Elsewhere /\ UNCHANGED overwrote

\* DELETE of the items that are not among those just written.
DeleteRemovedItems(s, c) ==
    LET id == storeReq[s].on
        v == Version(s, id)
    IN /\ OnConn(s, c) /\ storeReq[s].op = "upsert" /\ storeReq[s].todo = {}
       /\ Lockable(s, id)
       /\ Put(s, id, [v EXCEPT !.items = {x \in @ : \/ x.item \in storeReq[s].keep
                                                    \/ ~SeesRow(setting[c], v.table, x.tenant)},
                          !.meant = @ \cap storeReq[s].keep])
       /\ storeReq' = [storeReq EXCEPT ![s].op = "none", ![s].on = NoId, ![s].keep = {}]
       /\ Elsewhere /\ UNCHANGED overwrote

-----------------------------------------------------------------------------
\* The statements of each repository.  A list may hold any of the visible rows: which ones is
\* a matter of its user, status or time.
InsertStamped(s, c, table, id, items) == InsertRow(s, c, table, id, Stamp(setting[c]), items)
UpdateKept(s, c, table, id, keep) == UpdateRow(s, c, table, id, Version(s, id).tenant, keep)

InsertSubscription(s, c, id) == InsertStamped(s, c, "subscriptions", id, {})
GetSubscriptionByID(s, c, id) == SelectRow(s, c, "subscriptions", id)
SubscriptionForUpdate(s, c, id) == SelectForUpdate(s, c, "subscriptions", id)
GetSubscriptionsByUserID(s, c) == SelectRows(s, c, "subscriptions")
UpdateSubscriptionRow(s, c, id) == UpdateKept(s, c, "subscriptions", id, {})
SubscriptionStatements(s, c) ==
    \/ GetSubscriptionsByUserID(s, c)
    \/ \E id \in StoreIds :
         \/ InsertSubscription(s, c, id)
         \/ GetSubscriptionByID(s, c, id) \/ SubscriptionForUpdate(s, c, id)
         \/ UpdateSubscriptionRow(s, c, id)

\* Invoices are created in a transaction; their line items never change.
InsertInvoice(s, c, id) ==
    \E items \in SUBSET StoreItems : InsertStamped(s, c, "invoices", id, items)
GetInvoiceByID(s, c, id) == SelectRow(s, c, "invoices", id)
InvoiceForUpdate(s, c, id) == SelectForUpdate(s, c, "invoices", id)
GetAllInvoices(s, c) == SelectRows(s, c, "invoices")
UpdateInvoiceRow(s, c, id) == UpdateKept(s, c, "invoices", id, {})
InvoiceStatements(s, c) ==
    \/ GetAllInvoices(s, c)
    \/ \E id \in StoreIds :
         \/ InsertInvoice(s, c, id)
         \/ GetInvoiceByID(s, c, id) \/ InvoiceForUpdate(s, c, id)
         \/ UpdateInvoiceRow(s, c, id)

\* Families are found by their owner as well as by ID.
InsertFamilyGroup(s, c, id) ==
    \E items \in SUBSET StoreItems : InsertStamped(s, c, "family_groups", id, items)
GetFamilyGroup(s, c, id) == SelectRow(s, c, "family_groups", id)
FamilyGroupForUpdate(s, c, id) == SelectForUpdate(s, c, "family_groups", id)
UpdateFamilyGroupRow(s, c, id) ==
    \E keep \in SUBSET StoreItems : UpdateKept(s, c, "family_groups", id, keep)
FamilyStatements(s, c) ==
    \E id \in StoreIds :
      \/ InsertFamilyGroup(s, c, id)
      \/ GetFamilyGroup(s, c, id) \/ FamilyGroupForUpdate(s, c, id)
      \/ UpdateFamilyGroupRow(s, c, id)

InsertPlan(s, c, id) ==
    \E items \in SUBSET StoreItems : InsertRow(s, c, "plans", id, NoScope, items)
GetPlanByID(s, c, id) == SelectRow(s, c, "plans", id)
GetAllPlans(s, c) == SelectRows(s, c, "plans")
UpdatePlanRow(s, c, id) ==
    \E keep \in SUBSET StoreItems : UpdateKept(s, c, "plans", id, keep)
PlanStatements(s, c) ==
    \/ GetAllPlans(s, c)
    \/ \E id \in StoreIds :
         InsertPlan(s, c, id) \/ GetPlanByID(s, c, id) \/ UpdatePlanRow(s, c, id)

CreatePaymentRecord(s, c, id) == InsertStamped(s, c, "payment_records", id, {})
GetPaymentRecord(s, c, id) == SelectRow(s, c, "payment_records", id)
PaymentForUpdate(s, c, id) == SelectForUpdate(s, c, "payment_records", id)
UpdatePaymentRecord(s, c, id) == UpdateKept(s, c, "payment_records", id, {})
PaymentStatements(s, c) ==
    \E id \in StoreIds :
      \/ CreatePaymentRecord(s, c, id)
      \/ GetPaymentRecord(s, c, id) \/ PaymentForUpdate(s, c, id)
      \/ UpdatePaymentRecord(s, c, id)

\* GetFailedForReconciliation claims some of the rows that nobody has locked.
CreateBinding(s, c, id) == InsertStamped(s, c, "remnawave_bindings", id, {})
GetBindingByID(s, c, id) == SelectRow(s, c, "remnawave_bindings", id)
BindingForUpdate(s, c, id) == SelectForUpdate(s, c, "remnawave_bindings", id)
GetBindingsBySubscriptionID(s, c) == SelectRows(s, c, "remnawave_bindings")
GetFailedForReconciliation(s, c) == SelectSkipLocked(s, c, "remnawave_bindings")
UpdateBinding(s, c, id) == UpdateKept(s, c, "remnawave_bindings", id, {})
BindingStatements(s, c) ==
    \/ GetBindingsBySubscriptionID(s, c) \/ GetFailedForReconciliation(s, c)
    \/ \E id \in StoreIds :
         \/ CreateBinding(s, c, id)
         \/ GetBindingByID(s, c, id) \/ BindingForUpdate(s, c, id)
         \/ UpdateBinding(s, c, id)

InsertCommission(s, c, id) == InsertStamped(s, c, "commissions", id, {})
CommissionForUpdate(s, c, id) == SelectForUpdate(s, c, "commissions", id)
GetPendingCommissions(s, c) == SelectRows(s, c, "commissions")
UpdateCommissionRow(s, c, id) == UpdateKept(s, c, "commissions", id, {})
CommissionStatements(s, c) ==
    \/ GetPendingCommissions(s, c)
    \/ \E id \in StoreIds :
         \/ InsertCommission(s, c, id) \/ CommissionForUpdate(s, c, id)
         \/ UpdateCommissionRow(s, c, id)

\* A user is given the tenant of the sign-up, or none; an invitation that is accepted under
\* the platform's scope moves one who has none to a shop.
InsertUser(s, c, id) ==
    \E owner \in StoreShops \cup {NoScope} :
        /\ owner \in {NoScope, storeReq[s].scope} \/ storeReq[s].scope = Platform
        /\ InsertRow(s, c, "platform_users", id, owner, {})
GetUserRow(s, c, id) == SelectRow(s, c, "platform_users", id)
UserForUpdate(s, c, id) == SelectForUpdate(s, c, "platform_users", id)
ListUserRows(s, c) == SelectRows(s, c, "platform_users")
UpdateUserRow(s, c, id) ==
    \E owner \in {Version(s, id).tenant} \cup StoreShops :
        /\ owner # Version(s, id).tenant =>
             storeReq[s].scope = Platform /\ Version(s, id).tenant = NoScope
        /\ UpdateRow(s, c, "platform_users", id, owner, {})
UserStatements(s, c) ==
    \/ ListUserRows(s, c)
    \/ \E id \in StoreIds :
         \/ InsertUser(s, c, id)
         \/ GetUserRow(s, c, id) \/ UserForUpdate(s, c, id)
         \/ UpdateUserRow(s, c, id)

-----------------------------------------------------------------------------
\* One table, and the requests that come to it.
Statements(s, c, table) ==
    \/ table = "subscriptions" /\ SubscriptionStatements(s, c)
    \/ table = "invoices" /\ InvoiceStatements(s, c)
    \/ table = "family_groups" /\ FamilyStatements(s, c)
    \/ table = "plans" /\ PlanStatements(s, c)
    \/ table = "payment_records" /\ PaymentStatements(s, c)
    \/ table = "remnawave_bindings" /\ BindingStatements(s, c)
    \/ table = "commissions" /\ CommissionStatements(s, c)
    \/ table = "platform_users" /\ UserStatements(s, c)

\* Where there are no policies, the scope makes no difference.
Scopes(table) ==
    {NoScope} \cup (IF table \in Shared THEN {} ELSE StoreShops \cup {Platform})

StoreStep(table) ==
    \E s \in StoreRequests :
      \/ \E scope \in Scopes(table) : OpenRequest(s, scope)
      \/ CloseRequest(s) \/ CommitTx(s) \/ RollbackTx(s) \/ StoreFails(s)
      \/ \E c \in StoreConns :
           \/ BeginTx(s, c)
           \/ Statements(s, c, table)
           \/ InsertItem(s, c) \/ UpsertItem(s, c) \/ DeleteRemovedItems(s, c)
           \/ LoadItems(s, c) \/ BatchLoadItems(s, c)

StoreNext == \E table \in StoreTables : StoreStep(table)
StoreSpec == StoreInit /\ [][StoreNext]_storeVars

-----------------------------------------------------------------------------
StoreRow == [table : StoreTables \cup {"none"}, tenant : StoreShops \cup {NoScope},
             value : 0 .. MaxStoreValue,
             items : SUBSET [item : StoreItems, tenant : StoreShops \cup {NoScope}],
             meant : SUBSET StoreItems, by : StoreShops \cup {NoScope, Platform}]
StoreRequest == [at : {"closed", "open", "failed"}, scope : StoreShops \cup {NoScope, Platform},
                 conn : StoreConns \cup {NoConn}, op : {"none", "insert", "load", "upsert"},
                 on : StoreIds \cup {NoId}, todo : SUBSET StoreItems, keep : SUBSET StoreItems,
                 got : [StoreIds -> StoreRow], unloaded : SUBSET StoreIds, locked : SUBSET StoreIds]

\* Every variable has its type.
StoreTypeOK ==
    /\ rows \in [StoreIds -> StoreRow] /\ draft \in [StoreIds -> StoreRow]
    /\ holder \in [StoreIds -> StoreRequests \cup {NoTx}]
    /\ setting \in [StoreConns -> StoreShops \cup {NoScope, Platform}]
    /\ storeReq \in [StoreRequests -> StoreRequest]
    /\ overwrote \in BOOLEAN
    /\ storeCalls \in 0 .. MaxStoreCalls /\ storeFaults \in 0 .. MaxStoreFaults

\* What a request has read belongs to its shop; what a shop owns, only the shop itself or the
\* platform has written; and nobody without a scope has (RunInTx and the policies).
TenantsApart ==
    /\ \A s \in StoreRequests, id \in StoreIds :
         LET found == storeReq[s].got[id]
         IN found.table \notin Shared \cup {"none"} /\ storeReq[s].scope # Platform =>
              /\ found.tenant = storeReq[s].scope
              /\ \A x \in found.items : x.tenant = storeReq[s].scope
    /\ \A id \in StoreIds :
         /\ rows[id].tenant \in StoreShops => rows[id].by \in {Platform, rows[id].tenant}
         /\ rows[id].table \in Stamped => rows[id].by # NoScope

\* An invoice that is read has all of its line items (InvoiceRepository).
ItemsWhole ==
    \A s \in StoreRequests, id \in StoreIds :
      LET found == storeReq[s].got[id]
      IN found.table = "invoices" /\ id \notin storeReq[s].unloaded =>
           Names(found.items) = found.meant

\* An addon that was created stays until an update leaves it out, also while other updates
\* are on their way or have failed (PlanRepository.Update).
AddonsStay ==
    /\ \A id \in StoreIds :
         rows[id].table = "plans" => rows[id].meant \subseteq Names(rows[id].items)
    /\ \A s \in StoreRequests, id \in StoreIds :
         LET found == storeReq[s].got[id]
         IN found.table = "plans" /\ id \notin storeReq[s].unloaded =>
              found.meant \subseteq Names(found.items)

\* No update of a row that was read FOR UPDATE writes over a change it has not seen.
LockedWritesKept == ~overwrote

StoreSafe == StoreTypeOK /\ TenantsApart /\ ItemsWhole /\ AddonsStay /\ LockedWritesKept
=============================================================================
