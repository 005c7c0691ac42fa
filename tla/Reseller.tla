------------------------------- MODULE Reseller -------------------------------
(***************************************************************************)
(* Shops, reseller accounts and commissions (domain/reseller).  Tenants    *)
(* and commissions are changed under SELECT ... FOR UPDATE; the balance of *)
(* an account is read without it, added to in memory and written back.     *)
(***************************************************************************)
EXTENDS Naturals, FiniteSets, FiniteSetsExt

CONSTANTS
    Shops,              \* ids of tenants
    Owners,             \* users that may own a shop
    Sales,              \* commission ids, one per sale
    Clerks,             \* goroutines
    SaleAmounts, Rates, \* what RecordCommission is called with
    MaxInt              \* math.MaxInt64

\* Sales are not negative and neither is the rate of an account.
ASSUME ResellerAssumption == SaleAmounts \subseteq Nat /\ Rates \subseteq Nat /\ MaxInt \in Nat

VARIABLES
    tenant,         \* the rows of reseller.tenants: [owner, branding], or NoTenant
    resellers,      \* the rows of reseller_accounts: <<shop, user>> |-> balance
    commission,     \* the rows of reseller.commissions
    clerk,          \* what each goroutine is doing
    announced,      \* events in the outbox: <<type, id>> |-> number
    overlapped,     \* accounts two goroutines were adding to at once
    unpublished     \* commissions whose created event could not be stored

resellerVars ==
    <<tenant, resellers, commission, clerk, announced, overlapped, unpublished>>

NoTenant == [owner |-> "none", branding |-> 0]
PercentOf == 100
IdleClerk == [pc |-> "idle"]
Accounts == DOMAIN resellers
EventTypes == {"tenant.created", "tenant.updated", "reseller.created",
               "commission.created", "commission.paid"}

ResellerInit ==
    /\ tenant = [s \in Shops |-> NoTenant]
    /\ resellers = << >>
    /\ commission = << >>
    /\ clerk = [g \in Clerks |-> IdleClerk]
    /\ announced = [e \in EventTypes \X (Shops \cup Sales) |-> 0]
    /\ overlapped = {}
    /\ unpublished = {}

Announce(type, id) == announced' = [announced EXCEPT ![<<type, id>>] = @ + 1]

Founded(s) == tenant[s] # NoTenant

-----------------------------------------------------------------------------
\* CreateTenant: with an owner, or "pending" for one who has yet to accept.
CreateTenant(s, owner) ==
    /\ ~Founded(s)
    /\ tenant' = [tenant EXCEPT ![s] = [owner |-> owner, branding |-> 1]]
    /\ Announce("tenant.created", s)
    /\ UNCHANGED <<resellers, commission, clerk, overlapped, unpublished>>

\* SetTenantOwner: replaces an owner too.  No event.
SetTenantOwner(s, owner) ==
    /\ Founded(s)
    /\ tenant' = [tenant EXCEPT ![s].owner = owner]
    /\ UNCHANGED <<resellers, commission, clerk, announced, overlapped, unpublished>>

\* UpdateBranding: UpdateTenant writes every column but the owner's.
UpdateBranding(s) ==
    /\ Founded(s)
    /\ tenant[s].branding = 1
    /\ tenant' = [tenant EXCEPT ![s].branding = 2]
    /\ Announce("tenant.updated", s)
    /\ UNCHANGED <<resellers, commission, clerk, overlapped, unpublished>>

\* CreateResellerAccount: one per shop and user.
CreateResellerAccount(s, u, rate) ==
    /\ Founded(s)
    /\ rate <= PercentOf
    /\ <<s, u>> \notin Accounts
    /\ resellers' = [a \in Accounts \cup {<<s, u>>} |-> IF a \in Accounts THEN resellers[a] ELSE 0]
    /\ Announce("reseller.created", s)
    /\ UNCHANGED <<tenant, commission, clerk, overlapped, unpublished>>

-----------------------------------------------------------------------------
\* safeCommissionAmount refuses what would not fit.
Overflows(sale, rate) == sale # 0 /\ rate # 0 /\ sale > MaxInt \div rate

\* RecordCommission: the commission is inserted and the account is read.  scope is
\* the tenant of the session, "*" for the platform's own.
RecordCommission(g, a, c, sale, rate, scope) ==
    /\ clerk[g] = IdleClerk
    /\ a \in Accounts
    /\ scope \in {a[1], "*"}
    /\ c \notin DOMAIN commission
    /\ \A o \in Clerks : clerk[o] # IdleClerk => clerk[o].c # c
    /\ ~Overflows(sale, rate)
    /\ clerk' = [clerk EXCEPT ![g] =
          [pc |-> "add", account |-> a, c |-> c, read |-> resellers[a], product |-> sale * rate,
           sale |-> sale, rate |-> rate, tenant |-> scope]]
    /\ overlapped' = IF \E o \in Clerks \ {g} : clerk[o].pc = "add" /\ clerk[o].account = a
                     THEN overlapped \cup {a} ELSE overlapped
    /\ UNCHANGED <<tenant, resellers, commission, announced, unpublished>>

Amount(g) == clerk[g].product \div PercentOf

\* UpdateResellerBalance.
UpdateResellerBalance(g, a) == clerk[g].read + Amount(g)

\* The balance is written and the transaction commits.
CommitCommission(g) ==
    /\ clerk[g].pc = "add"
    /\ LET a == clerk[g].account
           row == [account |-> a, amount |-> Amount(g), sale |-> clerk[g].sale,
                   rate |-> clerk[g].rate, status |-> "pending", tenant |-> clerk[g].tenant]
       IN /\ resellers' = [resellers EXCEPT ![a] = UpdateResellerBalance(g, a)]
          /\ commission' = [c \in DOMAIN commission \cup {clerk[g].c} |->
                               IF c = clerk[g].c THEN row ELSE commission[c]]
    /\ clerk' = [clerk EXCEPT ![g].pc = "publish"]
    /\ UNCHANGED <<tenant, announced, overlapped, unpublished>>

\* The transaction is rolled back.
AbortCommission(g) ==
    /\ clerk[g].pc = "add"
    /\ clerk' = [clerk EXCEPT ![g] = IdleClerk]
    /\ UNCHANGED <<tenant, resellers, commission, announced, overlapped, unpublished>>

\* After the commit the created event is published; a failure is only logged.
PublishCreated(g) ==
    /\ clerk[g].pc = "publish"
    /\ clerk' = [clerk EXCEPT ![g] = IdleClerk]
    /\ \/ Announce("commission.created", clerk[g].c) /\ UNCHANGED unpublished
       \/ unpublished' = unpublished \cup {clerk[g].c} /\ UNCHANGED announced
    /\ UNCHANGED <<tenant, resellers, commission, overlapped>>

\* Mutant: paid again.
CanPayAgain(c) == announced[<<"commission.paid", c>>] < 2

\* MarkPaid, of a commission that is read FOR UPDATE.
CanTransitionToPaid(c) == commission[c].status = "pending"

\* MarkCommissionPaid: one transaction.  The balance stays.
MarkCommissionPaid(c) ==
    /\ c \in DOMAIN commission
    /\ CanTransitionToPaid(c)
    /\ commission' = [commission EXCEPT ![c].status = "paid"]
    /\ Announce("commission.paid", c)
    /\ UNCHANGED <<tenant, resellers, clerk, overlapped, unpublished>>

ResellerNext ==
    \/ \E s \in Shops :
         \/ \E owner \in Owners \cup {"pending"} : CreateTenant(s, owner)
         \/ \E owner \in Owners : SetTenantOwner(s, owner)
         \/ UpdateBranding(s)
         \/ \E u \in Owners, rate \in Rates : CreateResellerAccount(s, u, rate)
    \/ \E g \in Clerks :
         \/ \E a \in Accounts, c \in Sales, sale \in SaleAmounts, rate \in Rates,
               scope \in Shops \cup {"*"} : RecordCommission(g, a, c, sale, rate, scope)
         \/ CommitCommission(g)
         \/ AbortCommission(g)
         \/ PublishCreated(g)
    \/ \E c \in Sales : MarkCommissionPaid(c)

ResellerSpec == ResellerInit /\ [][ResellerNext]_resellerVars

-----------------------------------------------------------------------------
AmountOf(rows, S) == MapThenSumSet(LAMBDA c : rows[c].amount, S)

\* SumPendingCommissionByTenant and the shop's own list.
SumPending(s) ==
    AmountOf(commission, {c \in DOMAIN commission :
                             commission[c].tenant = s /\ commission[c].status = "pending"})

Earned(a) == AmountOf(commission, {c \in DOMAIN commission : commission[c].account = a})

\* reseller_service.go: a balance never exceeds what the account has earned, and falls
\* short of it only if two commissions of the account were recorded at once; a shop's
\* pending sum is never more than what is owed; an amount was computed without overflow
\* and exceeds no sale at a rate of a hundred percent or less; every commission is paid at
\* most once, with one event, and its creation is announced once unless storing the event
\* failed.
BooksBalance ==
    /\ \A a \in Accounts :
         /\ resellers[a] <= Earned(a)
         /\ a \notin overlapped => resellers[a] = Earned(a)
    /\ \A s \in Shops : \A a \in Accounts :
         Cardinality(Accounts) = 1 => SumPending(s) <= Earned(a)
    /\ \A g \in Clerks : clerk[g].pc = "add" => clerk[g].product <= MaxInt
    /\ \A c \in DOMAIN commission :
         /\ announced[<<"commission.paid", c>>] = IF commission[c].status = "paid" THEN 1 ELSE 0
         /\ announced[<<"commission.created", c>>] =
              IF c \in unpublished \/ \E g \in Clerks : clerk[g].pc = "publish" /\ clerk[g].c = c
              THEN 0 ELSE 1
         /\ commission[c].rate <= PercentOf => commission[c].amount <= commission[c].sale
=============================================================================
