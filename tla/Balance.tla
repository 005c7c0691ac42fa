-------------------------------- MODULE Balance --------------------------------
(***************************************************************************)
(* The built-in balance plugin (internal/builtin/balance): the ledger and  *)
(* the wallet documents of one customer, and one top-up request.           *)
(*                                                                         *)
(* Every document access is a transaction of its own, and no operation     *)
(* holds a lock from one access to the next, so an operation is a sequence *)
(* of reads and writes between which other operations run.  Amounts are    *)
(* fixed per operation; one reference per operation stands for one         *)
(* invoice, so calling an operation again is a retry with the same         *)
(* reference.                                                              *)
(***************************************************************************)
EXTENDS Integers, Sequences, FiniteSets, SequencesExt

CONSTANTS
    Callers,        \* goroutines that call the service and the admin handlers
    MaxCalls,       \* bound on their calls
    Cashback,       \* cents a paid invoice gives back
    Charge,         \* cents a payment by balance or a hold takes
    MaxAdjust       \* bound on AdminAdjust

ASSUME BalanceAssumption ==
    /\ Cashback \in Nat \ {0} /\ Charge \in Nat \ {0}
    /\ MaxAdjust \in Nat /\ MaxCalls \in Nat

VARIABLES
    ledger,         \* ledger documents, oldest first
    wallets,        \* wallet documents, oldest first; the code reads the newest
    topup,          \* status of the top-up
    call,           \* calls under way: program counter, operation and what was read
    calls,          \* calls so far
    disturbed       \* history: two calls overlapped or one died half way

balanceVars == <<ledger, wallets, topup, call, calls, disturbed>>

Entry(ref, amt) == [ref |-> ref, amt |-> amt]
Wallet(bal, hold) == [bal |-> bal, hold |-> hold]
Idle == [pc |-> "idle"]
AtRest(c) == call[c] = Idle

BalanceInit ==
    /\ ledger = << >>
    /\ wallets = << >>
    /\ topup = "none"
    /\ call = [c \in Callers |-> Idle]
    /\ calls = 0
    /\ disturbed = FALSE

\* GetAvailableBalance, of the newest wallet document.
Available == IF wallets = << >> THEN 0 ELSE Last(wallets).bal - Last(wallets).hold

Begin(c, pc, entry, hold) ==
    /\ call[c] = Idle
    /\ calls < MaxCalls
    /\ calls' = calls + 1
    /\ call' = [call EXCEPT ![c] = [pc |-> pc, entry |-> entry, hold |-> hold,
                                    doc |-> 0, wallet |-> Wallet(0, 0), to |-> "none"]]
    /\ disturbed' = (disturbed \/ \E d \in Callers \ {c} : ~AtRest(d))
    /\ UNCHANGED <<ledger, wallets, topup>>

Goto(c, pc) == call' = [call EXCEPT ![c].pc = pc] /\ UNCHANGED calls
Return(c) == call' = [call EXCEPT ![c] = Idle] /\ UNCHANGED calls

-----------------------------------------------------------------------------
(* The operations of the service: what each one hands to CreateEntry.       *)

OnInvoicePaid(c) == Begin(c, "scan", Entry(<<"cashback", 0>>, Cashback), 0)

HandleCreateCharge(c) == Begin(c, "scan", Entry(<<"consumption", 0>>, -Charge), 0)

\* ExpiryWorker.Run compensates a bonus that no expire entry refers to.
ExpireBonus(c) ==
    \E i \in DOMAIN ledger :
        /\ ledger[i].ref[1] = "cashback"
        /\ \A j \in DOMAIN ledger : ledger[j].ref # <<"expire", i>>
        /\ Begin(c, "scan", Entry(<<"expire", i>>, -ledger[i].amt), 0)

\* Hold and ReleaseHold change hold_cents first.
Hold(c) == Begin(c, "check_hold", Entry(<<"hold", 0>>, -Charge), Charge)
ReleaseHold(c) == Begin(c, "read_hold", Entry(<<"release", 0>>, Charge), -Charge)

CheckHold(c) ==
    /\ call[c].pc = "check_hold"
    /\ IF Available < call[c].hold THEN Return(c) ELSE Goto(c, "read_hold")
    /\ UNCHANGED <<ledger, wallets, topup, disturbed>>

\* updateWalletHold and updateWalletBalance: read the newest wallet document ...
ReadWallet(c) ==
    /\ call[c].pc \in {"read_hold", "read_wallet"}
    /\ \/ /\ wallets # << >>
          /\ call' = [call EXCEPT ![c].doc = Len(wallets), ![c].wallet = Last(wallets),
                ![c].pc = IF @ = "read_hold" THEN "write_hold" ELSE "write_wallet"]
          /\ UNCHANGED calls
       \/ /\ wallets = << >> /\ call[c].pc = "read_wallet"
          /\ Goto(c, "new_wallet")
       \/ /\ wallets = << >> /\ call[c].pc = "read_hold"
          /\ Return(c)
    /\ UNCHANGED <<ledger, wallets, topup, disturbed>>

\* ... and write it back whole; a negative hold is cut off at zero.
UpdateWalletHold(c) ==
    /\ call[c].pc = "write_hold"
    /\ LET hold == call[c].wallet.hold + call[c].hold
       IN wallets' = [wallets EXCEPT ![call[c].doc] =
                        Wallet(call[c].wallet.bal, IF hold < 0 THEN 0 ELSE hold)]
    /\ Goto(c, "scan")
    /\ UNCHANGED <<ledger, topup, disturbed>>

-----------------------------------------------------------------------------
(* CreateEntry.                                                             *)

\* An entry with the same reference is returned as it is.
Scan(c) ==
    /\ call[c].pc = "scan"
    /\ IF \E i \in DOMAIN ledger : ledger[i].ref = call[c].entry.ref
       THEN Return(c) ELSE Goto(c, "funds")
    /\ UNCHANGED <<ledger, wallets, topup, disturbed>>

\* Mutant: a debit is taken whatever there is.
TakeAnyway(c) ==
    /\ call[c].pc = "funds"
    /\ Goto(c, "insert")
    /\ UNCHANGED <<ledger, wallets, topup, disturbed>>

\* A debit needs available funds.
CheckFunds(c) ==
    /\ call[c].pc = "funds"
    /\ IF call[c].entry.amt < 0 /\ Available + call[c].entry.amt < 0
       THEN Return(c) ELSE Goto(c, "insert")
    /\ UNCHANGED <<ledger, wallets, topup, disturbed>>

InsertEntry(c) ==
    /\ call[c].pc = "insert"
    /\ ledger' = Append(ledger, call[c].entry)
    /\ Goto(c, "read_wallet")
    /\ UNCHANGED <<wallets, topup, disturbed>>

UpdateWalletBalance(c) ==
    /\ call[c].pc \in {"write_wallet", "new_wallet"}
    /\ LET w == call[c].wallet
           amt == call[c].entry.amt
       IN wallets' = IF call[c].pc = "new_wallet"
                     THEN Append(wallets, Wallet(amt, 0))
                     ELSE [wallets EXCEPT ![call[c].doc] = Wallet(w.bal + amt, w.hold)]
    /\ Return(c)
    /\ UNCHANGED <<ledger, topup, disturbed>>

-----------------------------------------------------------------------------
(* Admin handlers write the ledger without touching the wallets.            *)

AdminAdjust ==
    /\ Cardinality({i \in DOMAIN ledger : ledger[i].ref[1] = "adjust"}) < MaxAdjust
    /\ ledger' = Append(ledger, Entry(<<"adjust", Len(ledger)>>, 1))
    /\ UNCHANGED <<wallets, topup, call, calls, disturbed>>

CreateTopUp ==
    /\ topup = "none"
    /\ topup' = "pending"
    /\ UNCHANGED <<ledger, wallets, call, calls, disturbed>>

\* AdminApproveTopUp, AdminRejectTopUp and CancelTopUp read the request ...
LoadTopUp(c, to) ==
    /\ topup # "none"
    /\ \/ to = "completed" /\ topup \in {"pending", "processing"}
       \/ to = "cancelled" /\ topup = "pending"
       \/ to = "failed"
    /\ call[c] = Idle
    /\ calls < MaxCalls
    /\ calls' = calls + 1
    /\ call' = [call EXCEPT ![c] = [pc |-> IF to = "completed" THEN "credit" ELSE "store",
                                    to |-> to]]
    /\ disturbed' = (disturbed \/ \E d \in Callers \ {c} : ~AtRest(d))
    /\ UNCHANGED <<ledger, wallets, topup>>

\* ... approval credits the ledger ...
AdminApproveTopUp(c) ==
    /\ call[c].pc = "credit"
    /\ ledger' = Append(ledger, Entry(<<"topup", 0>>, Cashback))
    /\ Goto(c, "store")
    /\ UNCHANGED <<wallets, topup, disturbed>>

\* ... and the request is written back with its new status.
StoreTopUp(c) ==
    /\ call[c].pc = "store"
    /\ topup' = call[c].to
    /\ Return(c)
    /\ UNCHANGED <<ledger, wallets, disturbed>>

\* The pod dies with the call.
CallDies(c) ==
    /\ ~AtRest(c)
    /\ Return(c)
    /\ disturbed' = TRUE
    /\ UNCHANGED <<ledger, wallets, topup>>

ServiceStep(c) ==
    \/ OnInvoicePaid(c) \/ HandleCreateCharge(c) \/ ExpireBonus(c) \/ Hold(c) \/ ReleaseHold(c)
    \/ CheckHold(c) \/ ReadWallet(c) \/ UpdateWalletHold(c)
    \/ Scan(c) \/ CheckFunds(c) \/ InsertEntry(c) \/ UpdateWalletBalance(c)

AdminStep(c) ==
    \/ \E to \in {"completed", "failed", "cancelled"} : LoadTopUp(c, to)
    \/ AdminApproveTopUp(c) \/ StoreTopUp(c)

BalanceNext ==
    \/ \E c \in Callers : ServiceStep(c) \/ AdminStep(c) \/ CallDies(c)
    \/ AdminAdjust
    \/ CreateTopUp

BalanceSpec == BalanceInit /\ [][BalanceNext]_balanceVars

-----------------------------------------------------------------------------
Quiet == ~disturbed /\ \A c \in Callers : AtRest(c)
ByService(e) == e.ref[1] \notin {"adjust", "topup"}
WalletBalance == IF wallets = << >> THEN 0 ELSE Last(wallets).bal

\* The sum of the first n numbers of w, and of what the service wrote to ledger L.
SumTo(w, n) ==
    LET sum[i \in 0 .. n] == IF i = 0 THEN 0 ELSE sum[i - 1] + w[i]
    IN sum[n]
Written(L) ==
    SumTo([i \in 1 .. Len(L) |-> IF ByService(L[i]) THEN L[i].amt ELSE 0], Len(L))

\* service.go, CreateEntry: "the atomic unit of all balance operations".  It is for
\* calls that follow one another: the wallet then shows the sum of what the service
\* wrote to the ledger, through retries, refusals, holds, releases and expiry, no more
\* is taken than there is, holds included, and a retried operation leaves one entry.
\* And a completed top-up has been credited even when approvals race each other, a
\* rejection or a crash: the credit is written before the status.
WalletMatchesLedger ==
    /\ Quiet => WalletBalance = Written(ledger)
    /\ ~disturbed =>
          /\ Available >= 0
          /\ \A i, j \in DOMAIN ledger : ledger[i].ref = ledger[j].ref => i = j
    /\ topup = "completed" => \E i \in DOMAIN ledger : ledger[i].ref[1] = "topup"
=============================================================================
