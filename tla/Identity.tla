------------------------------- MODULE Identity -------------------------------
(***************************************************************************)
(* Accounts and sign-in (internal/domain/identity): one customer with an   *)
(* e-mail account and a Telegram account, and the set-up of the first      *)
(* administrator.  Tokens and sessions are looked up outside the           *)
(* transaction that uses them; the account row is read FOR UPDATE and      *)
(* written back whole.  A call that is refused, or fails before its        *)
(* transaction, leaves nothing behind and is not a step.                   *)
(***************************************************************************)
EXTENDS Integers, FiniteSets

CONSTANTS
    Clients,        \* goroutines with a call of the customer, or of an operator
    InitData,       \* payloads Telegram signed for the customer
    MaxIdentity     \* bound on the calls

\* Init data is no number: a sign-in by e-mail is known by the number of its call.
ASSUME IdentityAssumption ==
    /\ MaxIdentity \in Nat
    /\ \A d \in InitData : d \notin Nat
    /\ "none" \notin Clients

VARIABLES
    row,            \* the e-mail account: password version, verified, linked to Telegram
    rowLock,        \* who holds the row, FOR UPDATE
    verification,   \* the verification token has not been used
    resets,         \* live password reset tokens
    native,         \* the Telegram account exists
    nonces,         \* init data used up
    sessions,       \* [n, root, since, who]: number, sign-in, password version, account
    client,         \* calls under way
    issued,         \* calls so far, and the numbers of what they issue
    admins,         \* administrators CreateFirstAdmin created
    bootLock,       \* who holds the bootstrap lock
    crossed         \* history: sign-ins whose calls overlapped with another or a reset

identityVars == <<row, rowLock, verification, resets, native, nonces, sessions, client,
                  issued, admins, bootLock, crossed>>
accountVars == <<row, rowLock, verification, resets>>
signInVars == <<native, nonces, sessions, crossed>>
setupVars == <<admins, bootLock>>

NoClient == [pc |-> "away"]
NoHolder == "none"
NoAccount == [password |-> 0, verified |-> FALSE, telegram |-> FALSE]

IdentityInit ==
    /\ row = NoAccount
    /\ rowLock = NoHolder
    /\ verification = FALSE
    /\ resets = {}
    /\ native = FALSE
    /\ nonces = {}
    /\ sessions = {}
    /\ client = [c \in Clients |-> NoClient]
    /\ issued = 0
    /\ admins = 0
    /\ bootLock = NoHolder
    /\ crossed = {}

\* A call of c has read what r holds and goes on to a transaction.
Call(c, r) ==
    /\ client[c] = NoClient
    /\ issued < MaxIdentity
    /\ issued' = issued + 1
    /\ client' = [client EXCEPT ![c] = r]

Answer(c) == client' = [client EXCEPT ![c] = NoClient]

-----------------------------------------------------------------------------
\* The unique index on e-mail addresses lets one registration through.
Register ==
    /\ row = NoAccount
    /\ row' = [row EXCEPT !.password = 1]
    /\ verification' = TRUE
    /\ UNCHANGED <<rowLock, resets, client, issued, signInVars, setupVars>>

Login(c) ==
    /\ row.password > 0
    /\ Call(c, [pc |-> "issue", root |-> issued, since |-> row.password, who |-> "email"])
    /\ UNCHANGED <<accountVars, signInVars, setupVars>>

\* LoginViaTelegramWebApp claims the init data before it looks for the account.
Consume(c, d) ==
    /\ d \notin nonces
    /\ Call(c, [pc |-> "register", root |-> d])
    /\ nonces' = nonces \cup {d}
    /\ UNCHANGED <<native, sessions, crossed, accountVars, setupVars>>

\* RegisterViaTelegram: who finds no account inserts one; the loser of two inserts
\* looks again in a transaction the unique violation has aborted, and fails.
RegisterViaTelegram(c) ==
    /\ \/ /\ client[c].pc = "register"
          /\ client' = [client EXCEPT ![c] =
                IF native THEN [pc |-> "issue", root |-> @.root, since |-> 0, who |-> "native"]
                          ELSE [pc |-> "insert", root |-> @.root]]
          /\ UNCHANGED native
       \/ /\ client[c].pc = "insert"
          /\ native' = TRUE
          /\ client' = [client EXCEPT ![c] =
                IF native THEN NoClient
                          ELSE [pc |-> "issue", root |-> @.root, since |-> 0, who |-> "native"]]
    /\ UNCHANGED <<nonces, sessions, crossed, issued, accountVars, setupVars>>

Issue(c) ==
    /\ client[c].pc = "issue"
    /\ sessions' = sessions \cup
          {[n |-> issued, root |-> client[c].root, since |-> client[c].since, who |-> client[c].who]}
    /\ Answer(c)
    /\ issued' = issued + 1
    /\ UNCHANGED <<native, nonces, crossed, accountVars, setupVars>>

-----------------------------------------------------------------------------
\* RefreshToken reads the session; its deletion does not ask whether it is still there.
Refresh(c, s) ==
    /\ s \in sessions
    /\ Call(c, [pc |-> "rotate", old |-> s])
    /\ crossed' = IF \E o \in Clients : client[o] = [pc |-> "rotate", old |-> s]
                  THEN crossed \cup {s.root} ELSE crossed
    /\ UNCHANGED <<native, nonces, sessions, accountVars, setupVars>>

Rotate(c) ==
    /\ client[c].pc = "rotate"
    /\ sessions' = (sessions \ {client[c].old}) \cup {[client[c].old EXCEPT !.n = issued]}
    /\ Answer(c)
    /\ issued' = issued + 1
    /\ UNCHANGED <<native, nonces, crossed, accountVars, setupVars>>

\* A session passes its expiry; the cleanup scheduler deletes its row.
ExpireSession(s) ==
    /\ s \in sessions
    /\ sessions' = sessions \ {s}
    /\ UNCHANGED <<native, nonces, client, issued, crossed, accountVars, setupVars>>

-----------------------------------------------------------------------------
\* RequestPasswordReset deletes the tokens it sees and adds one.
RequestReset(c) ==
    /\ row.password > 0
    /\ Call(c, [pc |-> "replace", seen |-> resets])
    /\ UNCHANGED <<accountVars, signInVars, setupVars>>

ReplaceResets(c) ==
    /\ client[c].pc = "replace"
    /\ resets' = (resets \ client[c].seen) \cup {issued}
    /\ Answer(c)
    /\ issued' = issued + 1
    /\ UNCHANGED <<row, rowLock, verification, signInVars, setupVars>>

ExpireReset ==
    /\ resets # {}
    /\ resets' = {}
    /\ UNCHANGED <<row, rowLock, verification, client, issued, signInVars, setupVars>>

\* What writes the account: a reset or verification whose token was found, or a
\* change of profile.
FindReset(c, t) ==
    /\ t \in resets
    /\ Call(c, [pc |-> "lock", op |-> "reset", token |-> t])
    /\ UNCHANGED <<accountVars, signInVars, setupVars>>

FindVerification(c) ==
    /\ verification
    /\ Call(c, [pc |-> "lock", op |-> "verify", token |-> 0])
    /\ UNCHANGED <<accountVars, signInVars, setupVars>>

ChangeProfile(c) ==
    /\ row.password > 0
    /\ \E op \in {"link", "unlink", "rename"} : Call(c, [pc |-> "lock", op |-> op, token |-> 0])
    /\ UNCHANGED <<accountVars, signInVars, setupVars>>

\* Mutant: the account is read without FOR UPDATE.
ReadUser(c) ==
    /\ client[c].pc = "lock"
    /\ client' = [client EXCEPT ![c] = [pc |-> "write", op |-> @.op, token |-> @.token, copy |-> row]]
    /\ UNCHANGED <<accountVars, issued, signInVars, setupVars>>

GetUserByIDForUpdate(c) ==
    /\ client[c].pc = "lock"
    /\ rowLock = NoHolder
    /\ rowLock' = c
    /\ client' = [client EXCEPT ![c] = [pc |-> "write", op |-> @.op, token |-> @.token, copy |-> row]]
    /\ UNCHANGED <<row, verification, resets, issued, signInVars, setupVars>>

\* The aggregate's methods, on the copy that was read.
Changed(u, op) ==
    CASE op = "reset"  -> [u EXCEPT !.password = @ + 1]
      [] op = "verify" -> [u EXCEPT !.verified = TRUE]
      [] op = "link"   -> [u EXCEPT !.telegram = TRUE]
      [] op = "unlink" -> [u EXCEPT !.telegram = FALSE]
      [] op = "rename" -> u

\* Mutant: a password reset leaves the sessions alone.
SessionsAfterAny(op) == sessions

\* ResetPassword deletes every session of the account.
SessionsAfter(op) ==
    IF op = "reset" THEN {s \in sessions : s.who = "native"} ELSE sessions

\* UpdateUser writes the whole copy; the transaction ends.
UpdateUser(c) ==
    /\ client[c].pc = "write"
    /\ LET op == client[c].op IN
       /\ row' = Changed(client[c].copy, op)
       /\ sessions' = SessionsAfter(op)
       /\ resets' = IF op = "reset" THEN resets \ {client[c].token} ELSE resets
       /\ verification' = (verification /\ op # "verify")
       /\ crossed' = IF op # "reset" THEN crossed
                     ELSE crossed
                       \cup {client[o].root : o \in {x \in Clients : client[x].pc = "issue"}}
                       \cup {client[o].old.root : o \in {x \in Clients : client[x].pc = "rotate"}}
    /\ rowLock' = NoHolder
    /\ Answer(c)
    /\ UNCHANGED <<issued, native, nonces, setupVars>>

-----------------------------------------------------------------------------
\* CreateFirstAdmin: the advisory lock is held to the end of the transaction.
SetUp(c) ==
    /\ Call(c, [pc |-> "bootstrap"])
    /\ UNCHANGED <<accountVars, signInVars, setupVars>>

AcquireBootstrapLock(c) ==
    /\ client[c].pc = "bootstrap"
    /\ bootLock = NoHolder
    /\ bootLock' = c
    /\ client' = [client EXCEPT ![c] = [pc |-> "count"]]
    /\ UNCHANGED <<issued, admins, accountVars, signInVars>>

\* The transaction ends at once when there is an administrator.
CountAdmins(c) ==
    /\ client[c].pc = "count"
    /\ client' = [client EXCEPT ![c] = IF admins > 0 THEN NoClient ELSE [pc |-> "create"]]
    /\ bootLock' = IF admins > 0 THEN NoHolder ELSE bootLock
    /\ UNCHANGED <<issued, admins, accountVars, signInVars>>

CreateAdmin(c) ==
    /\ client[c].pc = "create"
    /\ admins' = admins + 1
    /\ bootLock' = NoHolder
    /\ Answer(c)
    /\ UNCHANGED <<issued, accountVars, signInVars>>

\* A transaction is rolled back, or the pod dies: its locks are released.
Fail(c) ==
    /\ client[c] # NoClient
    /\ Answer(c)
    /\ rowLock' = IF rowLock = c THEN NoHolder ELSE rowLock
    /\ bootLock' = IF bootLock = c THEN NoHolder ELSE bootLock
    /\ UNCHANGED <<row, verification, resets, issued, admins, signInVars>>

-----------------------------------------------------------------------------
SignInStep(c) ==
    \/ Login(c) \/ (\E d \in InitData : Consume(c, d)) \/ RegisterViaTelegram(c) \/ Issue(c)
    \/ (\E s \in sessions : Refresh(c, s)) \/ Rotate(c)

AccountStep(c) ==
    \/ RequestReset(c) \/ ReplaceResets(c) \/ (\E t \in resets : FindReset(c, t))
    \/ FindVerification(c) \/ ChangeProfile(c) \/ GetUserByIDForUpdate(c) \/ UpdateUser(c)

SetUpStep(c) == SetUp(c) \/ AcquireBootstrapLock(c) \/ CountAdmins(c) \/ CreateAdmin(c)

IdentityNext ==
    \/ Register \/ ExpireReset \/ \E s \in sessions : ExpireSession(s)
    \/ \E c \in Clients : SignInStep(c) \/ AccountStep(c) \/ SetUpStep(c) \/ Fail(c)

IdentitySpec == IdentityInit /\ [][IdentityNext]_identityVars

-----------------------------------------------------------------------------
\* ResetPassword ends every session that was opened with an older password: what is
\* left was opened with the current one.  A sign-in is at most one session, however
\* often it is refreshed.  Excepted are sign-ins with a login or a refresh under way
\* while the reset commits, which hold what they read before it, and two refreshes of
\* one session that overlap, which both succeed.
SessionsFollowPassword ==
    \A s \in sessions : s.root \notin crossed =>
        /\ s.who = "email" => s.since = row.password
        /\ \A t \in sessions : s.root = t.root => s = t

\* No write of the account undoes another: the password never goes back to an older
\* one, and a verified address stays verified.
WritesKept ==
    [][/\ row'.password >= row.password
       /\ row.verified => row'.verified]_identityVars

\* CreateFirstAdmin creates one administrator, whatever overlaps or fails.
OneFirstAdmin == admins <= 1

\* What sign-in and set-up rely on.
AccountsSafe == SessionsFollowPassword /\ OneFirstAdmin
=============================================================================
