---------------------------- MODULE IdentityProofs ----------------------------
(***************************************************************************)
(* Proofs about Identity, AccessControl and Settings, for any number of    *)
(* clients, accounts, pods, administrators and calls.                      *)
(***************************************************************************)
EXTENDS Identity, AccessControl, Settings, FiniteSetTheorems, TLAPS

Accounts == [password : Nat, verified : BOOLEAN, telegram : BOOLEAN]
Operations == {"reset", "verify", "link", "unlink", "rename"}

\* What names a sign-in: the number of a login's call, or the init data.
Roots == Nat \cup InitData
SessionRecords == [n : Nat, root : Roots, since : Nat, who : {"email", "native"}]

Issuing == [pc : {"issue"}, root : Roots, since : Nat, who : {"email", "native"}]
Registering == [pc : {"register", "insert"}, root : InitData]
Rotating == [pc : {"rotate"}, old : SessionRecords]
Replacing == [pc : {"replace"}, seen : SUBSET Nat]
Locking == [pc : {"lock"}, op : Operations, token : Nat]
Writing == [pc : {"write"}, op : Operations, token : Nat, copy : Accounts]
SettingUp == [pc : {"bootstrap", "count", "create"}]
CallStates == {NoClient} \cup Issuing \cup Registering \cup Rotating \cup Replacing
                \cup Locking \cup Writing \cup SettingUp

IdentityTypeOK ==
    /\ row \in Accounts
    /\ rowLock \in Clients \cup {NoHolder}
    /\ verification \in BOOLEAN
    /\ resets \subseteq Nat
    /\ native \in BOOLEAN
    /\ nonces \subseteq InitData
    /\ sessions \subseteq SessionRecords
    /\ client \in [Clients -> CallStates]
    /\ issued \in Nat
    /\ admins \in Nat
    /\ bootLock \in Clients \cup {NoHolder}
    /\ crossed \subseteq Roots

\* A call that has read the account holds its row and a copy that is still current.
AccountInv ==
    /\ row.password = 0 => row = NoAccount
    /\ verification \/ resets # {} => row.password > 0
    /\ \A c \in Clients :
         /\ client[c].pc \in {"lock", "write", "replace"} => row.password > 0
         /\ client[c].pc = "write" => rowLock = c /\ client[c].copy = row

\* What is known of the sign-in r: it has begun.
Begun(r) == r \in nonces \/ (r \in Nat /\ r < issued)

\* The sign-in a call is about, if any.
Opening == {"issue", "register", "insert"}
About(c, r) ==
    \/ client[c].pc \in Opening /\ client[c].root = r
    \/ client[c].pc = "rotate" /\ client[c].old.root = r

RootsBegun ==
    /\ \A s \in sessions : Begun(s.root)
    /\ \A c \in Clients, r \in Roots : About(c, r) => Begun(r)

EmailHasPassword ==
    /\ \A s \in sessions : s.who = "email" => row.password > 0
    /\ \A c \in Clients :
         /\ client[c].pc = "issue" /\ client[c].who = "email" => row.password > 0
         /\ client[c].pc = "rotate" /\ client[c].old.who = "email" => row.password > 0

\* Two calls are about one sign-in only if it is crossed.
CallsApart ==
    \A c, d \in Clients : \A r \in Roots : About(c, r) /\ About(d, r) => c = d \/ r \in crossed

\* A call that opens a sign-in finds no session of it, and the password it read.
OpenedOnce ==
    \A c \in Clients :
        /\ client[c].pc \in Opening =>
             \A s \in sessions : s.root = client[c].root => s.root \in crossed
        /\ client[c].pc = "issue" /\ client[c].who = "email" =>
             client[c].since = row.password \/ client[c].root \in crossed

\* A call that replaces a session finds no other of its sign-in.
RotatesAlone ==
    \A c \in Clients : client[c].pc = "rotate" /\ client[c].old.root \notin crossed =>
        /\ client[c].old.who = "email" => client[c].old.since = row.password
        /\ \A s \in sessions : s.root = client[c].old.root => s = client[c].old

\* A sign-in that is not crossed is one session, or one call that will open it, or one
\* session and the call that replaces it; by e-mail, with the current password.
SignInInv ==
    RootsBegun /\ EmailHasPassword /\ SessionsFollowPassword
      /\ CallsApart /\ OpenedOnce /\ RotatesAlone

\* The bootstrap lock covers the count and the creation.
SetUpInv ==
    /\ admins <= 1
    /\ \A c \in Clients :
         /\ client[c].pc \in {"count", "create"} => bootLock = c
         /\ client[c].pc = "create" => admins = 0

IdentityInv == IdentityTypeOK /\ AccountInv /\ SignInInv /\ SetUpInv

-----------------------------------------------------------------------------
\* The record a call has follows from its label.
LEMMA CallRecords ==
    ASSUME NEW x \in CallStates
    PROVE  /\ x.pc = "issue" => x \in Issuing
           /\ x.pc \in {"register", "insert"} => x \in Registering
           /\ x.pc = "rotate" => x \in Rotating
           /\ x.pc = "replace" => x \in Replacing
           /\ x.pc = "lock" => x \in Locking
           /\ x.pc = "write" => x \in Writing
  BY DEF CallStates, NoClient, Issuing, Registering, Rotating, Replacing, Locking, Writing, SettingUp

\* The calls after a step that changes one.
LEMMA CallStored ==
    ASSUME client \in [Clients -> CallStates], NEW c \in Clients, NEW r \in CallStates,
           client' = [client EXCEPT ![c] = r]
    PROVE  client' \in [Clients -> CallStates]
  OBVIOUS

\* Call, with the record it stores.
LEMMA CallTyped ==
    ASSUME IdentityTypeOK, NEW c \in Clients, NEW r \in CallStates, Call(c, r)
    PROVE  client' \in [Clients -> CallStates] /\ issued' \in Nat
  BY CallStored DEF Call, IdentityTypeOK

LEMMA AnswerTyped ==
    ASSUME IdentityTypeOK, NEW c \in Clients, Answer(c)
    PROVE  client' \in [Clients -> CallStates]
  BY CallStored DEF Answer, IdentityTypeOK, CallStates

\* What a step that leaves all but the calls and their numbers alone keeps.
LEMMA TypeByCalls ==
    ASSUME IdentityTypeOK, client' \in [Clients -> CallStates], issued' \in Nat,
           UNCHANGED accountVars, UNCHANGED signInVars, UNCHANGED setupVars
    PROVE  IdentityTypeOK'
  BY DEF IdentityTypeOK, accountVars, signInVars, setupVars

LEMMA ChangedTyped ==
    ASSUME NEW u \in Accounts, NEW op \in Operations
    PROVE  Changed(u, op) \in Accounts
<1>1. /\ [u EXCEPT !.password = @ + 1] \in Accounts
      /\ [u EXCEPT !.verified = TRUE] \in Accounts
      /\ [u EXCEPT !.telegram = TRUE] \in Accounts
      /\ [u EXCEPT !.telegram = FALSE] \in Accounts
  <2>1. u.password + 1 \in Nat
    BY DEF Accounts
  <2> QED BY <2>1, Zenon DEF Accounts
<1> QED BY <1>1 DEF Operations, Changed

LEMMA SignInTyped ==
    ASSUME IdentityTypeOK, NEW c \in Clients, SignInStep(c)
    PROVE  IdentityTypeOK'
<1>1. CASE Login(c)
  <2>1. [pc |-> "issue", root |-> issued, since |-> row.password, who |-> "email"] \in CallStates
    BY DEF IdentityTypeOK, CallStates, Issuing, Roots, Accounts
  <2> QED BY <1>1, <2>1, CallTyped, TypeByCalls DEF Login
<1>2. ASSUME NEW d \in InitData, Consume(c, d) PROVE IdentityTypeOK'
  <2>1. [pc |-> "register", root |-> d] \in CallStates
    BY DEF CallStates, Registering
  <2>2. client' \in [Clients -> CallStates] /\ issued' \in Nat
    BY <1>2, <2>1, CallTyped DEF Consume
  <2> QED BY <1>2, <2>2 DEF Consume, IdentityTypeOK, accountVars, setupVars
<1>3. CASE RegisterViaTelegram(c)
  <2>1. /\ client[c].pc \in {"register", "insert"}
        /\ client[c] \in CallStates
    BY <1>3 DEF RegisterViaTelegram, IdentityTypeOK
  <2>2. client[c].root \in InitData
    BY <2>1, CallRecords DEF Registering
  <2>3. /\ [pc |-> "issue", root |-> client[c].root, since |-> 0, who |-> "native"] \in CallStates
        /\ [pc |-> "insert", root |-> client[c].root] \in CallStates
        /\ NoClient \in CallStates
    BY <2>2 DEF CallStates, Issuing, Registering, Roots
  <2>4. PICK r \in CallStates : client' = [client EXCEPT ![c] = r]
    BY <1>3, <2>3 DEF RegisterViaTelegram, IdentityTypeOK
  <2>5. client' \in [Clients -> CallStates]
    BY <2>4, CallStored DEF IdentityTypeOK
  <2> QED BY <1>3, <2>5 DEF RegisterViaTelegram, IdentityTypeOK, accountVars, setupVars
<1>4. CASE Issue(c)
  <2>1. client[c] \in Issuing
    BY <1>4, CallRecords DEF Issue, IdentityTypeOK
  <2>2. [n |-> issued, root |-> client[c].root, since |-> client[c].since, who |-> client[c].who]
          \in SessionRecords
    BY <2>1 DEF Issuing, SessionRecords, IdentityTypeOK
  <2>3. sessions' \subseteq SessionRecords
    BY <1>4, <2>2 DEF Issue, IdentityTypeOK
  <2>4. client' \in [Clients -> CallStates]
    BY <1>4, AnswerTyped DEF Issue
  <2> QED BY <1>4, <2>3, <2>4 DEF Issue, IdentityTypeOK, accountVars, setupVars
<1>5. ASSUME NEW s \in sessions, Refresh(c, s) PROVE IdentityTypeOK'
  <2>1. s \in SessionRecords /\ s.root \in Roots
    BY DEF IdentityTypeOK, SessionRecords
  <2>2. [pc |-> "rotate", old |-> s] \in CallStates
    BY <2>1 DEF CallStates, Rotating
  <2>3. client' \in [Clients -> CallStates] /\ issued' \in Nat
    BY <1>5, <2>2, CallTyped DEF Refresh
  <2>4. crossed' \subseteq Roots
    BY <1>5, <2>1 DEF Refresh, IdentityTypeOK
  <2> QED BY <1>5, <2>3, <2>4 DEF Refresh, IdentityTypeOK, accountVars, setupVars
<1>6. CASE Rotate(c)
  <2>1. client[c] \in Rotating
    BY <1>6, CallRecords DEF Rotate, IdentityTypeOK
  <2>2. [client[c].old EXCEPT !.n = issued] \in SessionRecords
    <3>1. client[c].old \in SessionRecords /\ issued \in Nat
      BY <2>1 DEF Rotating, IdentityTypeOK
    <3> QED BY <3>1 DEF SessionRecords
  <2>3. sessions' \subseteq SessionRecords
    BY <1>6, <2>2 DEF Rotate, IdentityTypeOK
  <2>4. client' \in [Clients -> CallStates]
    BY <1>6, AnswerTyped DEF Rotate
  <2> QED BY <1>6, <2>3, <2>4 DEF Rotate, IdentityTypeOK, accountVars, setupVars
<1> QED BY <1>1, <1>2, <1>3, <1>4, <1>5, <1>6 DEF SignInStep

LEMMA AccountTyped ==
    ASSUME IdentityTypeOK, NEW c \in Clients, AccountStep(c)
    PROVE  IdentityTypeOK'
<1>1. CASE RequestReset(c)
  <2>1. [pc |-> "replace", seen |-> resets] \in CallStates
    BY DEF IdentityTypeOK, CallStates, Replacing
  <2> QED BY <1>1, <2>1, CallTyped, TypeByCalls DEF RequestReset
<1>2. CASE ReplaceResets(c)
  <2>1. client' \in [Clients -> CallStates]
    BY <1>2, AnswerTyped DEF ReplaceResets
  <2>2. resets' \subseteq Nat /\ issued' \in Nat
    <3>1. resets' = (resets \ client[c].seen) \cup {issued} /\ issued' = issued + 1
      BY <1>2 DEF ReplaceResets
    <3>2. resets \subseteq Nat /\ issued \in Nat
      BY DEF IdentityTypeOK
    <3>3. resets' \subseteq Nat
      BY <3>1, <3>2, Zenon
    <3> QED BY <3>1, <3>2, <3>3
  <2> QED BY <1>2, <2>1, <2>2 DEF ReplaceResets, IdentityTypeOK, signInVars, setupVars
<1>3. ASSUME NEW t \in resets, FindReset(c, t) PROVE IdentityTypeOK'
  <2>1. [pc |-> "lock", op |-> "reset", token |-> t] \in CallStates
    BY DEF IdentityTypeOK, CallStates, Locking, Operations
  <2> QED BY <1>3, <2>1, CallTyped, TypeByCalls DEF FindReset
<1>4. CASE FindVerification(c)
  <2>1. [pc |-> "lock", op |-> "verify", token |-> 0] \in CallStates
    BY DEF CallStates, Locking, Operations
  <2> QED BY <1>4, <2>1, CallTyped, TypeByCalls DEF FindVerification
<1>5. CASE ChangeProfile(c)
  <2>1. PICK op \in {"link", "unlink", "rename"} : Call(c, [pc |-> "lock", op |-> op, token |-> 0])
    BY <1>5 DEF ChangeProfile
  <2>2. [pc |-> "lock", op |-> op, token |-> 0] \in CallStates
    BY DEF CallStates, Locking, Operations
  <2> QED BY <1>5, <2>1, <2>2, CallTyped, TypeByCalls DEF ChangeProfile
<1>6. CASE GetUserByIDForUpdate(c)
  <2>1. client[c] \in Locking
    BY <1>6, CallRecords DEF GetUserByIDForUpdate, IdentityTypeOK
  <2>2. [pc |-> "write", op |-> client[c].op, token |-> client[c].token, copy |-> row] \in CallStates
    BY <2>1 DEF Locking, CallStates, Writing, IdentityTypeOK
  <2>3. client' \in [Clients -> CallStates]
    BY <1>6, <2>2, CallStored DEF GetUserByIDForUpdate, IdentityTypeOK
  <2> QED BY <1>6, <2>3 DEF GetUserByIDForUpdate, IdentityTypeOK, signInVars, setupVars
<1>7. CASE UpdateUser(c)
  <2>1. client[c] \in Writing
    BY <1>7, CallRecords DEF UpdateUser, IdentityTypeOK
  <2>2. row' \in Accounts
    BY <1>7, <2>1, ChangedTyped DEF UpdateUser, Writing
  <2>3. sessions' \subseteq SessionRecords
    BY <1>7 DEF UpdateUser, SessionsAfter, IdentityTypeOK
  <2>4. crossed' \subseteq Roots
    <3>1. \A x \in Clients : /\ client[x].pc = "issue" => client[x].root \in Roots
                             /\ client[x].pc = "rotate" => client[x].old.root \in Roots
      BY CallRecords DEF IdentityTypeOK, Issuing, Rotating, SessionRecords
    <3> QED BY <1>7, <3>1 DEF UpdateUser, IdentityTypeOK
  <2>5. client' \in [Clients -> CallStates]
    BY <1>7, AnswerTyped DEF UpdateUser
  <2>6. resets' \subseteq Nat /\ verification' \in BOOLEAN
    BY <1>7 DEF UpdateUser, IdentityTypeOK
  <2> QED BY <1>7, <2>2, <2>3, <2>4, <2>5, <2>6 DEF UpdateUser, IdentityTypeOK, setupVars
<1> QED BY <1>1, <1>2, <1>3, <1>4, <1>5, <1>6, <1>7 DEF AccountStep

LEMMA SetUpTyped ==
    ASSUME IdentityTypeOK, NEW c \in Clients, SetUpStep(c) \/ Fail(c)
    PROVE  IdentityTypeOK'
<1> [pc |-> "bootstrap"] \in CallStates /\ [pc |-> "count"] \in CallStates
      /\ [pc |-> "create"] \in CallStates /\ NoClient \in CallStates
  BY DEF CallStates, SettingUp
<1>1. CASE SetUp(c)
  BY <1>1, CallTyped, TypeByCalls DEF SetUp
<1>2. CASE AcquireBootstrapLock(c)
  BY <1>2 DEF AcquireBootstrapLock, IdentityTypeOK, accountVars, signInVars
<1>3. CASE CountAdmins(c)
  BY <1>3 DEF CountAdmins, IdentityTypeOK, accountVars, signInVars
<1>4. CASE CreateAdmin(c)
  BY <1>4, AnswerTyped DEF CreateAdmin, IdentityTypeOK, accountVars, signInVars
<1>5. CASE Fail(c)
  BY <1>5, AnswerTyped DEF Fail, IdentityTypeOK, signInVars
<1> QED BY <1>1, <1>2, <1>3, <1>4, <1>5 DEF SetUpStep

LEMMA IdentityTypeKept ==
    ASSUME IdentityTypeOK, [IdentityNext]_identityVars
    PROVE  IdentityTypeOK'
<1>1. CASE Register
  BY <1>1 DEF Register, IdentityTypeOK, Accounts, signInVars, setupVars
<1>2. CASE ExpireReset
  BY <1>2 DEF ExpireReset, IdentityTypeOK, signInVars, setupVars
<1>3. ASSUME NEW s \in sessions, ExpireSession(s) PROVE IdentityTypeOK'
  BY <1>3 DEF ExpireSession, IdentityTypeOK, accountVars, setupVars
<1>4. CASE UNCHANGED identityVars
  BY <1>4 DEF identityVars, IdentityTypeOK
<1> QED BY <1>1, <1>2, <1>3, <1>4, SignInTyped, AccountTyped, SetUpTyped DEF IdentityNext

-----------------------------------------------------------------------------
\* Only the call of c changes.
Only(c) == \A d \in Clients : d # c => client'[d] = client[d]

LEMMA OneCallChanges ==
    ASSUME IdentityTypeOK, NEW c \in Clients, NEW r, client' = [client EXCEPT ![c] = r]
    PROVE  Only(c) /\ client'[c] = r
  BY DEF IdentityTypeOK, Only

LEMMA CallChanges ==
    ASSUME IdentityTypeOK, NEW c \in Clients, NEW r, Call(c, r)
    PROVE  Only(c) /\ client'[c] = r /\ client[c] = NoClient /\ issued' = issued + 1
  BY OneCallChanges DEF Call

LEMMA AnswerChanges ==
    ASSUME IdentityTypeOK, NEW c \in Clients, Answer(c)
    PROVE  Only(c) /\ client'[c] = NoClient
  BY OneCallChanges DEF Answer

\* A call that does not touch the account keeps what is said of the account.
LEMMA AccountByCall ==
    ASSUME AccountInv, NEW c \in Clients, Only(c),
           client'[c].pc # "write", client'[c].pc \in {"lock", "replace"} => row.password > 0,
           row' = row, verification' = verification, resets' = resets,
           \A d \in Clients : d # c /\ rowLock = d => rowLock' = d
    PROVE  AccountInv'
  BY DEF AccountInv, Only

LEMMA SignInCalls ==
    ASSUME IdentityTypeOK, NEW c \in Clients, SignInStep(c)
    PROVE  Only(c) /\ client'[c].pc \in {"away", "issue", "register", "insert", "rotate"}
<1>1. CASE Login(c)
  BY <1>1, CallChanges DEF Login
<1>2. CASE \E d \in InitData : Consume(c, d)
  BY <1>2, CallChanges DEF Consume
<1>3. CASE RegisterViaTelegram(c)
  BY <1>3, OneCallChanges DEF RegisterViaTelegram, NoClient
<1>4. CASE Issue(c)
  BY <1>4, AnswerChanges DEF Issue, NoClient
<1>5. CASE \E s \in sessions : Refresh(c, s)
  BY <1>5, CallChanges DEF Refresh
<1>6. CASE Rotate(c)
  BY <1>6, AnswerChanges DEF Rotate, NoClient
<1> QED BY <1>1, <1>2, <1>3, <1>4, <1>5, <1>6 DEF SignInStep

LEMMA SetUpCalls ==
    ASSUME IdentityTypeOK, NEW c \in Clients, SetUpStep(c) \/ Fail(c)
    PROVE  Only(c) /\ client'[c].pc \in {"away", "bootstrap", "count", "create"}
<1>1. CASE SetUp(c)
  BY <1>1, CallChanges DEF SetUp
<1>2. CASE AcquireBootstrapLock(c)
  <2>1. client' = [client EXCEPT ![c] = [pc |-> "count"]]
    BY <1>2 DEF AcquireBootstrapLock
  <2>2. client \in [Clients -> CallStates]
    BY DEF IdentityTypeOK
  <2> QED BY <2>1, <2>2 DEF Only
<1>3. CASE CountAdmins(c)
  <2>1. client' = [client EXCEPT ![c] = IF admins > 0 THEN NoClient ELSE [pc |-> "create"]]
    BY <1>3 DEF CountAdmins
  <2>2. client \in [Clients -> CallStates]
    BY DEF IdentityTypeOK
  <2> QED BY <2>1, <2>2 DEF Only, NoClient
<1>4. CASE CreateAdmin(c)
  BY <1>4, AnswerChanges DEF CreateAdmin, NoClient
<1>5. CASE Fail(c)
  BY <1>5, AnswerChanges DEF Fail, NoClient
<1> QED BY <1>1, <1>2, <1>3, <1>4, <1>5 DEF SetUpStep

LEMMA AccountCalls ==
    ASSUME IdentityTypeOK, NEW c \in Clients, AccountStep(c)
    PROVE  Only(c) /\ client'[c].pc \in {"away", "lock", "replace", "write"}
<1>1. CASE RequestReset(c)
  BY <1>1, CallChanges DEF RequestReset
<1>2. CASE FindVerification(c)
  BY <1>2, CallChanges DEF FindVerification
<1>3. CASE ChangeProfile(c)
  BY <1>3, CallChanges DEF ChangeProfile
<1>4. CASE \E t \in resets : FindReset(c, t)
  BY <1>4, CallChanges DEF FindReset
<1>5. CASE ReplaceResets(c) \/ UpdateUser(c)
  BY <1>5, AnswerChanges DEF ReplaceResets, UpdateUser, NoClient
<1>6. CASE GetUserByIDForUpdate(c)
  <2>1. client' = [client EXCEPT ![c] = [pc |-> "write", op |-> client[c].op,
                                         token |-> client[c].token, copy |-> row]]
    BY <1>6 DEF GetUserByIDForUpdate
  <2>2. client \in [Clients -> CallStates]
    BY DEF IdentityTypeOK
  <2> QED BY <2>1, <2>2 DEF Only
<1> QED BY <1>1, <1>2, <1>3, <1>4, <1>5, <1>6 DEF AccountStep

LEMMA AccountBySignIn ==
    ASSUME IdentityTypeOK, AccountInv, NEW c \in Clients, SignInStep(c)
    PROVE  AccountInv' /\ UNCHANGED row
<1>1. UNCHANGED accountVars
  BY DEF SignInStep, Login, Consume, RegisterViaTelegram, Issue, Refresh, Rotate
<1> QED BY <1>1, SignInCalls, AccountByCall DEF accountVars

LEMMA AccountBySetUp ==
    ASSUME IdentityTypeOK, AccountInv, NEW c \in Clients, SetUpStep(c) \/ Fail(c)
    PROVE  AccountInv' /\ UNCHANGED row
<1>1. /\ row' = row /\ verification' = verification /\ resets' = resets
      /\ \A d \in Clients : d # c /\ rowLock = d => rowLock' = d
  BY DEF SetUpStep, SetUp, AcquireBootstrapLock, CountAdmins, CreateAdmin, Fail, accountVars
<1> QED BY <1>1, SetUpCalls, AccountByCall

\* No write of the account undoes another.
Forward ==
    /\ row'.password >= row.password
    /\ row.verified => row'.verified

LEMMA AccountByAccount ==
    ASSUME IdentityTypeOK, AccountInv, NEW c \in Clients, AccountStep(c)
    PROVE  AccountInv' /\ Forward
<1>0. row.password \in Nat
  BY DEF IdentityTypeOK, Accounts
<1>1. CASE RequestReset(c) \/ FindVerification(c) \/ ChangeProfile(c)
                \/ \E t \in resets : FindReset(c, t)
  <2>1. UNCHANGED accountVars /\ row.password > 0
    BY <1>1 DEF RequestReset, FindVerification, ChangeProfile, FindReset, AccountInv
  <2>2. Only(c) /\ client'[c].pc \in {"lock", "replace"}
    <3>1. CASE RequestReset(c)
      BY <3>1, CallChanges DEF RequestReset
    <3>2. CASE FindVerification(c)
      BY <3>2, CallChanges DEF FindVerification
    <3>3. CASE ChangeProfile(c)
      BY <3>3, CallChanges DEF ChangeProfile
    <3>4. CASE \E t \in resets : FindReset(c, t)
      BY <3>4, CallChanges DEF FindReset
    <3> QED BY <1>1, <3>1, <3>2, <3>3, <3>4
  <2> QED BY <1>0, <2>1, <2>2, AccountByCall DEF accountVars, Forward
<1>2. CASE ReplaceResets(c)
  <2>1. Only(c) /\ client'[c] = NoClient
    BY <1>2, AnswerChanges DEF ReplaceResets
  <2>2. UNCHANGED <<row, rowLock, verification>> /\ row.password > 0
    BY <1>2 DEF ReplaceResets, AccountInv
  <2> QED BY <1>0, <2>1, <2>2 DEF AccountInv, Only, NoClient, Forward
<1>3. CASE GetUserByIDForUpdate(c)
  <2>1. Only(c) /\ client'[c].pc = "write" /\ client'[c].copy = row
    <3>1. client' = [client EXCEPT ![c] = [pc |-> "write", op |-> client[c].op,
                                           token |-> client[c].token, copy |-> row]]
      BY <1>3 DEF GetUserByIDForUpdate
    <3>2. client \in [Clients -> CallStates]
      BY DEF IdentityTypeOK
    <3> QED BY <3>1, <3>2 DEF Only
  <2>2. UNCHANGED <<row, verification, resets>> /\ row.password > 0 /\ rowLock' = c
    BY <1>3 DEF GetUserByIDForUpdate, AccountInv
  <2>3. \A d \in Clients : d # c => client[d].pc # "write"
    BY <1>3, IdentityAssumption DEF GetUserByIDForUpdate, AccountInv, NoHolder
  <2> QED BY <1>0, <2>1, <2>2, <2>3 DEF AccountInv, Only, Forward
<1>4. CASE UpdateUser(c)
  <2>1. Only(c) /\ client'[c] = NoClient
    BY <1>4, AnswerChanges DEF UpdateUser
  <2>2. client[c].op \in Operations /\ client[c].copy = row /\ row.password > 0 /\ rowLock = c
    BY <1>4, CallRecords DEF UpdateUser, IdentityTypeOK, AccountInv, Writing
  <2>3. row' = Changed(row, client[c].op)
    BY <1>4, <2>2 DEF UpdateUser
  <2>4. row \in Accounts
    BY DEF IdentityTypeOK
  <2>5. Forward /\ row'.password > 0
    BY <1>0, <2>2, <2>3, <2>4 DEF Changed, Operations, Accounts, Forward
  <2>6. \A d \in Clients : d # c => client[d].pc # "write"
    BY <2>2 DEF AccountInv
  <2> QED BY <2>1, <2>5, <2>6, <1>0 DEF AccountInv, Only, NoClient
<1> QED BY <1>1, <1>2, <1>3, <1>4 DEF AccountStep

LEMMA AccountKept ==
    ASSUME IdentityTypeOK, AccountInv, [IdentityNext]_identityVars
    PROVE  AccountInv' /\ Forward
<1>0. row.password \in Nat /\ row \in Accounts
  BY DEF IdentityTypeOK, Accounts
<1>1. CASE Register
  <2>1. row'.password = 1 /\ row'.verified = row.verified /\ row.password = 0
    BY <1>0, <1>1 DEF Register, Accounts, NoAccount
  <2>2. client' = client /\ \A c \in Clients : client[c].pc \notin {"lock", "write", "replace"}
    BY <1>1, <2>1 DEF Register, AccountInv
  <2> QED BY <2>1, <2>2 DEF AccountInv, Forward
<1>2. CASE ExpireReset
  BY <1>0, <1>2 DEF ExpireReset, AccountInv, Forward
<1>3. ASSUME NEW s \in sessions, ExpireSession(s) PROVE AccountInv' /\ Forward
  BY <1>0, <1>3 DEF ExpireSession, AccountInv, accountVars, Forward
<1>4. CASE UNCHANGED identityVars
  BY <1>0, <1>4 DEF identityVars, AccountInv, Forward
<1>5. ASSUME NEW c \in Clients, SignInStep(c) \/ SetUpStep(c) \/ Fail(c)
      PROVE  AccountInv' /\ Forward
  BY <1>0, <1>5, AccountBySignIn, AccountBySetUp DEF Forward
<1> QED BY <1>1, <1>2, <1>3, <1>4, <1>5, AccountByAccount DEF IdentityNext

-----------------------------------------------------------------------------
\* A step after which each call is as it was or about no sign-in, and which opens no
\* session, keeps what is said of sign-ins.
LEMMA SignInByFewer ==
    ASSUME IdentityTypeOK, SignInInv, row'.password = row.password, sessions' \subseteq sessions,
           crossed \subseteq crossed', nonces \subseteq nonces', issued' \in Nat, issued' >= issued,
           \A d \in Clients : client'[d] = client[d] \/ client'[d].pc \notin Opening \cup {"rotate"}
    PROVE  SignInInv'
<1>0. issued \in Nat
  BY DEF IdentityTypeOK
<1>1. \A d \in Clients, r \in Roots : About(d, r)' => About(d, r) /\ client'[d] = client[d]
  BY DEF About
<1>2. \A r \in Roots : Begun(r) => Begun(r)'
  BY <1>0 DEF Begun
<1>3. \A s \in sessions : s.root \in Roots
  BY DEF IdentityTypeOK, SessionRecords
<1>4. RootsBegun'
  BY <1>1, <1>2, <1>3 DEF RootsBegun, SignInInv
<1>5. EmailHasPassword'
  <2>1. \A d \in Clients : client'[d].pc \in {"issue", "rotate"} => client'[d] = client[d]
    BY DEF Opening
  <2> QED BY <2>1 DEF EmailHasPassword, SignInInv
<1>6. SessionsFollowPassword'
  BY DEF SessionsFollowPassword, SignInInv
<1>7. CallsApart'
  BY <1>1 DEF CallsApart, SignInInv
<1>8. OpenedOnce'
  <2> SUFFICES ASSUME NEW c \in Clients, client'[c].pc \in Opening
               PROVE  /\ \A s \in sessions' : s.root = client'[c].root => s.root \in crossed'
                      /\ client'[c].pc = "issue" /\ client'[c].who = "email" =>
                           client'[c].since = row'.password \/ client'[c].root \in crossed'
    BY DEF OpenedOnce, Opening
  <2>1. client'[c] = client[c]
    OBVIOUS
  <2> QED BY <2>1 DEF OpenedOnce, SignInInv
<1>9. RotatesAlone'
  BY DEF RotatesAlone, SignInInv
<1> QED BY <1>4, <1>5, <1>6, <1>7, <1>8, <1>9 DEF SignInInv

LEMMA SignInByLogin ==
    ASSUME IdentityTypeOK, SignInInv, NEW c \in Clients, Login(c)
    PROVE  SignInInv'
<1>0. issued \in Nat /\ row.password > 0
  BY DEF IdentityTypeOK, Login
<1>1. /\ Only(c) /\ issued' = issued + 1
      /\ client'[c] = [pc |-> "issue", root |-> issued, since |-> row.password, who |-> "email"]
  BY CallChanges DEF Login
<1>2. /\ UNCHANGED <<row, nonces, sessions, crossed>>
  BY DEF Login, accountVars, signInVars
<1>3. ~Begun(issued)
  BY <1>0, IdentityAssumption DEF Begun, IdentityTypeOK
<1>4. \A r \in Roots : Begun(r) => Begun(r)' /\ r # issued
  BY <1>0, <1>1, <1>2, <1>3 DEF Begun
<1>5. \A r \in Roots : r = issued => Begun(r)'
  BY <1>0, <1>1 DEF Begun
<1>6. \A d \in Clients, r \in Roots : d # c => (About(d, r)' <=> About(d, r))
  BY <1>1 DEF About, Only
<1>7. \A r \in Roots : About(c, r)' <=> r = issued
  BY <1>1 DEF About, Opening
<1>8. RootsBegun'
  <2>1. \A s \in sessions : s.root \in Roots
    BY DEF IdentityTypeOK, SessionRecords
  <2>2. \A s \in sessions' : Begun(s.root)'
    BY <1>2, <1>4, <2>1 DEF RootsBegun, SignInInv
  <2>3. \A d \in Clients, r \in Roots : About(d, r)' => Begun(r)'
    BY <1>4, <1>5, <1>6, <1>7 DEF RootsBegun, SignInInv
  <2> QED BY <2>2, <2>3 DEF RootsBegun
<1>9. EmailHasPassword'
  BY <1>0, <1>2 DEF EmailHasPassword
<1>10. SessionsFollowPassword'
  BY <1>2 DEF SessionsFollowPassword, SignInInv
<1>11. CallsApart'
  BY <1>2, <1>3, <1>6, <1>7 DEF CallsApart, RootsBegun, SignInInv
<1>12. OpenedOnce'
  BY <1>1, <1>2, <1>3 DEF OpenedOnce, RootsBegun, SignInInv, Only
<1>13. RotatesAlone'
  BY <1>1, <1>2 DEF RotatesAlone, SignInInv, Only
<1> QED BY <1>8, <1>9, <1>10, <1>11, <1>12, <1>13 DEF SignInInv

LEMMA SignInByConsume ==
    ASSUME IdentityTypeOK, SignInInv, NEW c \in Clients, NEW e \in InitData, Consume(c, e)
    PROVE  SignInInv'
<1>0. issued \in Nat /\ e \in Roots /\ e \notin Nat
  BY IdentityAssumption DEF IdentityTypeOK, Roots
<1>1. /\ Only(c) /\ issued' = issued + 1
      /\ client'[c] = [pc |-> "register", root |-> e]
  BY CallChanges DEF Consume
<1>2. /\ UNCHANGED <<row, sessions, crossed>> /\ nonces' = nonces \cup {e}
  BY DEF Consume, accountVars
<1>3. ~Begun(e)
  BY <1>0 DEF Begun, Consume
<1>4. \A r \in Roots : Begun(r) => Begun(r)' /\ r # e
  BY <1>0, <1>1, <1>2, <1>3 DEF Begun
<1>5. Begun(e)'
  BY <1>2 DEF Begun
<1>6. \A d \in Clients, r \in Roots : d # c => (About(d, r)' <=> About(d, r))
  BY <1>1 DEF About, Only
<1>7. \A r \in Roots : About(c, r)' <=> r = e
  BY <1>1 DEF About, Opening
<1>8. RootsBegun'
  <2>1. \A s \in sessions : s.root \in Roots
    BY DEF IdentityTypeOK, SessionRecords
  <2> QED BY <1>2, <1>4, <1>5, <1>6, <1>7, <2>1 DEF RootsBegun, SignInInv
<1>9. EmailHasPassword'
  BY <1>1, <1>2 DEF EmailHasPassword, SignInInv, Only
<1>10. SessionsFollowPassword'
  BY <1>2 DEF SessionsFollowPassword, SignInInv
<1>11. CallsApart'
  BY <1>2, <1>3, <1>6, <1>7 DEF CallsApart, RootsBegun, SignInInv
<1>12. OpenedOnce'
  BY <1>1, <1>2, <1>3 DEF OpenedOnce, RootsBegun, SignInInv, Only
<1>13. RotatesAlone'
  BY <1>1, <1>2 DEF RotatesAlone, SignInInv, Only
<1> QED BY <1>8, <1>9, <1>10, <1>11, <1>12, <1>13 DEF SignInInv

\* The sign-in of a Telegram account goes on under the same name.
LEMMA SignInByRegistration ==
    ASSUME IdentityTypeOK, SignInInv, NEW c \in Clients, RegisterViaTelegram(c)
    PROVE  SignInInv'
<1>1. client[c].pc \in {"register", "insert"}
  BY DEF RegisterViaTelegram
<1>2. \/ client' = [client EXCEPT ![c] = NoClient]
      \/ client' = [client EXCEPT ![c] = [pc |-> "insert", root |-> client[c].root]]
      \/ client' = [client EXCEPT ![c] = [pc |-> "issue", root |-> client[c].root, since |-> 0,
                                          who |-> "native"]]
  BY DEF RegisterViaTelegram
<1>3. UNCHANGED <<row, nonces, sessions, crossed, issued>>
  BY DEF RegisterViaTelegram, accountVars
<1>4. client \in [Clients -> CallStates] /\ issued \in Nat
  BY DEF IdentityTypeOK
<1>5. CASE client' = [client EXCEPT ![c] = NoClient]
  <2>1. \A d \in Clients : client'[d] = client[d] \/ client'[d].pc \notin Opening \cup {"rotate"}
    BY <1>4, <1>5 DEF NoClient, Opening
  <2> QED BY <1>3, <1>4, <2>1, SignInByFewer
<1>6. CASE client' # [client EXCEPT ![c] = NoClient]
  <2>1. /\ Only(c)
        /\ client'[c].pc \in {"insert", "issue"} /\ client'[c].root = client[c].root
        /\ client'[c].pc = "issue" => client'[c].who = "native"
    BY <1>2, <1>4, <1>6 DEF Only
  <2>2. \A d \in Clients, r \in Roots : About(d, r)' <=> About(d, r)
    BY <1>1, <2>1 DEF About, Only, Opening
  <2>3. \A r : Begun(r)' <=> Begun(r)
    BY <1>3 DEF Begun
  <2>4. RootsBegun'
    BY <1>3, <2>2, <2>3 DEF RootsBegun, SignInInv
  <2>5. EmailHasPassword'
    BY <1>3, <2>1 DEF EmailHasPassword, SignInInv, Only
  <2>6. SessionsFollowPassword'
    BY <1>3 DEF SessionsFollowPassword, SignInInv
  <2>7. CallsApart'
    BY <1>3, <2>2 DEF CallsApart, SignInInv
  <2>8. OpenedOnce'
    BY <1>1, <1>3, <2>1 DEF OpenedOnce, SignInInv, Only, Opening
  <2>9. RotatesAlone'
    BY <1>3, <2>1 DEF RotatesAlone, SignInInv, Only
  <2> QED BY <2>4, <2>5, <2>6, <2>7, <2>8, <2>9 DEF SignInInv
<1> QED BY <1>5, <1>6

LEMMA SignInByIssue ==
    ASSUME IdentityTypeOK, SignInInv, NEW c \in Clients, Issue(c)
    PROVE  SignInInv'
<1> DEFINE x == client[c]
           opened == [n |-> issued, root |-> x.root, since |-> x.since, who |-> x.who]
<1>0. client[c].pc = "issue" /\ issued \in Nat /\ client[c].root \in Roots
  BY CallRecords DEF Issue, IdentityTypeOK, Issuing
<1>1. Only(c) /\ client'[c] = NoClient
  BY AnswerChanges DEF Issue
<1>2. PICK e : /\ sessions' = sessions \cup {e}
               /\ e.root = client[c].root /\ e.since = client[c].since /\ e.who = client[c].who
  <2>1. \E e : e = opened
    OBVIOUS
  <2>2. PICK e : e = opened
    BY <2>1
  <2>3. e.root = client[c].root /\ e.since = client[c].since /\ e.who = client[c].who
    BY <2>2
  <2>4. sessions' = sessions \cup {e}
    BY <2>2 DEF Issue
  <2> QED BY <2>3, <2>4
<1> HIDE DEF opened
<1>3. issued' = issued + 1 /\ UNCHANGED <<row, nonces, crossed>>
  BY DEF Issue, accountVars
<1>4. \A r \in Roots : Begun(r) => Begun(r)'
  BY <1>0, <1>3 DEF Begun
<1>5. \A d \in Clients, r \in Roots : About(d, r)' => d # c /\ About(d, r)
  BY <1>1 DEF About, Only, NoClient, Opening
<1>6. About(c, e.root) /\ e.root \in Roots
  BY <1>0, <1>2 DEF About, Opening
<1>7. \A d \in Clients : d # c /\ About(d, e.root) => e.root \in crossed
  BY <1>6 DEF CallsApart, SignInInv
<1>8. RootsBegun'
  <2>1. \A s \in sessions : s.root \in Roots
    BY DEF IdentityTypeOK, SessionRecords
  <2> QED BY <1>2, <1>4, <1>5, <1>6, <2>1 DEF RootsBegun, SignInInv
<1>9. EmailHasPassword'
  BY <1>0, <1>1, <1>2, <1>3 DEF EmailHasPassword, SignInInv, Only, NoClient
<1>10. SessionsFollowPassword'
  <2>1. e.root \notin crossed => (e.who = "email" => e.since = row.password)
    BY <1>0, <1>2 DEF OpenedOnce, SignInInv
  <2>2. \A s \in sessions : s.root = e.root => s.root \in crossed
    BY <1>0, <1>2 DEF OpenedOnce, SignInInv, Opening
  <2> QED BY <1>2, <1>3, <2>1, <2>2 DEF SessionsFollowPassword, SignInInv
<1>11. CallsApart'
  BY <1>3, <1>5 DEF CallsApart, SignInInv
<1>12. OpenedOnce'
  <2>1. \A d \in Clients : d # c /\ client[d].pc \in Opening /\ e.root = client[d].root => e.root \in crossed
    BY <1>7 DEF About
  <2> QED BY <1>1, <1>2, <1>3, <2>1 DEF OpenedOnce, SignInInv, Only, NoClient, Opening
<1>13. RotatesAlone'
  <2>1. \A d \in Clients : d # c /\ client[d].pc = "rotate" /\ e.root = client[d].old.root => e.root \in crossed
    BY <1>7 DEF About
  <2> QED BY <1>1, <1>2, <1>3, <2>1 DEF RotatesAlone, SignInInv, Only, NoClient
<1> QED BY <1>8, <1>9, <1>10, <1>11, <1>12, <1>13 DEF SignInInv

LEMMA SignInByRefresh ==
    ASSUME IdentityTypeOK, SignInInv, NEW c \in Clients, NEW e \in sessions, Refresh(c, e)
    PROVE  SignInInv'
<1>0. e.root \in Roots /\ issued \in Nat /\ e \in SessionRecords
  BY DEF IdentityTypeOK, SessionRecords
<1>1. /\ Only(c) /\ issued' = issued + 1 /\ client[c] = NoClient
      /\ client'[c] = [pc |-> "rotate", old |-> e]
  BY CallChanges DEF Refresh
<1>2. /\ UNCHANGED <<row, nonces, sessions>> /\ crossed \subseteq crossed'
      /\ (\E o \in Clients : client[o] = [pc |-> "rotate", old |-> e]) => e.root \in crossed'
  BY DEF Refresh, accountVars
<1>3. \A r \in Roots : Begun(r) => Begun(r)'
  BY <1>0, <1>1, <1>2 DEF Begun
<1>4. \A d \in Clients, r \in Roots : d # c => (About(d, r)' <=> About(d, r))
  BY <1>1 DEF About, Only
<1>5. \A r \in Roots : About(c, r)' <=> r = e.root
  BY <1>1 DEF About, Opening
<1>6. \A d \in Clients : About(d, e.root) => e.root \in crossed'
  <2> SUFFICES ASSUME NEW d \in Clients, About(d, e.root), e.root \notin crossed
               PROVE  e.root \in crossed'
    BY <1>2
  <2>1. client[d].pc \notin Opening
    BY DEF About, OpenedOnce, SignInInv, Opening
  <2>2. client[d].pc = "rotate" /\ client[d].old.root = e.root
    BY <2>1 DEF About
  <2>3. client[d].old = e
    BY <2>2 DEF RotatesAlone, SignInInv
  <2>4. client[d] \in Rotating
    BY <2>2, CallRecords DEF IdentityTypeOK
  <2>5. client[d] = [pc |-> "rotate", old |-> e]
    BY <2>2, <2>3, <2>4 DEF Rotating
  <2> QED BY <1>2, <2>5
<1>7. RootsBegun'
  <2>1. \A s \in sessions : s.root \in Roots
    BY DEF IdentityTypeOK, SessionRecords
  <2> QED BY <1>2, <1>3, <1>4, <1>5, <2>1 DEF RootsBegun, SignInInv
<1>8. EmailHasPassword'
  BY <1>1, <1>2 DEF EmailHasPassword, SignInInv, Only
<1>9. SessionsFollowPassword'
  BY <1>2 DEF SessionsFollowPassword, SignInInv
<1>10. CallsApart'
  BY <1>2, <1>4, <1>5, <1>6 DEF CallsApart, SignInInv
<1>11. OpenedOnce'
  BY <1>1, <1>2 DEF OpenedOnce, SignInInv, Only, Opening
<1>12. RotatesAlone'
  <2>1. e.root \notin crossed' =>
           /\ e.who = "email" => e.since = row.password
           /\ \A s \in sessions : s.root = e.root => s = e
    BY <1>2 DEF SessionsFollowPassword, SignInInv
  <2> QED BY <1>1, <1>2, <2>1 DEF RotatesAlone, SignInInv, Only
<1> QED BY <1>7, <1>8, <1>9, <1>10, <1>11, <1>12 DEF SignInInv

LEMMA SignInByRotate ==
    ASSUME IdentityTypeOK, SignInInv, NEW c \in Clients, Rotate(c)
    PROVE  SignInInv'
<1> DEFINE old == client[c].old
<1>0. client[c].pc = "rotate" /\ issued \in Nat /\ old \in SessionRecords /\ old.root \in Roots
  BY CallRecords DEF Rotate, IdentityTypeOK, Rotating, SessionRecords
<1>1. Only(c) /\ client'[c] = NoClient
  BY AnswerChanges DEF Rotate
<1>2. PICK e : /\ sessions' = (sessions \ {old}) \cup {e}
               /\ e.root = old.root /\ e.since = old.since /\ e.who = old.who
  <2>1. \E e : e = [old EXCEPT !.n = issued]
    OBVIOUS
  <2>2. PICK e : e = [old EXCEPT !.n = issued]
    BY <2>1
  <2>3. e.root = old.root /\ e.since = old.since /\ e.who = old.who
    BY <1>0, <2>2 DEF SessionRecords
  <2> QED BY <2>2, <2>3 DEF Rotate
<1>3. issued' = issued + 1 /\ UNCHANGED <<row, nonces, crossed>>
  BY DEF Rotate, accountVars
<1>4. \A r \in Roots : Begun(r) => Begun(r)'
  BY <1>0, <1>3 DEF Begun
<1>5. \A d \in Clients, r \in Roots : About(d, r)' => d # c /\ About(d, r)
  BY <1>1 DEF About, Only, NoClient, Opening
<1>6. About(c, e.root) /\ e.root \in Roots
  BY <1>0, <1>2 DEF About, Opening
<1>7. \A d \in Clients : d # c /\ About(d, e.root) => e.root \in crossed
  BY <1>6 DEF CallsApart, SignInInv
<1>8. RootsBegun'
  <2>1. \A s \in sessions : s.root \in Roots
    BY DEF IdentityTypeOK, SessionRecords
  <2> QED BY <1>2, <1>4, <1>5, <1>6, <2>1 DEF RootsBegun, SignInInv
<1>9. EmailHasPassword'
  BY <1>0, <1>1, <1>2, <1>3 DEF EmailHasPassword, SignInInv, Only, NoClient
<1>10. SessionsFollowPassword'
  <2>1. e.root \notin crossed =>
          /\ e.who = "email" => e.since = row.password
          /\ \A s \in sessions : s.root = e.root => s = old
    BY <1>0, <1>2 DEF RotatesAlone, SignInInv
  <2> QED BY <1>2, <1>3, <2>1 DEF SessionsFollowPassword, SignInInv
<1>11. CallsApart'
  BY <1>3, <1>5 DEF CallsApart, SignInInv
<1>12. OpenedOnce'
  <2>1. \A d \in Clients : d # c /\ client[d].pc \in Opening /\ e.root = client[d].root => e.root \in crossed
    BY <1>7 DEF About
  <2> QED BY <1>1, <1>2, <1>3, <2>1 DEF OpenedOnce, SignInInv, Only, NoClient, Opening
<1>13. RotatesAlone'
  <2>1. \A d \in Clients : d # c /\ client[d].pc = "rotate" /\ e.root = client[d].old.root => e.root \in crossed
    BY <1>7 DEF About
  <2> QED BY <1>1, <1>2, <1>3, <2>1 DEF RotatesAlone, SignInInv, Only, NoClient
<1> QED BY <1>8, <1>9, <1>10, <1>11, <1>12, <1>13 DEF SignInInv

\* A password reset ends what is not crossed, and crosses what is under way.
LEMMA SignInByReset ==
    ASSUME IdentityTypeOK, AccountInv, SignInInv, NEW c \in Clients, UpdateUser(c),
           client[c].op = "reset", row'.password > 0
    PROVE  SignInInv'
<1>1. Only(c) /\ client'[c] = NoClient
  BY AnswerChanges DEF UpdateUser
<1>2. /\ sessions' = {s \in sessions : s.who = "native"}
      /\ crossed \subseteq crossed'
      /\ UNCHANGED <<issued, nonces>>
  BY DEF UpdateUser, SessionsAfter
<1>3. \A d \in Clients : /\ client[d].pc = "issue" => client[d].root \in crossed'
                         /\ client[d].pc = "rotate" => client[d].old.root \in crossed'
  BY DEF UpdateUser
<1>4. \A d \in Clients, r \in Roots : About(d, r)' => About(d, r) /\ d # c
  BY <1>1 DEF About, Only, NoClient, Opening
<1>5. RootsBegun'
  BY <1>2, <1>4 DEF RootsBegun, SignInInv, Begun
<1>6. EmailHasPassword'
  BY DEF EmailHasPassword
<1>7. SessionsFollowPassword'
  BY <1>2 DEF SessionsFollowPassword, SignInInv
<1>8. CallsApart'
  BY <1>2, <1>4 DEF CallsApart, SignInInv
<1>9. OpenedOnce'
  BY <1>1, <1>2, <1>3 DEF OpenedOnce, SignInInv, Only, NoClient, Opening
<1>10. RotatesAlone'
  BY <1>1, <1>3 DEF RotatesAlone, Only, NoClient
<1> QED BY <1>5, <1>6, <1>7, <1>8, <1>9, <1>10 DEF SignInInv

LEMMA SignInByAccount ==
    ASSUME IdentityTypeOK, AccountInv, SignInInv, NEW c \in Clients, AccountStep(c)
    PROVE  SignInInv'
<1>0. issued \in Nat
  BY DEF IdentityTypeOK
<1>1. CASE RequestReset(c) \/ FindVerification(c) \/ ChangeProfile(c)
                \/ \E t \in resets : FindReset(c, t)
  <2>1. UNCHANGED <<row, sessions, crossed, nonces>>
    BY <1>1 DEF RequestReset, FindVerification, ChangeProfile, FindReset, accountVars, signInVars
  <2>2. Only(c) /\ client'[c].pc \in {"lock", "replace"} /\ issued' = issued + 1
    <3>1. CASE RequestReset(c)
      BY <3>1, CallChanges DEF RequestReset
    <3>2. CASE FindVerification(c)
      BY <3>2, CallChanges DEF FindVerification
    <3>3. CASE ChangeProfile(c)
      BY <3>3, CallChanges DEF ChangeProfile
    <3>4. CASE \E t \in resets : FindReset(c, t)
      BY <3>4, CallChanges DEF FindReset
    <3> QED BY <1>1, <3>1, <3>2, <3>3, <3>4
  <2>3. \A d \in Clients : client'[d] = client[d] \/ client'[d].pc \notin Opening \cup {"rotate"}
    BY <2>2 DEF Only, Opening
  <2> QED BY <1>0, <2>1, <2>2, <2>3, SignInByFewer
<1>2. CASE ReplaceResets(c)
  <2>1. UNCHANGED <<row, sessions, crossed, nonces>> /\ issued' = issued + 1
    BY <1>2 DEF ReplaceResets, signInVars
  <2>2. \A d \in Clients : client'[d] = client[d] \/ client'[d].pc \notin Opening \cup {"rotate"}
    BY <1>2, AnswerChanges DEF ReplaceResets, Only, NoClient, Opening
  <2> QED BY <1>0, <2>1, <2>2, SignInByFewer
<1>3. CASE GetUserByIDForUpdate(c)
  <2>1. UNCHANGED <<row, sessions, crossed, nonces, issued>>
    BY <1>3 DEF GetUserByIDForUpdate, signInVars
  <2>2. client' = [client EXCEPT ![c] = [pc |-> "write", op |-> client[c].op,
                                         token |-> client[c].token, copy |-> row]]
    BY <1>3 DEF GetUserByIDForUpdate
  <2>3. client \in [Clients -> CallStates]
    BY DEF IdentityTypeOK
  <2>4. \A d \in Clients : client'[d] = client[d] \/ client'[d].pc \notin Opening \cup {"rotate"}
    BY <2>2, <2>3 DEF Opening
  <2> QED BY <1>0, <2>1, <2>4, SignInByFewer
<1>4. CASE UpdateUser(c)
  <2>1. client[c].copy = row /\ row.password > 0 /\ client[c].op \in Operations
    BY <1>4, CallRecords DEF UpdateUser, AccountInv, IdentityTypeOK, Writing
  <2>2. row' = Changed(row, client[c].op) /\ row \in Accounts
    BY <1>4, <2>1 DEF UpdateUser, IdentityTypeOK
  <2>3. CASE client[c].op = "reset"
    <3>1. row'.password > 0
      BY <2>1, <2>2, <2>3 DEF Changed, Accounts
    <3> QED BY <1>4, <2>3, <3>1, SignInByReset
  <2>4. CASE client[c].op # "reset"
    <3>1. row'.password = row.password
      BY <2>1, <2>2, <2>4 DEF Changed, Accounts, Operations
    <3>2. UNCHANGED <<sessions, crossed, nonces, issued>>
      BY <1>4, <2>4 DEF UpdateUser, SessionsAfter
    <3>3. \A d \in Clients : client'[d] = client[d] \/ client'[d].pc \notin Opening \cup {"rotate"}
      BY <1>4, AnswerChanges DEF UpdateUser, Only, NoClient, Opening
    <3> QED BY <1>0, <3>1, <3>2, <3>3, SignInByFewer
  <2> QED BY <2>3, <2>4
<1> QED BY <1>1, <1>2, <1>3, <1>4 DEF AccountStep

LEMMA SignInBySetUp ==
    ASSUME IdentityTypeOK, SignInInv, NEW c \in Clients, SetUpStep(c) \/ Fail(c)
    PROVE  SignInInv'
<1>0. issued \in Nat
  BY DEF IdentityTypeOK
<1>1. UNCHANGED <<row, sessions, crossed, nonces>>
  BY DEF SetUpStep, SetUp, AcquireBootstrapLock, CountAdmins, CreateAdmin, Fail, accountVars, signInVars
<1>2. issued' \in Nat /\ issued' >= issued
  BY <1>0 DEF SetUpStep, SetUp, AcquireBootstrapLock, CountAdmins, CreateAdmin, Fail, Call
<1>3. Only(c) /\ client'[c].pc \in {"away", "bootstrap", "count", "create"}
  BY SetUpCalls
<1>4. \A d \in Clients : client'[d] = client[d] \/ client'[d].pc \notin Opening \cup {"rotate"}
  BY <1>3 DEF Only, Opening
<1> QED BY <1>1, <1>2, <1>4, SignInByFewer

LEMMA SignInKept ==
    ASSUME IdentityTypeOK, AccountInv, SignInInv, [IdentityNext]_identityVars
    PROVE  SignInInv'
<1>0. issued \in Nat
  BY DEF IdentityTypeOK
<1>1. CASE Register
  <2>1. row.password = 0 /\ row'.password = 1 /\ UNCHANGED <<client, sessions, crossed, nonces, issued>>
    BY <1>1 DEF Register, NoAccount, signInVars
  <2>2. /\ \A s \in sessions : s.who # "email"
        /\ \A d \in Clients : /\ client[d].pc = "issue" => client[d].who # "email"
                              /\ client[d].pc = "rotate" => client[d].old.who # "email"
    BY <2>1 DEF SignInInv, EmailHasPassword
  <2>3. RootsBegun' /\ EmailHasPassword'
    BY <2>1 DEF SignInInv, RootsBegun, EmailHasPassword, About, Begun
  <2>4. SessionsFollowPassword' /\ CallsApart'
    BY <2>1, <2>2 DEF SignInInv, SessionsFollowPassword, CallsApart, About
  <2>5. OpenedOnce' /\ RotatesAlone'
    BY <2>1, <2>2 DEF SignInInv, OpenedOnce, RotatesAlone
  <2> QED BY <2>3, <2>4, <2>5 DEF SignInInv
<1>2. CASE ExpireReset
  BY <1>0, <1>2, SignInByFewer DEF ExpireReset, signInVars
<1>3. ASSUME NEW s \in sessions, ExpireSession(s) PROVE SignInInv'
  BY <1>0, <1>3, SignInByFewer DEF ExpireSession, accountVars
<1>4. CASE UNCHANGED identityVars
  BY <1>0, <1>4, SignInByFewer DEF identityVars
<1>5. ASSUME NEW c \in Clients, SignInStep(c) PROVE SignInInv'
  BY <1>5, SignInByLogin, SignInByConsume, SignInByRegistration, SignInByIssue, SignInByRefresh,
     SignInByRotate DEF SignInStep
<1> QED BY <1>1, <1>2, <1>3, <1>4, <1>5, SignInByAccount, SignInBySetUp DEF IdentityNext

-----------------------------------------------------------------------------
\* A call that is not at the set-up's count or creation keeps what is said of it.
LEMMA SetUpByCall ==
    ASSUME SetUpInv, NEW c \in Clients, Only(c), client'[c].pc \notin {"count", "create"},
           admins' = admins, \A d \in Clients : d # c /\ bootLock = d => bootLock' = d
    PROVE  SetUpInv'
  BY DEF SetUpInv, Only

LEMMA SetUpKept ==
    ASSUME IdentityTypeOK, SetUpInv, [IdentityNext]_identityVars
    PROVE  SetUpInv'
<1>1. CASE Register \/ ExpireReset \/ UNCHANGED identityVars \/ \E s \in sessions : ExpireSession(s)
  BY <1>1 DEF Register, ExpireReset, ExpireSession, identityVars, setupVars, SetUpInv
<1>2. ASSUME NEW c \in Clients, SignInStep(c) PROVE SetUpInv'
  <2>1. UNCHANGED setupVars
    BY <1>2 DEF SignInStep, Login, Consume, RegisterViaTelegram, Issue, Refresh, Rotate
  <2> QED BY <1>2, <2>1, SignInCalls, SetUpByCall DEF setupVars
<1>3. ASSUME NEW c \in Clients, AccountStep(c) PROVE SetUpInv'
  <2>1. UNCHANGED setupVars
    BY <1>3 DEF AccountStep, RequestReset, ReplaceResets, FindReset, FindVerification, ChangeProfile,
                GetUserByIDForUpdate, UpdateUser
  <2> QED BY <1>3, <2>1, AccountCalls, SetUpByCall DEF setupVars
<1>4. ASSUME NEW c \in Clients, SetUp(c) PROVE SetUpInv'
  BY <1>4, CallChanges, SetUpByCall DEF SetUp, setupVars
<1>5. ASSUME NEW c \in Clients, AcquireBootstrapLock(c) PROVE SetUpInv'
  <2>1. client' = [client EXCEPT ![c] = [pc |-> "count"]] /\ client \in [Clients -> CallStates]
    BY <1>5 DEF AcquireBootstrapLock, IdentityTypeOK
  <2>2. Only(c) /\ client'[c].pc = "count"
    BY <2>1 DEF Only
  <2>3. bootLock = NoHolder /\ bootLock' = c /\ admins' = admins
    BY <1>5 DEF AcquireBootstrapLock
  <2>4. \A d \in Clients : client[d].pc \notin {"count", "create"}
    BY <2>3, IdentityAssumption DEF SetUpInv, NoHolder
  <2> QED BY <2>2, <2>3, <2>4 DEF SetUpInv, Only
<1>6. ASSUME NEW c \in Clients, CountAdmins(c) PROVE SetUpInv'
  <2>1. /\ client' = [client EXCEPT ![c] = IF admins > 0 THEN NoClient ELSE [pc |-> "create"]]
        /\ client \in [Clients -> CallStates] /\ admins \in Nat
    BY <1>6 DEF CountAdmins, IdentityTypeOK
  <2>2. Only(c) /\ client'[c] = IF admins > 0 THEN NoClient ELSE [pc |-> "create"]
    BY <2>1 DEF Only
  <2>3. /\ admins' = admins /\ bootLock = c
        /\ bootLock' = IF admins > 0 THEN NoHolder ELSE bootLock
    BY <1>6 DEF CountAdmins, SetUpInv
  <2>4. \A d \in Clients : d # c => client[d].pc \notin {"count", "create"}
    BY <2>3 DEF SetUpInv
  <2> QED BY <2>1, <2>2, <2>3, <2>4 DEF SetUpInv, Only, NoClient
<1>7. ASSUME NEW c \in Clients, CreateAdmin(c) PROVE SetUpInv'
  <2>1. Only(c) /\ client'[c] = NoClient
    BY <1>7, AnswerChanges DEF CreateAdmin
  <2>2. admins = 0 /\ bootLock = c /\ admins' = admins + 1
    BY <1>7 DEF CreateAdmin, SetUpInv
  <2>3. \A d \in Clients : d # c => client[d].pc \notin {"count", "create"}
    BY <2>2 DEF SetUpInv
  <2> QED BY <2>1, <2>2, <2>3 DEF SetUpInv, Only, NoClient
<1>8. ASSUME NEW c \in Clients, Fail(c) PROVE SetUpInv'
  <2>1. admins' = admins /\ \A d \in Clients : d # c /\ bootLock = d => bootLock' = d
    BY <1>8 DEF Fail
  <2> QED BY <1>8, <2>1, AnswerChanges, SetUpByCall DEF Fail, NoClient
<1> QED BY <1>1, <1>2, <1>3, <1>4, <1>5, <1>6, <1>7, <1>8 DEF IdentityNext, SetUpStep

-----------------------------------------------------------------------------
LEMMA IdentityInitInv == IdentityInit => IdentityInv
<1> SUFFICES ASSUME IdentityInit PROVE IdentityInv
  OBVIOUS
<1>1. IdentityTypeOK
  BY DEF IdentityInit, IdentityTypeOK, NoAccount, Accounts, CallStates
<1>2. \A c \in Clients : client[c] = NoClient
  BY DEF IdentityInit
<1>3. AccountInv
  BY <1>2 DEF IdentityInit, AccountInv, NoAccount, NoClient
<1>4. SignInInv
  BY <1>2 DEF IdentityInit, SignInInv, RootsBegun, EmailHasPassword, SessionsFollowPassword,
              CallsApart, OpenedOnce, RotatesAlone, About, Opening, NoClient
<1>5. SetUpInv
  BY <1>2 DEF IdentityInit, SetUpInv, NoClient
<1> QED BY <1>1, <1>3, <1>4, <1>5 DEF IdentityInv

LEMMA IdentityStep ==
    ASSUME IdentityInv, [IdentityNext]_identityVars
    PROVE  IdentityInv' /\ Forward
  BY IdentityTypeKept, AccountKept, SignInKept, SetUpKept DEF IdentityInv

\* The inductive invariant of accounts and sign-in.
THEOREM IdentityInvariant == IdentitySpec => []IdentityInv
<1>1. IdentityInv /\ [IdentityNext]_identityVars => IdentityInv'
  BY IdentityStep
<1> QED BY IdentityInitInv, <1>1, PTL DEF IdentitySpec

\* ResetPassword ends every session that was opened with an older password, a sign-in is at
\* most one session however often it is refreshed, and CreateFirstAdmin creates one
\* administrator, for any number of clients, of calls and of signed payloads.
THEOREM AccountsAreSafe == IdentitySpec => []AccountsSafe
<1>1. IdentityInv => AccountsSafe
  BY DEF IdentityInv, SignInInv, SetUpInv, AccountsSafe, OneFirstAdmin
<1> QED BY IdentityInvariant, <1>1, PTL

\* UpdateUser writes a whole copy of the account, which GetUserByIDForUpdate read under the
\* row lock: no write takes back a password or a verification.
THEOREM AccountWritesKept == IdentitySpec => WritesKept
<1>1. IdentityInv /\ [IdentityNext]_identityVars =>
        [/\ row'.password >= row.password
         /\ row.verified => row'.verified]_identityVars
  BY IdentityStep DEF Forward
<1> QED BY IdentityInvariant, <1>1, PTL DEF IdentitySpec, WritesKept

-----------------------------------------------------------------------------
\* AccessControl: a cached access is no older than the code allows; revocations and
\* invitations that do not overlap end as they should.
Accesses == [admin : BOOLEAN, perms : Nat]
RoleNames == {"admin", "owner", "custom"}
StaffOps == {"grant admin", "revoke admin", "grant custom", "create custom", "update custom",
               "delete custom", "create shop", "create user", "invite", "revoke invitation"}
Readings ==
    [pc : {"bindings"}, actor : People, met : BOOLEAN]
      \cup [pc : {"permissions"}, actor : People, met : BOOLEAN, roles : SUBSET RoleNames]
      \cup [pc : {"store"}, actor : People, met : BOOLEAN, access : Accesses]
Works ==
    {Free} \cup [pc : {"authorize"}, access : Accesses]
      \cup [pc : {"count", "commit"}, op : StaffOps, on : People \cup Nat]
      \cup [pc : {"invalidate"}, us : SUBSET People]
      \cup [pc : {"accept"}, on : Nat]
Entries == [kind : {"entry"}, access : Accesses, behind : BOOLEAN]

\* Requests about an account or an invitation name one.
WorkOK(w) ==
    /\ w.pc = "count" => w.op = "revoke admin"
    /\ w.pc \in {"count", "commit"} /\ w.op = "revoke admin" => w.on \in People
    /\ w.pc = "commit" /\ w.op = "revoke invitation" => w.on \in Nat

AccessTypeOK ==
    /\ bindings \in [People -> SUBSET RoleNames]
    /\ perms \in Nat
    /\ invitations \subseteq Nat /\ invited \in Nat
    /\ accounts \subseteq People
    /\ cached \in [AccessPods \X People -> {NotCached} \cup Entries]
    /\ handler \in [Handlers -> Readings \cup Works]
    /\ \A h \in Handlers : WorkOK(handler[h])
    /\ perms = 0 => \A u \in People : "custom" \notin bindings[u]

\* What a resolution has read is still so, unless a change overtook it.
ReadsInv ==
    \A h \in Handlers :
        /\ handler[h].pc = "permissions" =>
             handler[h].met \/ handler[h].roles = bindings[handler[h].actor]
        /\ handler[h].pc = "store" =>
             handler[h].met \/ handler[h].access = Access(bindings[handler[h].actor], perms)

CacheInv == ReadsInv /\ CacheFollowsBindings

\* A revocation that overlaps no other leaves an administrator.
Revoking(h) == handler[h].pc = "commit" /\ handler[h].op = "revoke admin"
IsAdmin(u) == "admin" \in bindings[u]

RevokeInv ==
    <<"revoke", 0>> \notin contested =>
        /\ \E u \in People : IsAdmin(u)
        /\ \A h, o \in Handlers : Revoking(h) /\ Revoking(o) => h = o
        /\ (\E h \in Handlers : Revoking(h)) =>
             \E u, v \in People : u # v /\ IsAdmin(u) /\ IsAdmin(v)

\* An invitation that nobody contests is used by one request at a time, and has ended once
\* and for all.
Ended(i) == <<"accepted", i>> \in ended \/ <<"revoked", i>> \in ended

InviteInv ==
    /\ \A i \in invitations : i < invited
    /\ \A i \in Nat : Ended(i) => i < invited
    /\ \A h \in Handlers : \A i \in Nat : Uses(h, i) => i < invited
    /\ \A i \in Nat : <<"invitation", i>> \notin contested =>
         /\ \A h, o \in Handlers : Uses(h, i) /\ Uses(o, i) => h = o
         /\ Ended(i) => i \notin invitations /\ \A h \in Handlers : ~Uses(h, i)
         /\ ~(<<"accepted", i>> \in ended /\ <<"revoked", i>> \in ended)

AccessInv == AccessTypeOK /\ CacheInv /\ RevokeInv /\ InviteInv

LEMMA AccessOf == \A b \in SUBSET RoleNames : \A p \in Nat : Access(b, p) \in Accesses
  BY DEF Access, Accesses

LEMMA FreeIs == Free \in Works /\ Free.pc = "rest" /\ WorkOK(Free) /\ NotCached.kind = "none"
  BY DEF Works, Free, WorkOK, NotCached

\* A resolution that a change overtakes.
LEMMA Met ==
  ASSUME NEW r \in Readings, NEW n, n = [r EXCEPT !.met = TRUE]
  PROVE  n \in Readings /\ n.pc = r.pc /\ n.met
BY DEF Readings

LEMMA ReadingOrWork ==
  /\ \A r \in Readings : r.pc \in {"bindings", "permissions", "store"} /\ r.actor \in People /\ WorkOK(r)
  /\ \A w \in Works : w.pc \in {"rest", "authorize", "count", "commit", "invalidate", "accept"}
<1>1. ASSUME NEW r \in Readings
      PROVE  r.pc \in {"bindings", "permissions", "store"} /\ r.actor \in People
  BY DEF Readings
<1>2. \A r \in Readings : WorkOK(r)
  BY <1>1 DEF WorkOK
<1>3. ASSUME NEW w \in Works
      PROVE  w.pc \in {"rest", "authorize", "count", "commit", "invalidate", "accept"}
  <2>1. CASE w = Free
    BY <2>1 DEF Free
  <2>2. CASE w # Free
    BY <2>2 DEF Works
  <2> QED BY <2>1, <2>2
<1> QED BY <1>1, <1>2, <1>3

\* Steps that change no binding and no permission, and start no revocation.
LEMMA RevokeFrame ==
  ASSUME RevokeInv, \A o \in Handlers : Revoking(o)' => Revoking(o),
         \A u \in People : IsAdmin(u) => IsAdmin(u)', contested \subseteq contested'
  PROVE  RevokeInv'
BY DEF RevokeInv

LEMMA InviteFrame ==
  ASSUME InviteInv, \A o \in Handlers : \A i \in Nat : Uses(o, i)' => Uses(o, i),
         ended' = ended, contested \subseteq contested', invitations' \subseteq invitations,
         invited' = invited
  PROVE  InviteInv'
BY DEF InviteInv, Ended

\* One handler moves; bindings, permissions and the cache stay.
LEMMA GoesKeeps ==
  ASSUME AccessInv, NEW h \in Handlers, NEW r \in Readings \cup Works, Goes(h, r), WorkOK(r),
         handler[h].pc # "invalidate", UNCHANGED <<bindings, perms, cached>>,
         r.pc = "permissions" => r.met \/ r.roles = bindings[r.actor],
         r.pc = "store" => r.met \/ r.access = Access(bindings[r.actor], perms)
  PROVE  /\ handler' \in [Handlers -> Readings \cup Works] /\ handler'[h] = r
         /\ \A o \in Handlers \ {h} : handler'[o] = handler[o]
         /\ \A o \in Handlers : WorkOK(handler'[o])
         /\ CacheInv'
<1>1. /\ handler' \in [Handlers -> Readings \cup Works] /\ handler'[h] = r
      /\ \A o \in Handlers \ {h} : handler'[o] = handler[o]
  BY DEF Goes, AccessInv, AccessTypeOK
<1>2. \A o \in Handlers : WorkOK(handler'[o])
  BY <1>1 DEF AccessInv, AccessTypeOK
<1>3. ReadsInv'
  BY <1>1 DEF AccessInv, CacheInv, ReadsInv
<1>4. CacheFollowsBindings'
  <2> SUFFICES ASSUME NEW n \in AccessPods, NEW u \in People
               PROVE  \/ cached'[<<n, u>>] = NotCached
                      \/ cached'[<<n, u>>].behind
                      \/ \E o \in Handlers : PodOf[o] = n /\ handler'[o].pc = "invalidate" /\ u \in handler'[o].us
                      \/ cached'[<<n, u>>].access = Access(bindings'[u], perms')
    BY DEF CacheFollowsBindings
  <2>1. \/ cached[<<n, u>>] = NotCached
        \/ cached[<<n, u>>].behind
        \/ \E o \in Handlers : PodOf[o] = n /\ handler[o].pc = "invalidate" /\ u \in handler[o].us
        \/ cached[<<n, u>>].access = Access(bindings[u], perms)
    BY DEF AccessInv, CacheInv, CacheFollowsBindings
  <2> QED BY <2>1, <1>1
<1> QED BY <1>1, <1>2, <1>3, <1>4 DEF CacheInv

\* A change of the access of the accounts us is committed.
LEMMA CommitKeeps ==
  ASSUME AccessInv, NEW h \in Handlers, NEW us \in SUBSET People, CommitChange(h, us),
         handler[h].pc # "invalidate",
         \A u \in People \ us : /\ bindings'[u] = bindings[u]
                                /\ Access(bindings'[u], perms') = Access(bindings[u], perms)
  PROVE  /\ handler' \in [Handlers -> Readings \cup Works]
         /\ \A o \in Handlers : WorkOK(handler'[o])
         /\ cached' \in [AccessPods \X People -> {NotCached} \cup Entries]
         /\ handler'[h].pc = "invalidate"
         /\ \A o \in Handlers \ {h} : handler'[o] = handler[o] \/ handler'[o] \in Readings
         /\ CacheInv'
<1> PICK r : r = [pc |-> "invalidate", us |-> us]
  OBVIOUS
<1>1. r \in Works /\ r.pc = "invalidate" /\ r.us = us /\ WorkOK(r)
  BY DEF Works, WorkOK
<1>2. /\ handler \in [Handlers -> Readings \cup Works]
      /\ cached \in [AccessPods \X People -> {NotCached} \cup Entries]
      /\ \A o \in Handlers : WorkOK(handler[o])
  BY DEF AccessInv, AccessTypeOK
<1>3. handler' = [o \in Handlers |->
                    IF o = h THEN r
                    ELSE IF handler[o].pc \in {"bindings", "permissions", "store"} /\ handler[o].actor \in us
                         THEN [handler[o] EXCEPT !.met = TRUE] ELSE handler[o]]
  BY DEF CommitChange, Overtake
<1>4. handler'[h] = r
  BY <1>3
<1>5. ASSUME NEW o \in Handlers \ {h}
      PROVE  \/ handler'[o] = handler[o] /\ (handler[o] \in Readings => handler[o].actor \notin us)
             \/ handler[o] \in Readings /\ handler'[o] \in Readings /\ handler'[o].met
  <2>1. CASE handler[o] \in Readings /\ handler[o].actor \in us
    <3>1. handler'[o] = [handler[o] EXCEPT !.met = TRUE]
      BY <1>3, <2>1, ReadingOrWork
    <3> PICK q \in Readings : q = handler[o]
      BY <2>1
    <3> PICK n : n = handler'[o] /\ n = [q EXCEPT !.met = TRUE]
      BY <3>1
    <3> QED BY <2>1, Met
  <2>2. CASE ~(handler[o] \in Readings /\ handler[o].actor \in us)
    BY <1>2, <1>3, <2>2, ReadingOrWork
  <2> QED BY <2>1, <2>2
<1>6. handler' \in [Handlers -> Readings \cup Works]
  <2>1. \A o \in Handlers : handler'[o] \in Readings \cup Works
    BY <1>1, <1>2, <1>4, <1>5
  <2> QED BY <1>3, <2>1
<1>7. \A o \in Handlers : WorkOK(handler'[o])
  BY <1>1, <1>2, <1>4, <1>5, ReadingOrWork
<1>8. ReadsInv'
  <2> SUFFICES ASSUME NEW o \in Handlers
               PROVE  /\ handler'[o].pc = "permissions" =>
                           handler'[o].met \/ handler'[o].roles = bindings'[handler'[o].actor]
                      /\ handler'[o].pc = "store" =>
                           handler'[o].met \/ handler'[o].access = Access(bindings'[handler'[o].actor], perms')
    BY DEF ReadsInv
  <2>1. CASE o = h
    BY <1>1, <1>4, <2>1
  <2>2. CASE o # h /\ handler'[o] = handler[o] /\ handler[o] \in Readings
    <3>1. handler'[o].met \/ handler[o].actor \notin us
      BY <1>5, <2>2
    <3>2. handler[o].actor \in People
      BY <2>2, ReadingOrWork
    <3> QED BY <2>2, <3>1, <3>2 DEF AccessInv, CacheInv, ReadsInv
  <2>3. CASE handler'[o] \notin Readings
    BY <1>6, <2>3, ReadingOrWork
  <2>4. CASE handler'[o].met
    BY <2>4
  <2> QED BY <2>1, <2>2, <2>3, <2>4, <1>5
<1>9. \A q \in AccessPods \X People :
        cached'[q] = IF q[2] \in us /\ q[1] # PodOf[h] /\ cached[q] # NotCached
                     THEN [cached[q] EXCEPT !.behind = TRUE] ELSE cached[q]
  BY <1>2 DEF CommitChange, Outdate
<1>10. \A c \in Entries : [c EXCEPT !.behind = TRUE] \in Entries /\ [c EXCEPT !.behind = TRUE].behind
  BY DEF Entries
<1>11. cached' \in [AccessPods \X People -> {NotCached} \cup Entries]
  <2>1. \A q \in AccessPods \X People : cached'[q] \in {NotCached} \cup Entries
    BY <1>2, <1>9, <1>10
  <2>2. cached' = [q \in AccessPods \X People |-> cached'[q]]
    BY <1>2 DEF CommitChange, Outdate
  <2> QED BY <2>1, <2>2
<1>12. CacheFollowsBindings'
  <2> SUFFICES ASSUME NEW n \in AccessPods, NEW u \in People
               PROVE  \/ cached'[<<n, u>>] = NotCached
                      \/ cached'[<<n, u>>].behind
                      \/ \E o \in Handlers : PodOf[o] = n /\ handler'[o].pc = "invalidate" /\ u \in handler'[o].us
                      \/ cached'[<<n, u>>].access = Access(bindings'[u], perms')
    BY DEF CacheFollowsBindings
  <2>1. \/ cached[<<n, u>>] = NotCached
        \/ cached[<<n, u>>].behind
        \/ \E o \in Handlers : PodOf[o] = n /\ handler[o].pc = "invalidate" /\ u \in handler[o].us
        \/ cached[<<n, u>>].access = Access(bindings[u], perms)
    BY DEF AccessInv, CacheInv, CacheFollowsBindings
  <2>2. cached'[<<n, u>>] = IF u \in us /\ n # PodOf[h] /\ cached[<<n, u>>] # NotCached
                            THEN [cached[<<n, u>>] EXCEPT !.behind = TRUE] ELSE cached[<<n, u>>]
    BY <1>9
  <2>3. CASE u \in us /\ n # PodOf[h] /\ cached[<<n, u>>] # NotCached
    BY <1>2, <1>10, <2>2, <2>3
  <2>4. CASE u \in us /\ n = PodOf[h]
    BY <1>1, <1>4, <2>4
  <2>5. CASE cached[<<n, u>>] = NotCached
    BY <2>2, <2>5
  <2>6. CASE u \notin us
    <3>1. cached'[<<n, u>>] = cached[<<n, u>>] /\ Access(bindings'[u], perms') = Access(bindings[u], perms)
      BY <2>2, <2>6
    <3>2. ASSUME NEW o \in Handlers, PodOf[o] = n, handler[o].pc = "invalidate", u \in handler[o].us, o # h
          PROVE  handler'[o] = handler[o]
      BY <1>5, <3>2, ReadingOrWork
    <3>3. CASE \E o \in Handlers \ {h} : PodOf[o] = n /\ handler[o].pc = "invalidate" /\ u \in handler[o].us
      BY <3>2, <3>3
    <3>4. handler[h].pc # "invalidate"
      OBVIOUS
    <3> QED BY <2>1, <3>1, <3>3, <3>4
  <2> QED BY <2>3, <2>4, <2>5, <2>6
<1> QED BY <1>1, <1>4, <1>5, <1>6, <1>7, <1>8, <1>11, <1>12 DEF CacheInv
\* A handler moves, and what the access of the accounts comes from stays.
Leads(h, r) ==
    /\ Goes(h, r) /\ WorkOK(r) /\ handler[h].pc # "invalidate"
    /\ UNCHANGED <<bindings, perms, accounts, cached>>
    /\ r.pc = "permissions" => r.met \/ r.roles = bindings[r.actor]
    /\ r.pc = "store" => r.met \/ r.access = Access(bindings[r.actor], perms)

LEMMA LeadsKeeps ==
  ASSUME AccessInv, NEW h \in Handlers, NEW r \in Readings \cup Works, Leads(h, r),
         invitations' \subseteq Nat, invited' \in Nat
  PROVE  /\ AccessTypeOK' /\ CacheInv' /\ handler'[h] = r
         /\ \A o \in Handlers \ {h} : handler'[o] = handler[o]
<1>1. /\ handler' \in [Handlers -> Readings \cup Works] /\ handler'[h] = r
      /\ \A o \in Handlers \ {h} : handler'[o] = handler[o]
      /\ \A o \in Handlers : WorkOK(handler'[o])
      /\ CacheInv'
  BY GoesKeeps DEF Leads
<1>2. AccessTypeOK'
  <2>1. \A o \in Handlers : WorkOK(handler[o])'
    BY <1>1 DEF WorkOK
  <2> QED BY <1>1, <2>1 DEF AccessInv, AccessTypeOK, Leads
<1> QED BY <1>1, <1>2

\* Nor does it use an invitation or revoke a role.
LEMMA QuietKeeps ==
  ASSUME AccessInv, NEW h \in Handlers, NEW r \in Readings \cup Works, Leads(h, r),
         UNCHANGED <<inviteVars, historyVars>>, r.pc # "accept",
         r.pc = "commit" => r.op \notin {"revoke admin", "revoke invitation"}
  PROVE  AccessInv'
<1>1. invitations' \subseteq Nat /\ invited' \in Nat
  BY DEF inviteVars, AccessInv, AccessTypeOK
<1>2. /\ AccessTypeOK' /\ CacheInv' /\ handler'[h] = r
      /\ \A o \in Handlers \ {h} : handler'[o] = handler[o]
  BY <1>1, LeadsKeeps
<1>3. RevokeInv'
  <2>1. \A o \in Handlers : Revoking(o)' => Revoking(o)
    BY <1>2 DEF Revoking
  <2>2. \A u \in People : IsAdmin(u) => IsAdmin(u)'
    BY DEF IsAdmin, Leads
  <2> QED BY <2>1, <2>2, RevokeFrame DEF AccessInv, historyVars
<1>4. InviteInv'
  <2>1. \A o \in Handlers : \A i \in Nat : Uses(o, i)' => Uses(o, i)
    BY <1>2 DEF Uses
  <2> QED BY <2>1, InviteFrame DEF AccessInv, historyVars, inviteVars
<1> QED BY <1>2, <1>3, <1>4 DEF AccessInv

\* A change of the access of the accounts us that leaves a role's bindings typed.
Alters(h, us) ==
    /\ CommitChange(h, us) /\ handler[h].pc # "invalidate"
    /\ bindings' \in [People -> SUBSET RoleNames] /\ perms' \in Nat /\ accounts' \subseteq People
    /\ perms' = 0 => \A u \in People : "custom" \notin bindings'[u]
    /\ \A u \in People \ us : /\ bindings'[u] = bindings[u]
                              /\ Access(bindings'[u], perms') = Access(bindings[u], perms)

LEMMA AltersKeeps ==
  ASSUME AccessInv, NEW h \in Handlers, NEW us \in SUBSET People, Alters(h, us),
         invitations' \subseteq Nat, invited' \in Nat
  PROVE  /\ AccessTypeOK' /\ CacheInv'
         /\ \A o \in Handlers : Revoking(o)' => Revoking(o) /\ o # h
         /\ \A o \in Handlers : \A i \in Nat : Uses(o, i)' => Uses(o, i) /\ o # h
<1>1. /\ handler' \in [Handlers -> Readings \cup Works]
      /\ \A o \in Handlers : WorkOK(handler'[o])
      /\ cached' \in [AccessPods \X People -> {NotCached} \cup Entries]
      /\ handler'[h].pc = "invalidate"
      /\ \A o \in Handlers \ {h} : handler'[o] = handler[o] \/ handler'[o] \in Readings
      /\ CacheInv'
  BY CommitKeeps DEF Alters
<1>2. AccessTypeOK'
  <2>1. \A o \in Handlers : WorkOK(handler[o])'
    BY <1>1 DEF WorkOK
  <2> QED BY <1>1, <2>1 DEF AccessTypeOK, Alters
<1>3. \A o \in Handlers : Revoking(o)' => Revoking(o) /\ o # h
  BY <1>1, ReadingOrWork DEF Revoking
<1>4. \A o \in Handlers : \A i \in Nat : Uses(o, i)' => Uses(o, i) /\ o # h
  BY <1>1, ReadingOrWork DEF Uses
<1> QED BY <1>1, <1>2, <1>3, <1>4

LEMMA ChangeKeeps ==
  ASSUME AccessInv, NEW h \in Handlers, NEW us \in SUBSET People, Alters(h, us),
         UNCHANGED <<inviteVars, historyVars>>, \A u \in People : IsAdmin(u) => IsAdmin(u)'
  PROVE  AccessInv'
<1>1. invitations' \subseteq Nat /\ invited' \in Nat
  BY DEF inviteVars, AccessInv, AccessTypeOK
<1>2. /\ AccessTypeOK' /\ CacheInv'
      /\ \A o \in Handlers : Revoking(o)' => Revoking(o) /\ o # h
      /\ \A o \in Handlers : \A i \in Nat : Uses(o, i)' => Uses(o, i) /\ o # h
  BY <1>1, AltersKeeps
<1>3. RevokeInv'
  BY <1>2, RevokeFrame DEF AccessInv, historyVars
<1>4. InviteInv'
  BY <1>2, InviteFrame DEF AccessInv, historyVars, inviteVars
<1> QED BY <1>2, <1>3, <1>4 DEF AccessInv

LEMMA AbortKeeps ==
  ASSUME AccessInv, NEW h \in Handlers, handler[h].pc = "commit" \/ handler[h].pc = "accept", Goes(h, Free),
         UNCHANGED <<bindings, perms, accounts, cached, inviteVars, historyVars>>
  PROVE  AccessInv'
<1>1. Leads(h, Free) /\ Free.pc \notin {"accept", "commit"} /\ Free \in Readings \cup Works
  BY FreeIs DEF Leads
<1> QED BY <1>1, QuietKeeps

LEMMA ResolveStep ==
  ASSUME AccessInv, NEW h \in Handlers, NEW u \in accounts, Resolve(h, u)
  PROVE  AccessInv'
<1>1. u \in People /\ PodOf[h] \in AccessPods /\ handler[h].pc # "invalidate"
  BY FreeIs DEF AccessInv, AccessTypeOK, AccessPods, Resolve
<1>2. PICK e : e = cached[<<PodOf[h], u>>]
  OBVIOUS
<1>3. e = NotCached \/ e \in Entries
  BY <1>1, <1>2 DEF AccessInv, AccessTypeOK
<1>4. CASE e = NotCached
  <2>1. PICK r : r = [pc |-> "bindings", actor |-> u, met |-> FALSE]
    OBVIOUS
  <2>2. r \in Readings /\ r.pc = "bindings"
    BY <1>1, <2>1 DEF Readings
  <2>3. Goes(h, r) /\ UNCHANGED <<bindings, perms, accounts, cached, inviteVars, historyVars>>
    BY <1>2, <1>4, <2>1 DEF Resolve, bindingVars
  <2>4. Leads(h, r)
    BY <1>1, <2>2, <2>3 DEF Leads, WorkOK
  <2> QED BY <2>2, <2>3, <2>4, QuietKeeps
<1>5. CASE e \in Entries /\ e # NotCached
  <2>1. PICK r : r = [pc |-> "authorize", access |-> e.access]
    OBVIOUS
  <2>2. r \in Works /\ r.pc = "authorize"
    BY <1>5, <2>1 DEF Works, Entries
  <2>3. Goes(h, r) /\ UNCHANGED <<bindings, perms, accounts, cached, inviteVars, historyVars>>
    BY <1>2, <1>5, <2>1 DEF Resolve, bindingVars
  <2>4. Leads(h, r)
    BY <1>1, <2>2, <2>3 DEF Leads, WorkOK
  <2> QED BY <2>2, <2>3, <2>4, QuietKeeps
<1> QED BY <1>3, <1>4, <1>5

LEMMA ListStep ==
  ASSUME AccessInv, NEW h \in Handlers, ListBindings(h)
  PROVE  AccessInv'
<1>1. PICK q : q = handler[h]
  OBVIOUS
<1>2. q \in Readings /\ q.pc = "bindings"
  BY <1>1, ReadingOrWork DEF AccessInv, AccessTypeOK, ListBindings
<1>3. q.actor \in People /\ q.met \in BOOLEAN
  BY <1>2 DEF Readings
<1>4. bindings[q.actor] \in SUBSET RoleNames
  BY <1>3 DEF AccessInv, AccessTypeOK
<1>5. PICK r : r = [pc |-> "permissions", actor |-> q.actor, met |-> q.met, roles |-> bindings[q.actor]]
  OBVIOUS
<1>6. r \in Readings /\ r.pc = "permissions" /\ r.roles = bindings[r.actor]
  BY <1>3, <1>4, <1>5 DEF Readings
<1>7. Goes(h, r) /\ UNCHANGED <<bindings, perms, accounts, cached, inviteVars, historyVars>>
  BY <1>1, <1>5 DEF ListBindings, bindingVars
<1>8. Leads(h, r)
  BY <1>1, <1>2, <1>6, <1>7 DEF Leads, WorkOK
<1> QED BY <1>6, <1>7, <1>8, QuietKeeps

LEMMA PermissionsStep ==
  ASSUME AccessInv, NEW h \in Handlers, PermissionsForRoles(h)
  PROVE  AccessInv'
<1>1. PICK q : q = handler[h]
  OBVIOUS
<1>2. q \in Readings /\ q.pc = "permissions"
  BY <1>1, ReadingOrWork DEF AccessInv, AccessTypeOK, PermissionsForRoles
<1>3. q.actor \in People /\ q.met \in BOOLEAN /\ q.roles \in SUBSET RoleNames
  BY <1>2 DEF Readings
<1>4. Access(q.roles, perms) \in Accesses
  BY <1>3, AccessOf DEF AccessInv, AccessTypeOK
<1>5. PICK r : r = [pc |-> "store", actor |-> q.actor, met |-> q.met, access |-> Access(q.roles, perms)]
  OBVIOUS
<1>6. r \in Readings /\ r.pc = "store"
  BY <1>3, <1>4, <1>5 DEF Readings
<1>7. r.met \/ r.access = Access(bindings[r.actor], perms)
  <2>1. q.met \/ q.roles = bindings[q.actor]
    BY <1>1, <1>2 DEF AccessInv, CacheInv, ReadsInv
  <2> QED BY <1>5, <2>1
<1>8. Goes(h, r) /\ UNCHANGED <<bindings, perms, accounts, cached, inviteVars, historyVars>>
  BY <1>1, <1>5 DEF PermissionsForRoles, bindingVars
<1>9. Leads(h, r)
  BY <1>1, <1>2, <1>6, <1>7, <1>8 DEF Leads, WorkOK
<1> QED BY <1>6, <1>8, <1>9, QuietKeeps

\* Authorize, and the transactions that change nobody's access.
LEMMA AuthorizeStep ==
  ASSUME AccessInv, NEW h \in Handlers, Authorize(h)
  PROVE  AccessInv'
<1>1. handler[h].pc = "authorize" /\ UNCHANGED <<bindings, perms, accounts, cached, inviteVars, ended>>
  BY DEF Authorize, bindingVars
<1>2. CASE ~handler[h].access.admin
  <2>1. Goes(h, Free) /\ UNCHANGED historyVars
    BY <1>2 DEF Authorize, historyVars
  <2>2. Leads(h, Free) /\ Free.pc \notin {"accept", "commit"} /\ Free \in Readings \cup Works
    BY <1>1, <2>1, FreeIs DEF Leads
  <2> QED BY <1>1, <2>1, <2>2, QuietKeeps
<1>3. CASE handler[h].access.admin
  <2>1. PICK q \in Requests :
          /\ Goes(h, [pc |-> IF q[1] = "revoke admin" THEN "count" ELSE "commit", op |-> q[1], on |-> q[2]])
          /\ IF q[1] = "revoke invitation" THEN Contest(q[2]) ELSE UNCHANGED contested
    BY <1>3 DEF Authorize
  <2>2. PICK r : r = [pc |-> IF q[1] = "revoke admin" THEN "count" ELSE "commit", op |-> q[1], on |-> q[2]]
    OBVIOUS
  <2>3. /\ q[1] \in StaffOps /\ q[2] \in People \cup Nat
        /\ q[1] = "revoke admin" => q[2] \in People
        /\ q[1] = "revoke invitation" => q[2] \in invitations
    BY DEF Requests, StaffOps, People, AccessInv, AccessTypeOK
  <2>4. r \in Works
    BY <2>2, <2>3 DEF Works
  <2>5. /\ r.pc \in {"count", "commit"} /\ r.op = q[1] /\ r.on = q[2]
        /\ r.pc = "count" <=> q[1] = "revoke admin"
    BY <2>2
  <2>6. WorkOK(r)
    BY <2>3, <2>5 DEF WorkOK, AccessInv, AccessTypeOK
  <2>7. Leads(h, r)
    BY <1>1, <2>1, <2>2, <2>5, <2>6 DEF Leads
  <2>8. CASE q[1] # "revoke invitation"
    BY <1>1, <2>1, <2>4, <2>5, <2>7, <2>8, QuietKeeps DEF historyVars
  <2>9. CASE q[1] = "revoke invitation"
    <3>1. invitations' \subseteq Nat /\ invited' \in Nat /\ invitations' = invitations /\ invited' = invited
      BY <1>1 DEF inviteVars, AccessInv, AccessTypeOK
    <3>2. /\ AccessTypeOK' /\ CacheInv' /\ handler'[h] = r
          /\ \A o \in Handlers \ {h} : handler'[o] = handler[o]
      BY <2>4, <2>7, <3>1, LeadsKeeps
    <3>3. RevokeInv'
      <4>1. \A o \in Handlers : Revoking(o)' => Revoking(o)
        BY <2>5, <2>9, <3>2 DEF Revoking
      <4>2. contested \subseteq contested' /\ \A u \in People : IsAdmin(u) => IsAdmin(u)'
        BY <1>1, <2>1, <2>9 DEF IsAdmin, Contest
      <4> QED BY <4>1, <4>2, RevokeFrame DEF AccessInv
    <3>4. InviteInv'
      <4>1. q[2] \in invitations /\ q[2] \in Nat /\ q[2] < invited
        BY <2>3, <2>9 DEF AccessInv, AccessTypeOK, InviteInv
      <4>2. \A o \in Handlers : \A i \in Nat : Uses(o, i)' => Uses(o, i) \/ (o = h /\ i = q[2])
        BY <2>5, <3>2 DEF Uses
      <4>3. contested' = IF \E o \in Handlers : Uses(o, q[2])
                         THEN contested \cup {<<"invitation", q[2]>>} ELSE contested
        BY <2>1, <2>9 DEF Contest
      <4> QED BY <1>1, <3>1, <4>1, <4>2, <4>3 DEF AccessInv, InviteInv, Ended
    <3> QED BY <3>2, <3>3, <3>4 DEF AccessInv
  <2> QED BY <2>8, <2>9
<1> QED BY <1>2, <1>3

\* Steps that leave the handlers' revocations and invitations alone, or free them.
LEMMA OthersKeep ==
  ASSUME AccessInv, AccessTypeOK', CacheInv', UNCHANGED <<bindings, inviteVars, historyVars>>,
         \A o \in Handlers : handler'[o] = handler[o] \/ handler'[o].pc \in {"rest", "authorize"}
  PROVE  AccessInv'
<1>1. RevokeInv'
  <2>1. \A o \in Handlers : Revoking(o)' => Revoking(o)
    BY DEF Revoking
  <2> QED BY <2>1, RevokeFrame DEF AccessInv, historyVars, IsAdmin
<1>2. InviteInv'
  <2>1. \A o \in Handlers : \A i \in Nat : Uses(o, i)' => Uses(o, i)
    BY DEF Uses
  <2> QED BY <2>1, InviteFrame DEF AccessInv, historyVars, inviteVars
<1> QED BY <1>1, <1>2 DEF AccessInv

LEMMA StoreStep ==
  ASSUME AccessInv, NEW h \in Handlers, StoreAccess(h)
  PROVE  AccessInv'
<1>1. PICK q : q = handler[h]
  OBVIOUS
<1>2. q \in Readings /\ q.pc = "store"
  BY <1>1, ReadingOrWork DEF AccessInv, AccessTypeOK, StoreAccess
<1>3. q.actor \in People /\ q.met \in BOOLEAN /\ q.access \in Accesses
  BY <1>2 DEF Readings
<1>4. q.met \/ q.access = Access(bindings[q.actor], perms)
  BY <1>1, <1>2 DEF AccessInv, CacheInv, ReadsInv
<1>5. PICK c : c = [kind |-> "entry", access |-> q.access, behind |-> q.met]
  OBVIOUS
<1>6. c \in Entries /\ c.access = q.access /\ c.behind = q.met
  BY <1>3, <1>5 DEF Entries
<1>7. PICK r : r = [pc |-> "authorize", access |-> q.access]
  OBVIOUS
<1>8. r \in Works /\ r.pc = "authorize" /\ WorkOK(r)
  BY <1>3, <1>7 DEF Works, WorkOK
<1>9. Goes(h, r) /\ cached' = [cached EXCEPT ![<<PodOf[h], q.actor>>] = c]
  BY <1>1, <1>5, <1>7 DEF StoreAccess
<1>10. UNCHANGED <<bindings, perms, accounts, inviteVars, historyVars>>
  BY DEF StoreAccess, bindingVars
<1>11. PodOf[h] \in AccessPods
  BY DEF AccessPods
<1>12. /\ handler' \in [Handlers -> Readings \cup Works] /\ handler'[h] = r
       /\ \A o \in Handlers \ {h} : handler'[o] = handler[o]
  BY <1>8, <1>9 DEF Goes, AccessInv, AccessTypeOK
<1>13. /\ cached' \in [AccessPods \X People -> {NotCached} \cup Entries]
       /\ cached'[<<PodOf[h], q.actor>>] = c
       /\ \A n \in AccessPods, u \in People :
            n # PodOf[h] \/ u # q.actor => cached'[<<n, u>>] = cached[<<n, u>>]
  BY <1>3, <1>6, <1>9, <1>11 DEF AccessInv, AccessTypeOK
<1>14. AccessTypeOK'
  <2>1. \A o \in Handlers : WorkOK(handler[o])'
    BY <1>8, <1>12 DEF WorkOK, AccessInv, AccessTypeOK
  <2> QED BY <1>10, <1>12, <1>13, <2>1 DEF AccessInv, AccessTypeOK, inviteVars
<1>15. CacheInv'
  <2>1. ReadsInv'
    BY <1>8, <1>10, <1>12 DEF AccessInv, CacheInv, ReadsInv
  <2>2. ASSUME NEW n \in AccessPods, NEW u \in People
        PROVE  \/ cached'[<<n, u>>] = NotCached
               \/ cached'[<<n, u>>].behind
               \/ \E o \in Handlers : PodOf[o] = n /\ handler'[o].pc = "invalidate" /\ u \in handler'[o].us
               \/ cached'[<<n, u>>].access = Access(bindings'[u], perms')
    <3>1. CASE n = PodOf[h] /\ u = q.actor
      BY <1>4, <1>6, <1>10, <1>13, <3>1
    <3>2. CASE n # PodOf[h] \/ u # q.actor
      <4>1. \/ cached[<<n, u>>] = NotCached
            \/ cached[<<n, u>>].behind
            \/ \E o \in Handlers : PodOf[o] = n /\ handler[o].pc = "invalidate" /\ u \in handler[o].us
            \/ cached[<<n, u>>].access = Access(bindings[u], perms)
        BY DEF AccessInv, CacheInv, CacheFollowsBindings
      <4>2. \A o \in Handlers : handler[o].pc = "invalidate" => handler'[o] = handler[o]
        BY <1>1, <1>2, <1>12
      <4> QED BY <1>10, <1>13, <3>2, <4>1, <4>2
    <3> QED BY <3>1, <3>2
  <2> QED BY <2>1, <2>2 DEF CacheInv, CacheFollowsBindings
<1> QED BY <1>8, <1>10, <1>12, <1>14, <1>15, OthersKeep

\* Entries only disappear, those of u in pod n among them, and handlers only fall idle:
\* the ones that were to drop u's entry in pod n leave none behind.
LEMMA DropsKeep ==
  ASSUME AccessInv, UNCHANGED <<bindings, perms, accounts, inviteVars, historyVars>>,
         handler' \in [Handlers -> Readings \cup Works],
         cached' \in [AccessPods \X People -> {NotCached} \cup Entries],
         \A o \in Handlers : handler'[o] = handler[o] \/ handler'[o] = Free,
         \A n \in AccessPods, u \in People :
            cached'[<<n, u>>] = cached[<<n, u>>] \/ cached'[<<n, u>>] = NotCached,
         \A o \in Handlers, u \in People :
            handler[o].pc = "invalidate" /\ u \in handler[o].us /\ handler'[o] # handler[o]
              => cached'[<<PodOf[o], u>>] = NotCached
  PROVE  AccessInv'
<1>1. AccessTypeOK'
  <2>1. \A o \in Handlers : WorkOK(handler[o])'
    BY FreeIs DEF WorkOK, AccessInv, AccessTypeOK
  <2> QED BY <2>1 DEF AccessInv, AccessTypeOK, inviteVars
<1>2. ReadsInv'
  BY FreeIs DEF AccessInv, CacheInv, ReadsInv
<1>3. ASSUME NEW n \in AccessPods, NEW u \in People
      PROVE  \/ cached'[<<n, u>>] = NotCached
             \/ cached'[<<n, u>>].behind
             \/ \E o \in Handlers : PodOf[o] = n /\ handler'[o].pc = "invalidate" /\ u \in handler'[o].us
             \/ cached'[<<n, u>>].access = Access(bindings'[u], perms')
  <2>1. \/ cached[<<n, u>>] = NotCached
        \/ cached[<<n, u>>].behind
        \/ \E o \in Handlers : PodOf[o] = n /\ handler[o].pc = "invalidate" /\ u \in handler[o].us
        \/ cached[<<n, u>>].access = Access(bindings[u], perms)
    BY DEF AccessInv, CacheInv, CacheFollowsBindings
  <2> QED BY <2>1
<1>4. CacheInv'
  BY <1>2, <1>3 DEF CacheInv, CacheFollowsBindings
<1>5. \A o \in Handlers : handler'[o] = handler[o] \/ handler'[o].pc \in {"rest", "authorize"}
  BY FreeIs
<1> QED BY <1>1, <1>4, <1>5, OthersKeep

LEMMA InvalidateStep ==
  ASSUME AccessInv, NEW h \in Handlers, Invalidate(h)
  PROVE  AccessInv'
<1>1. handler \in [Handlers -> Readings \cup Works] /\ cached \in [AccessPods \X People -> {NotCached} \cup Entries]
  BY DEF AccessInv, AccessTypeOK
<1>2. /\ handler' \in [Handlers -> Readings \cup Works] /\ handler'[h] = Free
      /\ \A o \in Handlers \ {h} : handler'[o] = handler[o]
  BY <1>1, FreeIs DEF Invalidate, Goes
<1>3. \A n \in AccessPods, u \in People :
        cached'[<<n, u>>] = IF n = PodOf[h] /\ u \in handler[h].us THEN NotCached ELSE cached[<<n, u>>]
  BY <1>1 DEF Invalidate
<1>4. cached' \in [AccessPods \X People -> {NotCached} \cup Entries]
  BY <1>1 DEF Invalidate
<1>5. UNCHANGED <<bindings, perms, accounts, inviteVars, historyVars>> /\ PodOf[h] \in AccessPods
  BY DEF Invalidate, bindingVars, AccessPods
<1> QED BY <1>2, <1>3, <1>4, <1>5, DropsKeep

LEMMA ExpireAccessStep ==
  ASSUME AccessInv, NEW n \in AccessPods, NEW u \in People, ExpireAccess(n, u)
  PROVE  AccessInv'
<1>1. handler \in [Handlers -> Readings \cup Works] /\ cached \in [AccessPods \X People -> {NotCached} \cup Entries]
  BY DEF AccessInv, AccessTypeOK
<1>2. /\ cached' \in [AccessPods \X People -> {NotCached} \cup Entries]
      /\ \A m \in AccessPods, v \in People :
           cached'[<<m, v>>] = cached[<<m, v>>] \/ cached'[<<m, v>>] = NotCached
  BY <1>1 DEF ExpireAccess
<1>3. UNCHANGED <<bindings, perms, accounts, inviteVars, historyVars, handler>>
  BY DEF ExpireAccess, bindingVars
<1> QED BY <1>1, <1>2, <1>3, DropsKeep

LEMMA AccessCrashStep ==
  ASSUME AccessInv, NEW n \in AccessPods, AccessCrash(n)
  PROVE  AccessInv'
<1>1. handler \in [Handlers -> Readings \cup Works] /\ cached \in [AccessPods \X People -> {NotCached} \cup Entries]
  BY DEF AccessInv, AccessTypeOK
<1>2. /\ handler' \in [Handlers -> Readings \cup Works]
      /\ \A o \in Handlers : handler'[o] = IF PodOf[o] = n THEN Free ELSE handler[o]
  BY <1>1, FreeIs DEF AccessCrash
<1>3. \A m \in AccessPods, u \in People :
        cached'[<<m, u>>] = IF m = n THEN NotCached ELSE cached[<<m, u>>]
  BY <1>1 DEF AccessCrash
<1>4. cached' \in [AccessPods \X People -> {NotCached} \cup Entries]
  BY <1>1 DEF AccessCrash
<1>5. UNCHANGED <<bindings, perms, accounts, inviteVars, historyVars>>
  BY DEF AccessCrash, bindingVars
<1> QED BY <1>2, <1>3, <1>4, <1>5, DropsKeep

\* RevokeRole's count: of two administrators one stays.
LEMMA CountStep ==
  ASSUME AccessInv, IsFiniteSet(Staff), NEW h \in Handlers, CountPlatformAdmins(h)
  PROVE  AccessInv'
<1>1. handler[h].pc = "count" /\ UNCHANGED <<bindings, perms, accounts, cached, inviteVars, ended>>
  BY DEF CountPlatformAdmins, bindingVars
<1>2. PICK S : S = {u \in People : IsAdmin(u)}
  OBVIOUS
<1>3. CASE Cardinality(S) <= 1
  <2>1. Goes(h, Free) /\ UNCHANGED historyVars
    BY <1>1, <1>2, <1>3 DEF CountPlatformAdmins, historyVars, IsAdmin
  <2>2. Leads(h, Free) /\ Free.pc \notin {"accept", "commit"} /\ Free \in Readings \cup Works
    BY <1>1, <2>1, FreeIs DEF Leads
  <2> QED BY <1>1, <2>1, <2>2, QuietKeeps
<1>4. CASE ~(Cardinality(S) <= 1)
  <2>1. PICK q : q = handler[h]
    OBVIOUS
  <2>2. q \in Works /\ q.pc = "count" /\ q.op = "revoke admin" /\ q.on \in People
    BY <1>1, <2>1, ReadingOrWork DEF AccessInv, AccessTypeOK, WorkOK
  <2>3. PICK r : r = [q EXCEPT !.pc = "commit"]
    OBVIOUS
  <2>4. q \in [pc : {"count", "commit"}, op : StaffOps, on : People \cup Nat]
    <3>1. q # Free
      BY <2>2, FreeIs
    <3>2. q \notin [pc : {"authorize"}, access : Accesses]
      BY <2>2
    <3>3. q \notin [pc : {"invalidate"}, us : SUBSET People] /\ q \notin [pc : {"accept"}, on : Nat]
      BY <2>2
    <3> QED BY <2>2, <3>1, <3>2, <3>3 DEF Works
  <2>5. r = [pc |-> "commit", op |-> "revoke admin", on |-> q.on]
    BY <2>2, <2>3, <2>4
  <2>6. r \in Works /\ WorkOK(r) /\ r.pc = "commit" /\ r.op = "revoke admin"
    BY <2>2, <2>5 DEF Works, StaffOps, WorkOK
  <2>7. /\ Goes(h, r)
        /\ contested' = IF \E o \in Handlers : Revoking(o) THEN contested \cup {<<"revoke", 0>>} ELSE contested
    BY <1>2, <1>4, <2>1, <2>3 DEF CountPlatformAdmins, IsAdmin, Revoking
  <2>8. Leads(h, r)
    BY <1>1, <2>6, <2>7 DEF Leads
  <2>9. invitations' \subseteq Nat /\ invited' \in Nat
    BY <1>1 DEF inviteVars, AccessInv, AccessTypeOK
  <2>10. /\ AccessTypeOK' /\ CacheInv' /\ handler'[h] = r
         /\ \A o \in Handlers \ {h} : handler'[o] = handler[o]
    BY <2>6, <2>8, <2>9, LeadsKeeps
  <2>11. InviteInv'
    <3>1. \A o \in Handlers : \A i \in Nat : Uses(o, i)' => Uses(o, i)
      BY <2>6, <2>10 DEF Uses
    <3>2. contested \subseteq contested'
      BY <2>7
    <3> QED BY <1>1, <3>1, <3>2, InviteFrame DEF AccessInv, inviteVars
  <2>12. \E u, v \in People : u # v /\ IsAdmin(u) /\ IsAdmin(v)
    <3>1. IsFiniteSet(People) /\ S \subseteq People
      BY <1>2, FS_Singleton, FS_Union DEF People
    <3>2. IsFiniteSet(S) /\ Cardinality(S) \in Nat
      BY <3>1, FS_Subset, FS_CardinalityType
    <3>3. S # {}
      BY <1>4, FS_EmptySet
    <3>4. PICK u : u \in S
      BY <3>3
    <3>5. Cardinality({u}) = 1
      BY FS_Singleton
    <3>6. S # {u}
      BY <1>4, <3>5
    <3> QED BY <1>2, <3>4, <3>6
  <2>13. RevokeInv'
    <3>1. \A u \in People : IsAdmin(u)' <=> IsAdmin(u)
      BY <1>1 DEF IsAdmin
    <3>2. \A o \in Handlers : Revoking(o)' => Revoking(o) \/ o = h
      BY <2>10 DEF Revoking
    <3>3. SUFFICES ASSUME <<"revoke", 0>> \notin contested'
                   PROVE  /\ \E u \in People : IsAdmin(u)'
                          /\ \A g, o \in Handlers : Revoking(g)' /\ Revoking(o)' => g = o
                          /\ \E u, v \in People : u # v /\ IsAdmin(u)' /\ IsAdmin(v)'
      BY DEF RevokeInv
    <3>4. \A o \in Handlers : ~Revoking(o)
      BY <2>7, <3>3
    <3> QED BY <2>12, <3>1, <3>2, <3>4
  <2> QED BY <2>10, <2>11, <2>13 DEF AccessInv
<1> QED BY <1>3, <1>4

\* A role is added to the bindings of one account.
LEMMA BindKeeps ==
  ASSUME AccessInv, NEW h \in Handlers, handler[h].pc = "commit", NEW t \in People, NEW role \in RoleNames,
         Bind(h, t, role), role = "custom" => perms > 0, UNCHANGED <<perms, inviteVars, historyVars>>,
         accounts' \subseteq People
  PROVE  AccessInv'
<1>1. bindings \in [People -> SUBSET RoleNames] /\ perms \in Nat
  BY DEF AccessInv, AccessTypeOK
<1>2. \A u \in People : bindings'[u] = IF u = t THEN bindings[u] \cup {role} ELSE bindings[u]
  BY <1>1 DEF Bind
<1>3. bindings' \in [People -> SUBSET RoleNames]
  BY <1>1 DEF Bind
<1>4. perms' = 0 => \A u \in People : "custom" \notin bindings'[u]
  <2>1. perms = 0 => \A u \in People : "custom" \notin bindings[u]
    BY DEF AccessInv, AccessTypeOK
  <2>2. perms = 0 => role # "custom"
    BY <1>1
  <2>3. perms' = perms
    OBVIOUS
  <2> QED BY <1>2, <2>1, <2>2, <2>3
<1>5. Alters(h, {t})
  BY <1>1, <1>2, <1>3, <1>4 DEF Alters, Bind
<1>6. \A u \in People : IsAdmin(u) => IsAdmin(u)'
  BY <1>2 DEF IsAdmin
<1> QED BY <1>5, <1>6, ChangeKeeps

LEMMA GrantStep ==
  ASSUME AccessInv, NEW h \in Handlers, AssignRole(h) \/ AssignCustomRole(h) \/ CreateShop(h) \/ CreateUserDirect(h)
  PROVE  AccessInv'
<1>1. handler[h].pc = "commit" /\ UNCHANGED <<inviteVars, historyVars>> /\ accounts \subseteq People /\ Guest \in People
  BY DEF AssignRole, AssignCustomRole, CreateShop, CreateUserDirect, Commits, AccessInv, AccessTypeOK, People
<1>2. CASE Aborts(h)
  BY <1>1, <1>2, AbortKeeps DEF Aborts
<1>3. CASE \E t \in accounts, role \in {"admin", "owner"} : Bind(h, t, role) /\ UNCHANGED <<perms, accounts>>
  <2>1. PICK t \in accounts, role \in {"admin", "owner"} : Bind(h, t, role) /\ UNCHANGED <<perms, accounts>>
    BY <1>3
  <2> QED BY <1>1, <2>1, BindKeeps DEF RoleNames
<1>4. CASE \E t \in accounts : perms > 0 /\ Bind(h, t, "custom") /\ UNCHANGED <<perms, accounts>>
  <2>1. PICK t \in accounts : perms > 0 /\ Bind(h, t, "custom") /\ UNCHANGED <<perms, accounts>>
    BY <1>4
  <2> QED BY <1>1, <2>1, BindKeeps DEF RoleNames
<1>5. CASE accounts' = accounts \cup {Guest} /\ Bind(h, Guest, "owner") /\ UNCHANGED perms
  BY <1>1, <1>5, BindKeeps DEF RoleNames
<1> QED BY <1>2, <1>3, <1>4, <1>5 DEF AssignRole, AssignCustomRole, CreateShop, CreateUserDirect

LEMMA CustomRoleStep ==
  ASSUME AccessInv, NEW h \in Handlers, CreateCustomRole(h) \/ UpdateCustomRole(h) \/ DeleteCustomRole(h)
  PROVE  AccessInv'
<1>1. handler[h].pc = "commit" /\ UNCHANGED <<inviteVars, historyVars>>
  BY DEF CreateCustomRole, UpdateCustomRole, DeleteCustomRole, Commits
<1>2. /\ bindings \in [People -> SUBSET RoleNames] /\ perms \in Nat /\ accounts \subseteq People
      /\ perms = 0 => \A u \in People : "custom" \notin bindings[u]
  BY DEF AccessInv, AccessTypeOK
<1>3. CASE Aborts(h)
  BY <1>1, <1>3, AbortKeeps DEF Aborts
<1>4. CASE perms = 0 /\ perms' = 1 /\ Goes(h, Free) /\ UNCHANGED <<bindings, accounts, cached>>
  <2>1. \A u \in People : Access(bindings[u], 1) = Access(bindings[u], perms)
    BY <1>2, <1>4 DEF Access
  <2>2. /\ handler' \in [Handlers -> Readings \cup Works] /\ handler'[h] = Free
        /\ \A o \in Handlers \ {h} : handler'[o] = handler[o]
    BY <1>4, FreeIs DEF Goes, AccessInv, AccessTypeOK
  <2>3. AccessTypeOK'
    <3>1. \A o \in Handlers : WorkOK(handler[o])'
      BY <2>2, FreeIs DEF WorkOK, AccessInv, AccessTypeOK
    <3> QED BY <1>1, <1>4, <2>2, <3>1 DEF AccessInv, AccessTypeOK, inviteVars
  <2>4. ReadsInv'
    <3>1. \A o \in Handlers : handler'[o] \in Readings => handler'[o] = handler[o] /\ handler[o].actor \in People
      BY <2>2, FreeIs, ReadingOrWork
    <3>2. \A o \in Handlers : handler'[o].pc \in {"permissions", "store"} => handler'[o] \in Readings
      BY <2>2, ReadingOrWork
    <3> QED BY <1>4, <2>1, <3>1, <3>2 DEF AccessInv, CacheInv, ReadsInv
  <2>5. CacheFollowsBindings'
    <3>1. \A o \in Handlers : handler[o].pc = "invalidate" => handler'[o] = handler[o]
      BY <1>1, <2>2
    <3> QED BY <1>4, <2>1, <3>1 DEF AccessInv, CacheInv, CacheFollowsBindings
  <2>6. \A o \in Handlers : handler'[o] = handler[o] \/ handler'[o].pc \in {"rest", "authorize"}
    BY <2>2, FreeIs
  <2> QED BY <1>1, <1>4, <2>3, <2>4, <2>5, <2>6, OthersKeep DEF CacheInv
<1>5. CASE perms > 0 /\ perms' = perms + 1 /\ CommitChange(h, People) /\ UNCHANGED <<bindings, accounts>>
  <2>1. Alters(h, People)
    BY <1>1, <1>2, <1>5 DEF Alters
  <2>2. \A u \in People : IsAdmin(u) => IsAdmin(u)'
    BY <1>5 DEF IsAdmin
  <2> QED BY <1>1, <2>1, <2>2, ChangeKeeps
<1>6. CASE /\ perms' = 0 /\ bindings' = [u \in People |-> bindings[u] \ {"custom"}]
           /\ CommitChange(h, People) /\ UNCHANGED accounts
  <2>1. Alters(h, People)
    BY <1>1, <1>2, <1>6 DEF Alters
  <2>2. \A u \in People : IsAdmin(u) => IsAdmin(u)'
    BY <1>6 DEF IsAdmin
  <2> QED BY <1>1, <2>1, <2>2, ChangeKeeps
<1> QED BY <1>3, <1>4, <1>5, <1>6 DEF CreateCustomRole, UpdateCustomRole, DeleteCustomRole

\* With two administrators counted and no other revocation since, one is left.
LEMMA RevokeStep ==
  ASSUME AccessInv, NEW h \in Handlers, RevokeRole(h)
  PROVE  AccessInv'
<1>1. /\ handler[h].pc = "commit" /\ handler[h].op = "revoke admin" /\ handler[h].on \in People
      /\ UNCHANGED <<inviteVars, historyVars>>
  BY DEF RevokeRole, Commits, AccessInv, AccessTypeOK, WorkOK
<1>2. PICK t \in People : t = handler[h].on
  BY <1>1
<1>3. CASE Aborts(h)
  BY <1>1, <1>3, AbortKeeps DEF Aborts
<1>4. CASE /\ bindings' = [bindings EXCEPT ![t] = @ \ {"admin"}]
           /\ CommitChange(h, {t}) /\ UNCHANGED <<perms, accounts>>
  <2>1. bindings \in [People -> SUBSET RoleNames] /\ perms \in Nat /\ accounts \subseteq People
    BY DEF AccessInv, AccessTypeOK
  <2>2. \A u \in People : bindings'[u] = IF u = t THEN bindings[u] \ {"admin"} ELSE bindings[u]
    BY <1>4, <2>1
  <2>3. bindings' \in [People -> SUBSET RoleNames]
    BY <1>4, <2>1
  <2>4. perms' = 0 => \A u \in People : "custom" \notin bindings'[u]
    BY <1>4, <2>2 DEF AccessInv, AccessTypeOK
  <2>5. Alters(h, {t})
    BY <1>1, <1>4, <2>1, <2>2, <2>3, <2>4 DEF Alters
  <2>6. invitations' \subseteq Nat /\ invited' \in Nat
    BY <1>1 DEF inviteVars, AccessInv, AccessTypeOK
  <2>7. /\ AccessTypeOK' /\ CacheInv'
        /\ \A o \in Handlers : Revoking(o)' => Revoking(o) /\ o # h
        /\ \A o \in Handlers : \A i \in Nat : Uses(o, i)' => Uses(o, i) /\ o # h
    BY <2>5, <2>6, AltersKeeps
  <2>8. RevokeInv'
    <3>1. SUFFICES ASSUME <<"revoke", 0>> \notin contested
                   PROVE  (\E u \in People : IsAdmin(u)') /\ \A o \in Handlers : ~Revoking(o)'
      BY <1>1 DEF RevokeInv, historyVars
    <3>2. Revoking(h)
      BY <1>1 DEF Revoking
    <3>3. \A o \in Handlers : ~Revoking(o)'
      BY <2>7, <3>1, <3>2 DEF AccessInv, RevokeInv
    <3>4. PICK u \in People, v \in People : u # v /\ IsAdmin(u) /\ IsAdmin(v)
      BY <3>1, <3>2 DEF AccessInv, RevokeInv
    <3> QED BY <2>2, <3>3, <3>4 DEF IsAdmin
  <2>9. InviteInv'
    BY <1>1, <2>7, InviteFrame DEF AccessInv, historyVars, inviteVars
  <2> QED BY <2>7, <2>8, <2>9 DEF AccessInv
<1> QED BY <1>2, <1>3, <1>4 DEF RevokeRole

LEMMA InviteStep ==
  ASSUME AccessInv, NEW h \in Handlers, InviteUser(h)
  PROVE  AccessInv'
<1>1. /\ handler[h].pc = "commit" /\ Goes(h, Free)
      /\ UNCHANGED <<bindings, perms, accounts, cached, historyVars>>
      /\ \/ UNCHANGED inviteVars
         \/ invitations' = invitations \cup {invited} /\ invited' = invited + 1
  BY DEF InviteUser, Commits, bindingVars
<1>2. CASE UNCHANGED inviteVars
  BY <1>1, <1>2, AbortKeeps
<1>3. CASE invitations' = invitations \cup {invited} /\ invited' = invited + 1
  <2>1. Leads(h, Free) /\ Free \in Readings \cup Works
    BY <1>1, FreeIs DEF Leads
  <2>2. invitations' \subseteq Nat /\ invited' \in Nat /\ invited \in Nat
    BY <1>3 DEF AccessInv, AccessTypeOK
  <2>3. /\ AccessTypeOK' /\ CacheInv' /\ handler'[h] = Free
        /\ \A o \in Handlers \ {h} : handler'[o] = handler[o]
    BY <2>1, <2>2, LeadsKeeps
  <2>4. RevokeInv'
    <3>1. \A o \in Handlers : Revoking(o)' => Revoking(o)
      BY <2>3, FreeIs DEF Revoking
    <3> QED BY <1>1, <3>1, RevokeFrame DEF AccessInv, historyVars, IsAdmin
  <2>5. InviteInv'
    <3>1. \A o \in Handlers : \A i \in Nat : Uses(o, i)' => Uses(o, i)
      BY <2>3, FreeIs DEF Uses
    <3>2. ended' = ended /\ contested' = contested
      BY <1>1 DEF historyVars
    <3> QED BY <1>3, <2>2, <3>1, <3>2 DEF AccessInv, AccessTypeOK, InviteInv, Ended
  <2> QED BY <2>3, <2>4, <2>5 DEF AccessInv
<1> QED BY <1>1, <1>2, <1>3

\* An invitation that a request of its own handler ends: nobody else uses it.
LEMMA EndsKeeps ==
  ASSUME AccessInv, NEW h \in Handlers, NEW i \in Nat, Uses(h, i), NEW how \in {"accepted", "revoked"},
         invitations' = invitations \ {i}, ended' = ended \cup {<<how, i>>}, UNCHANGED <<invited, contested>>,
         \A o \in Handlers : \A j \in Nat : Uses(o, j)' => Uses(o, j) /\ o # h
  PROVE  InviteInv'
<1>1. \A j \in Nat : Ended(j)' => Ended(j) \/ j = i
  BY DEF Ended
<1>2. \A j \in Nat \ {i} : \A w : <<w, j>> \in ended' => <<w, j>> \in ended
  OBVIOUS
<1>3. <<"invitation", i>> \notin contested => ~Ended(i) /\ \A o \in Handlers : Uses(o, i) => o = h
  BY DEF AccessInv, InviteInv
<1>4. i < invited
  BY DEF AccessInv, InviteInv
<1>5. \A j \in invitations' : j < invited'
  BY DEF AccessInv, InviteInv
<1>6. \A j \in Nat : Ended(j)' => j < invited'
  BY <1>1, <1>4 DEF AccessInv, InviteInv
<1>7. \A o \in Handlers : \A j \in Nat : Uses(o, j)' => j < invited'
  BY DEF AccessInv, InviteInv
<1>8. ASSUME NEW j \in Nat, <<"invitation", j>> \notin contested
      PROVE  /\ \A g, o \in Handlers : Uses(g, j)' /\ Uses(o, j)' => g = o
             /\ Ended(j)' => j \notin invitations' /\ \A g \in Handlers : ~Uses(g, j)'
             /\ ~(<<"accepted", j>> \in ended' /\ <<"revoked", j>> \in ended')
  <2>1. CASE j = i
    BY <1>3, <1>8, <2>1 DEF Ended
  <2>2. CASE j # i
    BY <1>1, <1>2, <1>8, <2>2 DEF AccessInv, InviteInv
  <2> QED BY <2>1, <2>2
<1> QED BY <1>5, <1>6, <1>7, <1>8 DEF InviteInv

LEMMA RevokeInvitationStep ==
  ASSUME AccessInv, NEW h \in Handlers, RevokeInvitation(h)
  PROVE  AccessInv'
<1>1. /\ handler[h].pc = "commit" /\ handler[h].op = "revoke invitation" /\ handler[h].on \in Nat
      /\ Goes(h, Free) /\ UNCHANGED <<bindings, perms, accounts, cached, invited, contested>>
  BY DEF RevokeInvitation, Commits, bindingVars, AccessInv, AccessTypeOK, WorkOK
<1>2. PICK i \in Nat : i = handler[h].on
  BY <1>1
<1>3. invitations' = invitations \ {i} /\ ended' = ended \cup {<<"revoked", i>>}
  BY <1>2 DEF RevokeInvitation
<1>4. Leads(h, Free) /\ Free \in Readings \cup Works
  BY <1>1, FreeIs DEF Leads
<1>5. invitations' \subseteq Nat /\ invited' \in Nat
  BY <1>1, <1>3 DEF AccessInv, AccessTypeOK
<1>6. /\ AccessTypeOK' /\ CacheInv' /\ handler'[h] = Free
      /\ \A o \in Handlers \ {h} : handler'[o] = handler[o]
  BY <1>4, <1>5, LeadsKeeps
<1>7. RevokeInv'
  <2>1. \A o \in Handlers : Revoking(o)' => Revoking(o)
    BY <1>6, FreeIs DEF Revoking
  <2> QED BY <1>1, <2>1, RevokeFrame DEF AccessInv, IsAdmin
<1>8. InviteInv'
  <2>1. Uses(h, i)
    BY <1>1, <1>2 DEF Uses
  <2>2. \A o \in Handlers : \A j \in Nat : Uses(o, j)' => Uses(o, j) /\ o # h
    BY <1>6, FreeIs DEF Uses
  <2>3. UNCHANGED <<invited, contested>> /\ "revoked" \in {"accepted", "revoked"}
    BY <1>1
  <2> QED BY <1>3, <2>1, <2>2, <2>3, EndsKeeps
<1> QED BY <1>6, <1>7, <1>8 DEF AccessInv

LEMMA FindStep ==
  ASSUME AccessInv, NEW h \in Handlers, FindInvitation(h)
  PROVE  AccessInv'
<1>1. PICK i \in invitations : Goes(h, [pc |-> "accept", on |-> i]) /\ Contest(i)
  BY DEF FindInvitation
<1>2. /\ handler[h] = Free /\ UNCHANGED <<bindings, perms, accounts, cached, invitations, invited, ended>>
      /\ i \in Nat /\ i < invited
  BY DEF FindInvitation, bindingVars, inviteVars, AccessInv, AccessTypeOK, InviteInv
<1>3. PICK r : r = [pc |-> "accept", on |-> i]
  OBVIOUS
<1>4. r \in Works /\ WorkOK(r) /\ r.pc = "accept" /\ r.on = i
  BY <1>2, <1>3 DEF Works, WorkOK
<1>5. Leads(h, r)
  BY <1>1, <1>2, <1>3, <1>4, FreeIs DEF Leads
<1>6. invitations' \subseteq Nat /\ invited' \in Nat
  BY <1>2 DEF AccessInv, AccessTypeOK
<1>7. /\ AccessTypeOK' /\ CacheInv' /\ handler'[h] = r
      /\ \A o \in Handlers \ {h} : handler'[o] = handler[o]
  BY <1>4, <1>5, <1>6, LeadsKeeps
<1>8. contested' = IF \E o \in Handlers : Uses(o, i) THEN contested \cup {<<"invitation", i>>} ELSE contested
  BY <1>1 DEF Contest
<1>9. RevokeInv'
  <2>1. \A o \in Handlers : Revoking(o)' => Revoking(o)
    BY <1>4, <1>7 DEF Revoking
  <2>2. contested \subseteq contested' /\ \A u \in People : IsAdmin(u) => IsAdmin(u)'
    BY <1>2, <1>8 DEF IsAdmin
  <2> QED BY <2>1, <2>2, RevokeFrame DEF AccessInv
<1>10. InviteInv'
  <2>1. \A o \in Handlers : \A j \in Nat : Uses(o, j)' => Uses(o, j) \/ (o = h /\ j = i)
    BY <1>4, <1>7 DEF Uses
  <2> QED BY <1>2, <1>8, <2>1 DEF AccessInv, InviteInv, Ended
<1> QED BY <1>7, <1>9, <1>10 DEF AccessInv

LEMMA AcceptStep ==
  ASSUME AccessInv, NEW h \in Handlers, AcceptInvitation(h)
  PROVE  AccessInv'
<1>1. handler[h].pc = "accept" /\ UNCHANGED <<perms, invited, contested>>
  BY DEF AcceptInvitation
<1>2. handler[h].on \in Nat
  <2>1. PICK q : q = handler[h]
    OBVIOUS
  <2>2. q \in Works /\ q.pc = "accept"
    BY <1>1, <2>1, ReadingOrWork DEF AccessInv, AccessTypeOK
  <2>3. q # Free
    BY <2>2, FreeIs
  <2>4. q \notin [pc : {"authorize"}, access : Accesses] /\ q \notin [pc : {"invalidate"}, us : SUBSET People]
    BY <2>2
  <2>5. q \notin [pc : {"count", "commit"}, op : StaffOps, on : People \cup Nat]
    BY <2>2
  <2>6. q \in [pc : {"accept"}, on : Nat]
    BY <2>2, <2>3, <2>4, <2>5 DEF Works
  <2> QED BY <2>1, <2>6
<1>3. PICK i \in Nat : i = handler[h].on
  BY <1>2
<1>4. CASE Guest \in accounts
  <2>1. Goes(h, Free) /\ UNCHANGED <<bindings, accounts, invitations, cached, ended>>
    BY <1>4 DEF AcceptInvitation
  <2> QED BY <1>1, <2>1, AbortKeeps DEF inviteVars, historyVars
<1>5. CASE Guest \notin accounts
  <2>1. /\ accounts' = accounts \cup {Guest} /\ bindings' = [bindings EXCEPT ![Guest] = @ \cup {"owner"}]
        /\ invitations' = invitations \ {i} /\ ended' = ended \cup {<<"accepted", i>>} /\ CommitChange(h, {Guest})
    BY <1>3, <1>5 DEF AcceptInvitation
  <2>2. /\ bindings \in [People -> SUBSET RoleNames] /\ perms \in Nat /\ accounts \subseteq People /\ Guest \in People
        /\ perms = 0 => \A u \in People : "custom" \notin bindings[u]
    BY DEF AccessInv, AccessTypeOK, People
  <2>3. \A u \in People : bindings'[u] = IF u = Guest THEN bindings[u] \cup {"owner"} ELSE bindings[u]
    BY <2>1, <2>2
  <2>4. bindings' \in [People -> SUBSET RoleNames]
    BY <2>1, <2>2 DEF RoleNames
  <2>5. Alters(h, {Guest})
    BY <1>1, <2>1, <2>2, <2>3, <2>4 DEF Alters
  <2>6. invitations' \subseteq Nat /\ invited' \in Nat
    BY <1>1, <2>1 DEF AccessInv, AccessTypeOK
  <2>7. /\ AccessTypeOK' /\ CacheInv'
        /\ \A o \in Handlers : Revoking(o)' => Revoking(o) /\ o # h
        /\ \A o \in Handlers : \A j \in Nat : Uses(o, j)' => Uses(o, j) /\ o # h
    BY <2>2, <2>5, <2>6, AltersKeeps
  <2>8. RevokeInv'
    <3>1. \A u \in People : IsAdmin(u) => IsAdmin(u)'
      BY <2>3 DEF IsAdmin
    <3> QED BY <1>1, <2>7, <3>1, RevokeFrame DEF AccessInv
  <2>9. InviteInv'
    <3>1. Uses(h, i) /\ "accepted" \in {"accepted", "revoked"}
      BY <1>1, <1>3 DEF Uses
    <3>2. /\ invitations' = invitations \ {i} /\ ended' = ended \cup {<<"accepted", i>>}
          /\ UNCHANGED <<invited, contested>>
      BY <1>1, <2>1
    <3> QED BY <2>7, <3>1, <3>2, EndsKeeps
  <2> QED BY <2>7, <2>8, <2>9 DEF AccessInv
<1> QED BY <1>4, <1>5

LEMMA AccessStutter ==
  ASSUME AccessInv, UNCHANGED <<bindings, perms, accounts, cached, handler, invited, historyVars>>,
         invitations' \subseteq invitations
  PROVE  AccessInv'
<1>1. AccessTypeOK'
  BY DEF AccessInv, AccessTypeOK, WorkOK
<1>2. CacheInv'
  BY DEF AccessInv, CacheInv, ReadsInv, CacheFollowsBindings
<1>3. RevokeInv'
  BY RevokeFrame DEF AccessInv, Revoking, IsAdmin, historyVars
<1>4. InviteInv'
  BY InviteFrame DEF AccessInv, Uses, historyVars
<1> QED BY <1>1, <1>2, <1>3, <1>4 DEF AccessInv

LEMMA AccessStep ==
  ASSUME AccessInv, [AccessNext]_accessVars
  PROVE  AccessInv'
<1>1. CASE \E h \in Handlers : HandlerStep(h)
  <2>1. PICK h \in Handlers : HandlerStep(h)
    BY <1>1
  <2>2. CASE \E u \in accounts : Resolve(h, u)
    BY <2>2, ResolveStep
  <2>3. CASE ListBindings(h) \/ PermissionsForRoles(h)
    BY <2>3, ListStep, PermissionsStep
  <2>4. CASE StoreAccess(h) \/ Authorize(h)
    BY <2>4, StoreStep, AuthorizeStep
  <2>5. CASE AssignRole(h) \/ AssignCustomRole(h) \/ CreateShop(h) \/ CreateUserDirect(h)
    BY <2>5, GrantStep
  <2>6. CASE CountPlatformAdmins(h) \/ RevokeRole(h)
    BY <2>6, CountStep, RevokeStep, AccessAssumption
  <2>7. CASE CreateCustomRole(h) \/ UpdateCustomRole(h) \/ DeleteCustomRole(h)
    BY <2>7, CustomRoleStep
  <2>8. CASE InviteUser(h) \/ RevokeInvitation(h)
    BY <2>8, InviteStep, RevokeInvitationStep
  <2>9. CASE Invalidate(h)
    BY <2>9, InvalidateStep
  <2>10. CASE FindInvitation(h) \/ AcceptInvitation(h)
    BY <2>10, FindStep, AcceptStep
  <2> QED BY <2>1, <2>2, <2>3, <2>4, <2>5, <2>6, <2>7, <2>8, <2>9, <2>10 DEF HandlerStep
<1>2. CASE \E n \in AccessPods : AccessCrash(n) \/ \E u \in People : ExpireAccess(n, u)
  BY <1>2, AccessCrashStep, ExpireAccessStep
<1>3. CASE \E i \in invitations : ExpireInvitation(i)
  <2>1. UNCHANGED <<bindings, perms, accounts, cached, handler, invited, historyVars>> /\ invitations' \subseteq invitations
    BY <1>3 DEF ExpireInvitation, bindingVars
  <2> QED BY <2>1, AccessStutter
<1>4. CASE UNCHANGED accessVars
  <2>1. UNCHANGED <<bindings, perms, accounts, cached, handler, invited, historyVars>> /\ invitations' \subseteq invitations
    BY <1>4 DEF accessVars, historyVars
  <2> QED BY <2>1, AccessStutter
<1> QED BY <1>1, <1>2, <1>3, <1>4 DEF AccessNext

LEMMA AccessBegins ==
  ASSUME AccessInit
  PROVE  AccessInv
<1>1. FirstAdmin \in People /\ Staff \subseteq People
  BY AccessAssumption DEF People
<1>2. PICK others \in {{"custom"}, {"admin", "custom"}} :
        bindings = [u \in People |-> IF u = FirstAdmin THEN {"admin"} ELSE IF u \in Staff THEN others ELSE {}]
  BY DEF AccessInit
<1>3. /\ perms = 1 /\ invitations \in {{}, {0}} /\ invited = 1 /\ accounts = Staff
      /\ cached = [q \in AccessPods \X People |-> NotCached]
      /\ handler = [h \in Handlers |-> Free] /\ ended = {} /\ contested = {}
  BY DEF AccessInit
<1>4. bindings \in [People -> SUBSET RoleNames] /\ "admin" \in bindings[FirstAdmin]
  BY <1>1, <1>2 DEF RoleNames
<1>5. \A h \in Handlers : handler[h] = Free
  BY <1>3
<1>6. AccessTypeOK
  BY <1>1, <1>3, <1>4, <1>5, FreeIs DEF AccessTypeOK
<1>7. CacheInv
  BY <1>3, <1>5, FreeIs DEF CacheInv, ReadsInv, CacheFollowsBindings
<1>8. RevokeInv
  BY <1>1, <1>4, <1>5, FreeIs DEF RevokeInv, Revoking, IsAdmin
<1>9. InviteInv
  <2>1. \A i \in invitations : i < invited
    BY <1>3
  <2>2. \A i \in Nat : ~Ended(i)
    BY <1>3 DEF Ended
  <2>3. \A h \in Handlers : \A i \in Nat : ~Uses(h, i)
    BY <1>5, FreeIs DEF Uses
  <2> QED BY <2>1, <2>2, <2>3 DEF InviteInv, Ended
<1> QED BY <1>6, <1>7, <1>8, <1>9 DEF AccessInv

\* access_service.go, admin_service.go: a cached access follows the bindings but for the
\* lag the code allows, two revocations that do not overlap leave an administrator, and
\* an invitation that nobody contests ends once.
THEOREM AccessIsSafe == AccessSpec => []AccessSafe
<1>1. AccessInit => AccessInv
  BY AccessBegins
<1>2. AccessInv /\ [AccessNext]_accessVars => AccessInv'
  BY AccessStep
<1>3. AccessInv => AccessSafe
  <2> SUFFICES ASSUME AccessInv
               PROVE  CacheFollowsBindings /\ AdminRemains /\ InvitationEndsOnce
    BY DEF AccessSafe, GrantsSafe
  <2>1. CacheFollowsBindings
    BY DEF AccessInv, CacheInv
  <2>2. AdminRemains
    BY DEF AccessInv, RevokeInv, AdminRemains, IsAdmin
  <2>3. InvitationEndsOnce
    BY DEF AccessInv, AccessTypeOK, InviteInv, InvitationEndsOnce
  <2> QED BY <2>1, <2>2, <2>3
<1> QED BY <1>1, <1>2, <1>3, PTL DEF AccessSpec

-----------------------------------------------------------------------------
\* Settings.  Whoever is past the lock of its process holds it; so what it has read is the
\* row as it is, or other processes have saved since.
Setting == SettingValues \cup {Unset}
Config == [EditedFields -> Setting]
Partial == [f : EditedFields, v : Setting]
SettingsTyped ==
    /\ overrides \in Config /\ saved \in Config
    /\ runningConfig \in [SettingsPods -> Config]
    /\ settingsMutex \in [SettingsPods -> SettingsAdmins \cup {Unheld}]
    /\ settingsUpdate \in [SettingsAdmins ->
         {Idle} \cup [pc : {"lock", "read"}, pod : SettingsPods, partial : Partial]
                \cup [pc : {"save"}, pod : SettingsPods, partial : Partial, existing : Config, at : Nat]
                \cup [pc : {"apply"}, pod : SettingsPods, merged : Config, at : Nat]]
    /\ saves \in Seq(SettingsPods)
    /\ seenSave \in [SettingsPods -> Nat]
    /\ savesCrossed \in BOOLEAN

ValidConfig(c) == \A f \in EditedFields : Valid(f, c[f])
\* What a request has in hand.
HoldsLock(a) ==
    LET r == settingsUpdate[a]
    IN r.pc \in {"read", "save", "apply"} => settingsMutex[r.pod] = a
Decoded(a) ==
    LET r == settingsUpdate[a]
    IN r.pc \in {"lock", "read", "save"} => Valid(r.partial.f, r.partial.v)
ReadRow(a) ==
    LET r == settingsUpdate[a]
    IN r.pc = "save" =>
         /\ r.at <= Len(saves)
         /\ IF r.at = Len(saves) THEN r.existing = overrides
            ELSE \A i \in r.at + 1 .. Len(saves) : saves[i] # r.pod
         /\ ValidConfig(r.existing)
SavedRow(a) ==
    LET r == settingsUpdate[a]
    IN r.pc = "apply" =>
         /\ r.at <= Len(saves)
         /\ r.at = Len(saves) => r.merged = overrides
RunsWith(p) ==
    /\ seenSave[p] <= Len(saves)
    /\ saves # <<>> /\ seenSave[p] = Len(saves) =>
         \A f \in EditedFields : overrides[f] # Unset => runningConfig[p][f] = overrides[f]
SettingsInv ==
    /\ SettingsTyped
    /\ \A a \in SettingsAdmins : HoldsLock(a) /\ Decoded(a) /\ ReadRow(a) /\ SavedRow(a)
    /\ \A p \in SettingsPods : RunsWith(p)
    /\ ~savesCrossed => overrides = saved
    /\ ValidConfig(overrides)

LEMMA MergedIsConfig ==
  ASSUME NEW c \in Config, NEW m \in Partial
  PROVE  /\ MergeUpdates(c, m) \in Config
         /\ ValidConfig(c) /\ Valid(m.f, m.v) => ValidConfig(MergeUpdates(c, m))
<1>1. m.f \in EditedFields /\ m.v \in Setting
  BY DEF Partial
<1>2. MergePtr(c[m.f], m.v) \in Setting
  BY <1>1 DEF MergePtr, Config
<1>3. MergeUpdates(c, m) \in Config
  BY <1>1, <1>2 DEF MergeUpdates, Config
<1>4. ASSUME ValidConfig(c), Valid(m.f, m.v), NEW f \in EditedFields
      PROVE  Valid(f, MergeUpdates(c, m)[f])
  <2>1. CASE f # m.f
    <3>1. MergeUpdates(c, m)[f] = c[f]
      BY <2>1, <1>1 DEF MergeUpdates, Config
    <3> QED BY <3>1, <1>4 DEF ValidConfig
  <2>2. CASE f = m.f
    <3>1. MergeUpdates(c, m)[f] \in {m.v, c[f]}
      BY <2>2, <1>1 DEF MergeUpdates, Config, MergePtr
    <3> QED BY <3>1, <2>2, <1>4 DEF ValidConfig
  <2> QED BY <2>1, <2>2
<1> QED BY <1>3, <1>4 DEF ValidConfig

LEMMA AppliedIsConfig ==
  ASSUME NEW c \in Config, NEW u \in Config
  PROVE  /\ ApplySettingsUpdate(c, u) \in Config
         /\ \A f \in EditedFields : u[f] # Unset => ApplySettingsUpdate(c, u)[f] = u[f]
<1>1. ASSUME NEW f \in EditedFields PROVE MergePtr(c[f], u[f]) \in Setting
  BY DEF MergePtr, Config
<1>2. ApplySettingsUpdate(c, u) \in Config
  BY <1>1 DEF ApplySettingsUpdate, Config
<1>3. ASSUME NEW f \in EditedFields, u[f] # Unset PROVE ApplySettingsUpdate(c, u)[f] = u[f]
  BY <1>3 DEF ApplySettingsUpdate, MergePtr
<1> QED BY <1>2, <1>3

LEMMA SettingsStart == SettingsInit => SettingsInv
<1> SUFFICES ASSUME SettingsInit PROVE SettingsInv
  OBVIOUS
<1>1. Unchanged \in Config /\ \A f \in EditedFields : Unchanged[f] = Unset
  BY DEF Unchanged, Config, Setting
<1>2. SettingsTyped
  <2>1. overrides \in Config /\ saved \in Config /\ runningConfig \in [SettingsPods -> Config]
    BY <1>1 DEF SettingsInit
  <2>2. /\ settingsMutex \in [SettingsPods -> SettingsAdmins \cup {Unheld}]
        /\ seenSave \in [SettingsPods -> Nat] /\ savesCrossed \in BOOLEAN
    BY DEF SettingsInit
  <2>3. saves \in Seq(SettingsPods)
    BY DEF SettingsInit
  <2>4. settingsUpdate = [a \in SettingsAdmins |-> Idle]
    BY DEF SettingsInit
  <2> QED BY <2>1, <2>2, <2>3, <2>4 DEF SettingsTyped
<1>3. \A a \in SettingsAdmins : settingsUpdate[a] = Idle
  BY DEF SettingsInit
<1>4. \A a \in SettingsAdmins : HoldsLock(a) /\ Decoded(a) /\ ReadRow(a) /\ SavedRow(a)
  BY <1>3 DEF HoldsLock, Decoded, ReadRow, SavedRow, Idle
<1>5. \A p \in SettingsPods : RunsWith(p)
  <2>1. saves = <<>> /\ Len(saves) = 0 /\ \A p \in SettingsPods : seenSave[p] = 0
    BY DEF SettingsInit
  <2>2. ASSUME NEW p \in SettingsPods PROVE seenSave[p] <= Len(saves)
    <3>1. seenSave[p] = 0 /\ Len(saves) = 0
      BY <2>1
    <3> QED BY <3>1
  <2> QED BY <2>1, <2>2, Zenon DEF RunsWith
<1>6. ValidConfig(overrides)
  BY <1>1 DEF SettingsInit, ValidConfig, Valid
<1> QED BY <1>2, <1>4, <1>5, <1>6 DEF SettingsInit, SettingsInv

\* What a step that saves nothing leaves to a request that it does not move.
Kept(b) ==
    LET r == settingsUpdate[b]
    IN /\ settingsUpdate'[b] = r
       /\ r # Idle /\ settingsMutex[r.pod] = b => settingsMutex'[r.pod] = b

LEMMA HeldKept ==
  ASSUME SettingsInv, NEW b \in SettingsAdmins, Kept(b)
  PROVE  HoldsLock(b)' /\ Decoded(b)'
<1>1. settingsUpdate'[b] = settingsUpdate[b] /\ HoldsLock(b) /\ Decoded(b)
  BY DEF Kept, SettingsInv
<1>2. HoldsLock(b)'
  BY <1>1 DEF HoldsLock, Kept, Idle
<1>3. Decoded(b)'
  BY <1>1 DEF Decoded
<1> QED BY <1>2, <1>3

LEMMA OthersKept ==
  ASSUME SettingsInv, NEW b \in SettingsAdmins, Kept(b), UNCHANGED <<overrides, saves>>
  PROVE  HoldsLock(b)' /\ Decoded(b)' /\ ReadRow(b)' /\ SavedRow(b)'
<1>1. settingsUpdate'[b] = settingsUpdate[b] /\ ReadRow(b) /\ SavedRow(b)
  BY DEF Kept, SettingsInv
<1>2. ReadRow(b)'
  BY <1>1 DEF ReadRow, ValidConfig
<1>3. SavedRow(b)'
  BY <1>1 DEF SavedRow
<1> QED BY HeldKept, <1>2, <1>3

\* An idle request has nothing in hand.
LEMMA IdleHolds ==
  ASSUME NEW b \in SettingsAdmins, settingsUpdate'[b] = Idle
  PROVE  HoldsLock(b)' /\ Decoded(b)' /\ ReadRow(b)' /\ SavedRow(b)'
BY DEF HoldsLock, Decoded, ReadRow, SavedRow, Idle

\* A step that touches neither the row nor what a process runs with keeps the rest.
LEMMA RowKept ==
  ASSUME SettingsInv, SettingsTyped',
         UNCHANGED <<overrides, runningConfig, saved, saves, seenSave, savesCrossed>>,
         \A a \in SettingsAdmins : HoldsLock(a)' /\ Decoded(a)' /\ ReadRow(a)' /\ SavedRow(a)'
  PROVE  SettingsInv'
<1>1. \A p \in SettingsPods : RunsWith(p)'
  BY DEF RunsWith, SettingsInv
<1>2. ValidConfig(overrides)'
  BY DEF ValidConfig, SettingsInv
<1> QED BY <1>1, <1>2 DEF SettingsInv

LEMMA UpdateSettingsKeeps ==
  ASSUME SettingsInv, NEW a \in SettingsAdmins, NEW p \in SettingsPods, NEW m \in Partials,
         UpdateSettings(a, p, m)
  PROVE  SettingsInv'
<1>1. m \in Partial
  BY DEF Partials, Partial, Setting
<1>2. SettingsTyped
  BY DEF SettingsInv
<1>3. CASE Valid(m.f, m.v)
  <2>1. settingsUpdate' = [settingsUpdate EXCEPT ![a] = [pc |-> "lock", pod |-> p, partial |-> m]]
    BY <1>3 DEF UpdateSettings, Go
  <2>2. SettingsTyped'
    BY <1>1, <1>2, <2>1 DEF UpdateSettings, SettingsTyped
  <2>3. settingsUpdate'[a] = [pc |-> "lock", pod |-> p, partial |-> m]
    BY <1>2, <2>1 DEF SettingsTyped
  <2>4. HoldsLock(a)' /\ Decoded(a)' /\ ReadRow(a)' /\ SavedRow(a)'
    BY <2>3, <1>3 DEF HoldsLock, Decoded, ReadRow, SavedRow
  <2>5. ASSUME NEW b \in SettingsAdmins, b # a
        PROVE  HoldsLock(b)' /\ Decoded(b)' /\ ReadRow(b)' /\ SavedRow(b)'
    <3>1. Kept(b)
      BY <1>2, <2>1, <2>5 DEF Kept, SettingsTyped, UpdateSettings
    <3> QED BY <3>1, OthersKept DEF UpdateSettings
  <2> QED BY <2>2, <2>4, <2>5, RowKept DEF UpdateSettings
<1>4. CASE ~Valid(m.f, m.v)
  <2>1. UNCHANGED <<settingsUpdate, settingsMutex, overrides, runningConfig, saved, saves, seenSave,
                    savesCrossed>>
    BY <1>4 DEF UpdateSettings
  <2>2. SettingsTyped'
    BY <1>2, <2>1 DEF SettingsTyped
  <2>3. ASSUME NEW b \in SettingsAdmins
        PROVE  HoldsLock(b)' /\ Decoded(b)' /\ ReadRow(b)' /\ SavedRow(b)'
    <3>1. Kept(b)
      BY <2>1 DEF Kept
    <3> QED BY <3>1, <2>1, OthersKept
  <2> QED BY <2>1, <2>2, <2>3, RowKept
<1> QED BY <1>3, <1>4

LEMMA LockKeeps ==
  ASSUME SettingsInv, Unheld \notin SettingsAdmins, NEW a \in SettingsAdmins, Lock(a)
  PROVE  SettingsInv'
<1>1. SettingsTyped /\ Decoded(a)
  BY DEF SettingsInv
<1>2. PICK r : r = settingsUpdate[a]
  OBVIOUS
<1>3. r \in [pc : {"lock", "read"}, pod : SettingsPods, partial : Partial] /\ r.pc = "lock"
  BY <1>1, <1>2 DEF SettingsTyped, Lock, Idle
<1>4. PICK n : n = [r EXCEPT !.pc = "read"]
  OBVIOUS
<1>5. /\ n \in [pc : {"lock", "read"}, pod : SettingsPods, partial : Partial]
      /\ n.pc = "read" /\ n.pod = r.pod /\ n.partial = r.partial
  BY <1>3, <1>4
<1>6. /\ settingsUpdate' = [settingsUpdate EXCEPT ![a] = n]
      /\ settingsMutex' = [settingsMutex EXCEPT ![r.pod] = a] /\ settingsMutex[r.pod] = Unheld
  BY <1>2, <1>4 DEF Lock, Go
<1>7. SettingsTyped'
  BY <1>1, <1>3, <1>5, <1>6 DEF Lock, SettingsTyped
<1>8. settingsUpdate'[a] = n /\ settingsMutex'[n.pod] = a
  BY <1>1, <1>3, <1>5, <1>6 DEF SettingsTyped
<1>9. Valid(n.partial.f, n.partial.v)
  BY <1>1, <1>2, <1>3, <1>5 DEF Decoded
<1>10. HoldsLock(a)' /\ Decoded(a)' /\ ReadRow(a)' /\ SavedRow(a)'
  BY <1>5, <1>8, <1>9 DEF HoldsLock, Decoded, ReadRow, SavedRow
<1>11. ASSUME NEW b \in SettingsAdmins, b # a
       PROVE  HoldsLock(b)' /\ Decoded(b)' /\ ReadRow(b)' /\ SavedRow(b)'
  <2>1. Kept(b)
    BY <1>1, <1>3, <1>6, <1>11 DEF Kept, SettingsTyped
  <2> QED BY <2>1, OthersKept DEF Lock
<1> QED BY <1>7, <1>10, <1>11, RowKept DEF Lock

\* A request that ends gives back the lock of its process.
LEMMA RequestEnds ==
  ASSUME SettingsInv, NEW a \in SettingsAdmins, settingsUpdate[a].pc \in {"read", "save", "apply"},
         Go(a, Idle), Release(settingsUpdate[a].pod), UNCHANGED <<overrides, saves>>
  PROVE  /\ settingsUpdate' \in [SettingsAdmins -> {Idle} \cup {settingsUpdate[b] : b \in SettingsAdmins}]
         /\ settingsMutex' \in [SettingsPods -> SettingsAdmins \cup {Unheld}]
         /\ \A b \in SettingsAdmins : HoldsLock(b)' /\ Decoded(b)' /\ ReadRow(b)' /\ SavedRow(b)'
<1>1. SettingsTyped /\ HoldsLock(a)
  BY DEF SettingsInv
<1>2. PICK q : q = settingsUpdate[a].pod
  OBVIOUS
<1>3. settingsMutex' = [settingsMutex EXCEPT ![q] = Unheld] /\ settingsMutex[q] = a
  BY <1>1, <1>2 DEF Release, HoldsLock
<1>4. settingsUpdate' = [settingsUpdate EXCEPT ![a] = Idle]
  BY DEF Go
<1>5. settingsUpdate' \in [SettingsAdmins -> {Idle} \cup {settingsUpdate[b] : b \in SettingsAdmins}]
  BY <1>1, <1>4 DEF SettingsTyped
<1>6. settingsMutex' \in [SettingsPods -> SettingsAdmins \cup {Unheld}]
  BY <1>1, <1>3 DEF SettingsTyped
<1>7. ASSUME NEW b \in SettingsAdmins
      PROVE  HoldsLock(b)' /\ Decoded(b)' /\ ReadRow(b)' /\ SavedRow(b)'
  <2>1. CASE b = a
    BY <2>1, <1>1, <1>4, IdleHolds DEF SettingsTyped
  <2>2. CASE b # a
    <3>1. settingsUpdate'[b] = settingsUpdate[b]
      BY <1>1, <1>4, <2>2 DEF SettingsTyped
    <3>2. PICK s : s = settingsUpdate[b]
      OBVIOUS
    <3>3. s # Idle => s.pod \in SettingsPods
      BY <1>1, <3>2 DEF SettingsTyped
    <3>4. s # Idle /\ settingsMutex[s.pod] = b => settingsMutex'[s.pod] = b
      BY <1>1, <1>3, <2>2, <3>3 DEF SettingsTyped
    <3>5. Kept(b)
      BY <3>1, <3>2, <3>4 DEF Kept
    <3> QED BY <3>5, OthersKept
  <2> QED BY <2>1, <2>2
<1> QED BY <1>5, <1>6, <1>7

LEMMA GetOverridesKeeps ==
  ASSUME SettingsInv, NEW a \in SettingsAdmins, GetOverrides(a)
  PROVE  SettingsInv'
<1>1. SettingsTyped /\ Decoded(a) /\ HoldsLock(a)
  BY DEF SettingsInv
<1>2. PICK r : r = settingsUpdate[a]
  OBVIOUS
<1>3. r \in [pc : {"lock", "read"}, pod : SettingsPods, partial : Partial] /\ r.pc = "read"
  BY <1>1, <1>2 DEF SettingsTyped, GetOverrides, Idle
<1>4. UNCHANGED <<overrides, runningConfig, saved, saves, seenSave, savesCrossed>>
  BY DEF GetOverrides
<1>5. CASE UNCHANGED settingsMutex
           /\ Go(a, [pc |-> "save", pod |-> r.pod, partial |-> r.partial,
                     existing |-> overrides, at |-> Len(saves)])
  <2>1. PICK n : n = [pc |-> "save", pod |-> r.pod, partial |-> r.partial,
                      existing |-> overrides, at |-> Len(saves)]
    OBVIOUS
  <2>2. Len(saves) \in Nat
    BY <1>1 DEF SettingsTyped
  <2>3. n \in [pc : {"save"}, pod : SettingsPods, partial : Partial, existing : Config, at : Nat]
    BY <1>1, <1>3, <2>1, <2>2 DEF SettingsTyped
  <2>4. settingsUpdate' = [settingsUpdate EXCEPT ![a] = n]
    BY <1>5, <2>1 DEF Go
  <2>5. SettingsTyped'
    BY <1>1, <1>4, <1>5, <2>3, <2>4 DEF SettingsTyped
  <2>6. settingsUpdate'[a] = n
    BY <1>1, <2>4 DEF SettingsTyped
  <2>7. HoldsLock(a)'
    BY <1>1, <1>2, <1>3, <1>5, <2>1, <2>6 DEF HoldsLock
  <2>8. Decoded(a)' /\ SavedRow(a)'
    BY <1>1, <1>2, <1>3, <2>1, <2>6 DEF Decoded, SavedRow
  <2>9. ReadRow(a)'
    <3>1. ValidConfig(overrides)
      BY DEF SettingsInv
    <3>2. Len(saves') = Len(saves) /\ overrides' = overrides
      BY <1>4
    <3> QED BY <3>1, <3>2, <2>1, <2>2, <2>6 DEF ReadRow
  <2>10. ASSUME NEW b \in SettingsAdmins, b # a
         PROVE  HoldsLock(b)' /\ Decoded(b)' /\ ReadRow(b)' /\ SavedRow(b)'
    <3>1. Kept(b)
      BY <1>1, <1>5, <2>4, <2>10 DEF Kept, SettingsTyped
    <3> QED BY <3>1, <1>4, OthersKept
  <2> QED BY <1>4, <2>5, <2>7, <2>8, <2>9, <2>10, RowKept
<1>6. CASE Go(a, Idle) /\ Release(r.pod)
  <2>1. SettingsTyped'
    BY <1>1, <1>2, <1>3, <1>4, <1>6, RequestEnds DEF SettingsTyped
  <2> QED BY <1>2, <1>3, <1>4, <1>6, <2>1, RequestEnds, RowKept
<1> QED BY <1>2, <1>5, <1>6 DEF GetOverrides

\* Between the read and the save of one request the others of its process wait.
LEMMA SaveOverridesKeeps ==
  ASSUME SettingsInv, NEW a \in SettingsAdmins, SaveOverrides(a)
  PROVE  SettingsInv'
<1>1. SettingsTyped /\ Decoded(a) /\ HoldsLock(a) /\ ReadRow(a)
  BY DEF SettingsInv
<1>2. PICK r : r = settingsUpdate[a]
  OBVIOUS
<1>3. /\ r \in [pc : {"save"}, pod : SettingsPods, partial : Partial, existing : Config, at : Nat]
      /\ r.pc = "save"
  <2>1. r.pc = "save"
    BY <1>2 DEF SaveOverrides
  <2> QED BY <1>1, <1>2, <2>1 DEF SettingsTyped, Idle
<1>4. UNCHANGED <<runningConfig, seenSave>>
  BY DEF SaveOverrides
<1>5. CASE Go(a, Idle) /\ Release(r.pod) /\ UNCHANGED <<overrides, saved, saves, savesCrossed>>
  <2>1. SettingsTyped'
    BY <1>1, <1>2, <1>3, <1>4, <1>5, RequestEnds DEF SettingsTyped
  <2> QED BY <1>2, <1>3, <1>4, <1>5, <2>1, RequestEnds, RowKept
<1>6. ASSUME /\ overrides' = MergeUpdates(r.existing, r.partial)
             /\ saved' = MergeUpdates(saved, r.partial)
             /\ saves' = Append(saves, r.pod)
             /\ savesCrossed' = (savesCrossed \/ \E i \in r.at + 1 .. Len(saves) : saves[i] # r.pod)
             /\ Go(a, [pc |-> "apply", pod |-> r.pod,
                       merged |-> MergeUpdates(r.existing, r.partial), at |-> Len(saves')])
             /\ UNCHANGED settingsMutex
      PROVE  SettingsInv'
  <2>1. PICK merged : merged = MergeUpdates(r.existing, r.partial)
    OBVIOUS
  <2>2. PICK k \in Nat : k = Len(saves)
    BY <1>1 DEF SettingsTyped
  <2>3. /\ saves' \in Seq(SettingsPods) /\ Len(saves') = k + 1
        /\ \A i \in 1 .. k : saves'[i] = saves[i]
        /\ saves'[k + 1] = r.pod
    BY <1>1, <1>3, <1>6, <2>2 DEF SettingsTyped
  <2>4. merged \in Config /\ ValidConfig(merged) /\ saved' \in Config
    <3>1. ValidConfig(r.existing) /\ Valid(r.partial.f, r.partial.v)
      BY <1>1, <1>2, <1>3 DEF ReadRow, Decoded
    <3> QED BY <3>1, <1>1, <1>3, <1>6, <2>1, MergedIsConfig DEF SettingsTyped
  <2>5. PICK n : n = [pc |-> "apply", pod |-> r.pod, merged |-> merged, at |-> k + 1]
    OBVIOUS
  <2>6. n \in [pc : {"apply"}, pod : SettingsPods, merged : Config, at : Nat]
    BY <1>3, <2>2, <2>4, <2>5
  <2>7. settingsUpdate' = [settingsUpdate EXCEPT ![a] = n]
    BY <1>6, <2>1, <2>3, <2>5 DEF Go
  <2>8. SettingsTyped'
    <3>1. savesCrossed' \in BOOLEAN
      BY <1>1, <1>6 DEF SettingsTyped
    <3>2. overrides' \in Config
      BY <1>6, <2>1, <2>4
    <3>3. /\ settingsUpdate' \in [SettingsAdmins ->
               {Idle} \cup [pc : {"lock", "read"}, pod : SettingsPods, partial : Partial]
                 \cup [pc : {"save"}, pod : SettingsPods, partial : Partial, existing : Config, at : Nat]
                 \cup [pc : {"apply"}, pod : SettingsPods, merged : Config, at : Nat]]
      BY <1>1, <2>6, <2>7 DEF SettingsTyped
    <3> QED BY <1>1, <1>4, <1>6, <2>3, <2>4, <3>1, <3>2, <3>3 DEF SettingsTyped
  <2>9. settingsUpdate'[a] = n
    BY <1>1, <2>7 DEF SettingsTyped
  <2>10. HoldsLock(a)' /\ Decoded(a)' /\ ReadRow(a)' /\ SavedRow(a)'
    <3>1. settingsMutex'[r.pod] = a
      BY <1>1, <1>2, <1>3, <1>6 DEF HoldsLock
    <3>2. HoldsLock(a)'
      BY <3>1, <2>5, <2>9 DEF HoldsLock
    <3>3. Decoded(a)' /\ ReadRow(a)'
      BY <2>5, <2>9 DEF Decoded, ReadRow
    <3>4. SavedRow(a)'
      BY <1>6, <2>1, <2>2, <2>3, <2>5, <2>9 DEF SavedRow
    <3> QED BY <3>2, <3>3, <3>4
  <2>11. ASSUME NEW b \in SettingsAdmins, b # a
         PROVE  HoldsLock(b)' /\ Decoded(b)' /\ ReadRow(b)' /\ SavedRow(b)'
    <3>1. settingsUpdate'[b] = settingsUpdate[b] /\ Kept(b)
      BY <1>1, <1>6, <2>7, <2>11 DEF Kept, SettingsTyped
    <3>2. HoldsLock(b)' /\ Decoded(b)'
      BY <3>1, HeldKept
    <3>3. PICK s : s = settingsUpdate[b]
      OBVIOUS
    <3>4. ReadRow(b) /\ SavedRow(b) /\ HoldsLock(b)
      BY DEF SettingsInv
    <3>5. ReadRow(b)'
      <4>1. ASSUME s.pc = "save"
            PROVE  /\ s.at \in Nat /\ s.at <= k /\ ValidConfig(s.existing) /\ s.pod # r.pod
                   /\ \A i \in s.at + 1 .. k : saves[i] # s.pod
        <5>1. s \in [pc : {"save"}, pod : SettingsPods, partial : Partial, existing : Config, at : Nat]
          BY <1>1, <3>3, <4>1 DEF SettingsTyped, Idle
        <5>2. s.pod # r.pod
          BY <1>1, <1>2, <1>3, <2>11, <3>3, <3>4, <4>1 DEF HoldsLock
        <5>3. s.at <= k /\ ValidConfig(s.existing)
          BY <2>2, <3>3, <3>4, <4>1 DEF ReadRow
        <5>4. CASE s.at = k
          BY <5>1, <5>2, <5>3, <5>4
        <5>5. CASE s.at # k
          BY <5>1, <5>2, <5>3, <5>5, <2>2, <3>3, <3>4, <4>1 DEF ReadRow
        <5> QED BY <5>4, <5>5
      <4>2. ASSUME s.pc = "save"
            PROVE  /\ s.at <= k + 1 /\ s.at # k + 1
                   /\ \A i \in s.at + 1 .. k + 1 : saves'[i] # s.pod
        <5>1. s.at \in Nat /\ s.at <= k
          BY <4>1, <4>2
        <5>2. ASSUME NEW i \in s.at + 1 .. k + 1 PROVE saves'[i] # s.pod
          <6>1. CASE i = k + 1
            BY <6>1, <2>3, <4>1, <4>2
          <6>2. CASE i # k + 1
            <7>1. i \in 1 .. k /\ i \in s.at + 1 .. k
              BY <5>1, <6>2
            <7> QED BY <7>1, <2>3, <4>1, <4>2
          <6> QED BY <6>1, <6>2
        <5> QED BY <5>1, <5>2
      <4>3. settingsUpdate'[b] = s /\ Len(saves') = k + 1
        BY <2>3, <3>1, <3>3
      <4>4. s.pc = "save" => ValidConfig(s.existing)
        BY <4>1
      <4> QED BY <4>2, <4>3, <4>4 DEF ReadRow, ValidConfig
    <3>6. SavedRow(b)'
      <4>1. ASSUME s.pc = "apply" PROVE s.at \in Nat /\ s.at <= k
        <5>1. s \in [pc : {"apply"}, pod : SettingsPods, merged : Config, at : Nat]
          BY <1>1, <3>3, <4>1 DEF SettingsTyped, Idle
        <5> QED BY <5>1, <2>2, <3>3, <3>4, <4>1 DEF SavedRow
      <4> QED BY <2>3, <3>1, <3>3, <4>1 DEF SavedRow
    <3> QED BY <3>2, <3>5, <3>6
  <2>12. ASSUME NEW p \in SettingsPods PROVE RunsWith(p)'
    <3>1. seenSave'[p] \in Nat /\ seenSave'[p] <= k
      BY <1>1, <1>4, <2>2 DEF SettingsInv, SettingsTyped, RunsWith
    <3> QED BY <3>1, <2>3 DEF RunsWith
  <2>13. ~savesCrossed' => overrides' = saved'
    <3>1. SUFFICES ASSUME ~savesCrossed, \A i \in r.at + 1 .. k : saves[i] = r.pod
                   PROVE  overrides' = saved'
      BY <1>6, <2>2
    <3>2. r.at \in Nat /\ r.at <= k
      BY <1>1, <1>2, <1>3, <2>2 DEF ReadRow
    <3>3. CASE r.at = k
      <4>1. r.existing = overrides /\ overrides = saved
        BY <1>1, <1>2, <1>3, <2>2, <3>1, <3>3 DEF ReadRow, SettingsInv
      <4> QED BY <1>6, <4>1
    <3>4. CASE r.at # k
      <4>1. k \in r.at + 1 .. k
        BY <2>2, <3>2, <3>4
      <4>2. saves[k] # r.pod
        BY <1>1, <1>2, <1>3, <2>2, <3>4, <4>1 DEF ReadRow
      <4> QED BY <3>1, <4>1, <4>2
    <3> QED BY <3>3, <3>4
  <2>14. ValidConfig(overrides)'
    BY <1>6, <2>1, <2>4 DEF ValidConfig
  <2> QED BY <2>8, <2>10, <2>11, <2>12, <2>13, <2>14 DEF SettingsInv
<1> QED BY <1>2, <1>5, <1>6 DEF SaveOverrides

\* What is applied is the row if nothing was saved since.
LEMMA ApplyOverridesKeeps ==
  ASSUME SettingsInv, NEW a \in SettingsAdmins, ApplyOverrides(a)
  PROVE  SettingsInv'
<1>1. SettingsTyped /\ SavedRow(a)
  BY DEF SettingsInv
<1>2. PICK r : r = settingsUpdate[a]
  OBVIOUS
<1>3. r \in [pc : {"apply"}, pod : SettingsPods, merged : Config, at : Nat] /\ r.pc = "apply"
  BY <1>1, <1>2 DEF SettingsTyped, ApplyOverrides, Idle
<1>4. /\ UNCHANGED <<overrides, saved, saves, savesCrossed>> /\ Go(a, Idle) /\ Release(r.pod)
      /\ runningConfig' = [runningConfig EXCEPT ![r.pod] = ApplySettingsUpdate(@, r.merged)]
      /\ seenSave' = [seenSave EXCEPT ![r.pod] = r.at]
  BY <1>2 DEF ApplyOverrides
<1>5. runningConfig[r.pod] \in Config
  BY <1>1, <1>3 DEF SettingsTyped
<1>6. PICK c : c = ApplySettingsUpdate(runningConfig[r.pod], r.merged)
  OBVIOUS
<1>7. c \in Config /\ \A f \in EditedFields : r.merged[f] # Unset => c[f] = r.merged[f]
  BY <1>3, <1>5, <1>6, AppliedIsConfig
<1>8. runningConfig' = [runningConfig EXCEPT ![r.pod] = c]
  BY <1>4, <1>6
<1>9. SettingsTyped'
  <2>1. /\ settingsUpdate' \in [SettingsAdmins -> {Idle} \cup {settingsUpdate[b] : b \in SettingsAdmins}]
        /\ settingsMutex' \in [SettingsPods -> SettingsAdmins \cup {Unheld}]
    BY <1>2, <1>3, <1>4, RequestEnds
  <2>2. runningConfig' \in [SettingsPods -> Config] /\ seenSave' \in [SettingsPods -> Nat]
    BY <1>1, <1>3, <1>4, <1>7, <1>8 DEF SettingsTyped
  <2> QED BY <1>1, <1>4, <2>1, <2>2 DEF SettingsTyped
<1>10. ASSUME NEW p \in SettingsPods PROVE RunsWith(p)'
  <2>1. RunsWith(p)
    BY DEF SettingsInv
  <2>2. CASE p = r.pod
    <3>1. seenSave'[p] = r.at /\ runningConfig'[p] = c
      BY <1>1, <1>3, <1>4, <1>8, <2>2 DEF SettingsTyped
    <3>2. r.at <= Len(saves) /\ (r.at = Len(saves) => r.merged = overrides)
      BY <1>1, <1>2, <1>3 DEF SavedRow
    <3> QED BY <1>4, <1>7, <3>1, <3>2 DEF RunsWith
  <2>3. CASE p # r.pod
    <3>1. seenSave'[p] = seenSave[p] /\ runningConfig'[p] = runningConfig[p]
      BY <1>1, <1>3, <1>4, <1>8, <2>3 DEF SettingsTyped
    <3> QED BY <1>4, <2>1, <3>1 DEF RunsWith
  <2> QED BY <2>2, <2>3
<1>11. \A b \in SettingsAdmins : HoldsLock(b)' /\ Decoded(b)' /\ ReadRow(b)' /\ SavedRow(b)'
  BY <1>2, <1>3, <1>4, RequestEnds
<1>12. ValidConfig(overrides)' /\ (~savesCrossed' => overrides' = saved')
  BY <1>4 DEF SettingsInv, ValidConfig
<1> QED BY <1>9, <1>10, <1>11, <1>12 DEF SettingsInv

\* A process that starts again has no requests.
LEMMA LoadOverridesKeeps ==
  ASSUME SettingsInv, NEW q \in SettingsPods, LoadOverrides(q)
  PROVE  SettingsInv'
<1>1. SettingsTyped
  BY DEF SettingsInv
<1>2. /\ UNCHANGED <<overrides, saved, saves, savesCrossed>>
      /\ settingsMutex' = [settingsMutex EXCEPT ![q] = Unheld]
      /\ settingsUpdate' = [a \in SettingsAdmins |->
           IF settingsUpdate[a] # Idle /\ settingsUpdate[a].pod = q THEN Idle ELSE settingsUpdate[a]]
  BY DEF LoadOverrides, Release
<1>3. ASSUME NEW b \in SettingsAdmins
      PROVE  HoldsLock(b)' /\ Decoded(b)' /\ ReadRow(b)' /\ SavedRow(b)'
  <2>1. CASE settingsUpdate[b] # Idle /\ settingsUpdate[b].pod = q
    BY <2>1, <1>2, IdleHolds
  <2>2. CASE ~(settingsUpdate[b] # Idle /\ settingsUpdate[b].pod = q)
    <3>1. settingsUpdate'[b] = settingsUpdate[b]
      BY <1>2, <2>2
    <3>2. PICK s : s = settingsUpdate[b]
      OBVIOUS
    <3>3. s # Idle => s.pod \in SettingsPods \ {q}
      BY <1>1, <2>2, <3>2 DEF SettingsTyped
    <3>4. s # Idle /\ settingsMutex[s.pod] = b => settingsMutex'[s.pod] = b
      BY <1>1, <1>2, <3>3 DEF SettingsTyped
    <3>5. Kept(b)
      BY <3>1, <3>2, <3>4 DEF Kept
    <3> QED BY <3>5, <1>2, OthersKept
  <2> QED BY <2>1, <2>2
<1>4. PICK c \in Config, k \in Nat :
         /\ runningConfig' = [runningConfig EXCEPT ![q] = c]
         /\ seenSave' = [seenSave EXCEPT ![q] = k]
         /\ k <= Len(saves)
         /\ saves # <<>> /\ k = Len(saves) =>
              \A f \in EditedFields : overrides[f] # Unset => c[f] = overrides[f]
  <2>1. Unchanged \in Config
    BY DEF Unchanged, Config, Setting
  <2>2. Len(saves) \in Nat /\ (Len(saves) = 0 => saves = <<>>)
    BY <1>1 DEF SettingsTyped
  <2>3. CASE /\ runningConfig' = [runningConfig EXCEPT ![q] = ApplySettingsUpdate(Unchanged, overrides)]
             /\ seenSave' = [seenSave EXCEPT ![q] = Len(saves)]
    <3>1. PICK c : c = ApplySettingsUpdate(Unchanged, overrides)
      OBVIOUS
    <3>2. c \in Config /\ \A f \in EditedFields : overrides[f] # Unset => c[f] = overrides[f]
      BY <1>1, <2>1, <3>1, AppliedIsConfig DEF SettingsTyped
    <3>3. PICK k \in Nat : k = Len(saves)
      BY <2>2
    <3>4. /\ runningConfig' = [runningConfig EXCEPT ![q] = c]
          /\ seenSave' = [seenSave EXCEPT ![q] = k]
          /\ k <= Len(saves)
      BY <2>3, <3>1, <3>3
    <3> QED BY <3>2, <3>4, Zenon
  <2>4. CASE /\ runningConfig' = [runningConfig EXCEPT ![q] = Unchanged]
             /\ seenSave' = [seenSave EXCEPT ![q] = 0]
    <3>1. 0 <= Len(saves) /\ 0 \in Nat /\ ~(saves # <<>> /\ 0 = Len(saves))
      BY <2>2
    <3> QED BY <2>1, <2>4, <3>1, Zenon
  <2> QED BY <2>3, <2>4 DEF LoadOverrides
<1>5. SettingsTyped'
  <2>1. settingsUpdate' \in [SettingsAdmins -> {Idle} \cup {settingsUpdate[b] : b \in SettingsAdmins}]
    BY <1>2
  <2> QED BY <1>1, <1>2, <1>4, <2>1 DEF SettingsTyped
<1>6. ASSUME NEW p \in SettingsPods PROVE RunsWith(p)'
  <2>1. RunsWith(p)
    BY DEF SettingsInv
  <2>2. CASE p = q
    <3>1. seenSave'[p] = k /\ runningConfig'[p] = c
      BY <1>1, <1>4, <2>2 DEF SettingsTyped
    <3> QED BY <1>2, <1>4, <3>1 DEF RunsWith
  <2>3. CASE p # q
    <3>1. seenSave'[p] = seenSave[p] /\ runningConfig'[p] = runningConfig[p]
      BY <1>1, <1>4, <2>3 DEF SettingsTyped
    <3> QED BY <1>2, <2>1, <3>1 DEF RunsWith
  <2> QED BY <2>2, <2>3
<1>7. ValidConfig(overrides)' /\ (~savesCrossed' => overrides' = saved')
  BY <1>2 DEF SettingsInv, ValidConfig
<1> QED BY <1>3, <1>5, <1>6, <1>7 DEF SettingsInv

LEMMA SettingsStep ==
  ASSUME Unheld \notin SettingsAdmins
  PROVE  SettingsInv /\ [SettingsNext]_settingsVars => SettingsInv'
<1> SUFFICES ASSUME SettingsInv, [SettingsNext]_settingsVars PROVE SettingsInv'
  OBVIOUS
<1>1. CASE UNCHANGED settingsVars
  BY <1>1 DEF settingsVars, SettingsInv, SettingsTyped, HoldsLock, Decoded, ReadRow, SavedRow,
              RunsWith, ValidConfig
<1>2. CASE SettingsNext
  BY <1>2, UpdateSettingsKeeps, LockKeeps, GetOverridesKeeps, SaveOverridesKeeps,
     ApplyOverridesKeeps, LoadOverridesKeeps DEF SettingsNext
<1> QED BY <1>1, <1>2

\* settings/service.go: unless two processes saved at once, no change that was saved is lost.
THEOREM SettingsAreKept ==
  ASSUME Unheld \notin SettingsAdmins
  PROVE  SettingsSpec => []SettingsKept
<1>1. SettingsInit => SettingsInv
  BY SettingsStart
<1>2. SettingsInv /\ [SettingsNext]_settingsVars => SettingsInv'
  BY SettingsStep
<1>3. SettingsInv => SettingsKept
  BY DEF SettingsInv, SettingsKept, RunsWith, ValidConfig
<1> QED BY <1>1, <1>2, <1>3, PTL DEF SettingsSpec
=============================================================================
