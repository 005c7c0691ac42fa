---------------------------- MODULE AccessControl ----------------------------
(***************************************************************************)
(* Roles and permissions of the staff (internal/domain/identity: the admin *)
(* service, custom roles and AccessService).  Every request first resolves *)
(* its actor's access, from the pod's cache or in two reads of the         *)
(* database; a request that changes something then runs a transaction and  *)
(* drops what its own pod has cached.  The other pods keep their entries   *)
(* until they expire.  Permissions are left to one custom role, whose      *)
(* version changes with its permission set.                                *)
(***************************************************************************)
EXTENDS Integers, FiniteSets

CONSTANTS
    Staff,          \* accounts that exist from the start
    FirstAdmin,     \* the account CreateFirstAdmin made
    Guest,          \* an address that can be invited
    Handlers,       \* goroutines with a request
    PodOf,          \* the pod a handler runs in
    MaxAccess       \* bound on the requests

ASSUME AccessAssumption ==
    /\ IsFiniteSet(Staff) /\ FirstAdmin \in Staff /\ Guest \notin Staff
    /\ MaxAccess \in Nat

VARIABLES
    bindings,       \* roles of the accounts: admin, owner, custom
    perms,          \* version of the custom role's permissions; 0: no such role
    invitations,    \* pending invitations of Guest, numbered
    invited,        \* number of the next one
    accounts,       \* accounts there are
    cached,         \* per pod and account: resolved access, or none
    handler,        \* requests under way
    asked,          \* requests so far
    ended,          \* history: how invitations ended
    contested       \* history: revocations, or uses of an invitation, that overlapped

accessVars == <<bindings, perms, invitations, invited, accounts, cached, handler, asked, ended,
                contested>>
bindingVars == <<bindings, perms, accounts>>
historyVars == <<ended, contested>>
inviteVars == <<invitations, invited>>

People == Staff \cup {Guest}
AccessPods == {PodOf[h] : h \in Handlers}
NotCached == [kind |-> "none"]
Free == [pc |-> "rest"]

\* EffectiveAccess, from bindings b and permissions p.
Access(b, p) == [admin |-> "admin" \in b, perms |-> IF "custom" \in b THEN p ELSE 0]

\* There is a custom role, which everyone but the first administrator has; the others
\* may all be administrators as well, and Guest may have been invited.
AccessInit ==
    /\ \E others \in {{"custom"}, {"admin", "custom"}} :
         bindings = [u \in People |->
                       IF u = FirstAdmin THEN {"admin"} ELSE IF u \in Staff THEN others ELSE {}]
    /\ perms = 1
    /\ invitations \in {{}, {0}} /\ invited = 1
    /\ accounts = Staff
    /\ cached = [q \in AccessPods \X People |-> NotCached]
    /\ handler = [h \in Handlers |-> Free]
    /\ asked = 0
    /\ ended = {}
    /\ contested = {}

Goes(h, r) == handler' = [handler EXCEPT ![h] = r]

-----------------------------------------------------------------------------
\* What a request may be about: an account, the custom role or an invitation.
Requests ==
    ({"grant admin", "revoke admin", "grant custom"} \X People)
        \cup ({"create custom", "update custom", "delete custom", "create shop", "create user",
               "invite"} \X {Guest})
        \cup ({"revoke invitation"} \X invitations)

\* A request of handler o that works on invitation i.
Uses(o, i) ==
    \/ handler[o].pc = "accept" /\ handler[o].on = i
    \/ handler[o].pc = "commit" /\ handler[o].op = "revoke invitation" /\ handler[o].on = i

Contest(i) ==
    contested' = IF \E o \in Handlers : Uses(o, i)
                 THEN contested \cup {<<"invitation", i>>} ELSE contested

\* AccessService.Resolve for the actor u of a request; a hit ends it.
Resolve(h, u) ==
    LET e == cached[<<PodOf[h], u>>] IN
    /\ handler[h] = Free
    /\ asked < MaxAccess
    /\ asked' = asked + 1
    /\ Goes(h, IF e = NotCached THEN [pc |-> "bindings", actor |-> u, met |-> FALSE]
               ELSE [pc |-> "authorize", access |-> e.access])
    /\ UNCHANGED <<bindingVars, inviteVars, cached, historyVars>>

ListBindings(h) ==
    /\ handler[h].pc = "bindings"
    /\ Goes(h, [pc |-> "permissions", actor |-> handler[h].actor, met |-> handler[h].met,
                roles |-> bindings[handler[h].actor]])
    /\ UNCHANGED <<bindingVars, inviteVars, cached, asked, historyVars>>

\* The permissions are read after the bindings, in a statement of its own.
PermissionsForRoles(h) ==
    /\ handler[h].pc = "permissions"
    /\ Goes(h, [pc |-> "store", actor |-> handler[h].actor, met |-> handler[h].met,
                access |-> Access(handler[h].roles, perms)])
    /\ UNCHANGED <<bindingVars, inviteVars, cached, asked, historyVars>>

StoreAccess(h) ==
    /\ handler[h].pc = "store"
    /\ cached' = [cached EXCEPT ![<<PodOf[h], handler[h].actor>>] =
                     [kind |-> "entry", access |-> handler[h].access, behind |-> handler[h].met]]
    /\ Goes(h, [pc |-> "authorize", access |-> handler[h].access])
    /\ UNCHANGED <<bindingVars, inviteVars, asked, historyVars>>

ExpireAccess(n, u) ==
    /\ cached[<<n, u>>] # NotCached
    /\ cached' = [cached EXCEPT ![<<n, u>>] = NotCached]
    /\ UNCHANGED <<bindingVars, inviteVars, handler, asked, historyVars>>

\* authorizeGrant and authorizeCustomGrant: an administrator may grant every role, and
\* the request goes on to its transaction; everyone else is refused.
Authorize(h) ==
    /\ handler[h].pc = "authorize"
    /\ IF handler[h].access.admin
       THEN \E r \in Requests :
              /\ Goes(h, [pc |-> IF r[1] = "revoke admin" THEN "count" ELSE "commit",
                          op |-> r[1], on |-> r[2]])
              /\ IF r[1] = "revoke invitation" THEN Contest(r[2]) ELSE UNCHANGED contested
       ELSE Goes(h, Free) /\ UNCHANGED contested
    /\ UNCHANGED <<bindingVars, inviteVars, cached, asked, ended>>

-----------------------------------------------------------------------------
\* A change of the access of the accounts us, committed in the pod of h: entries of
\* other pods and resolutions under way no longer follow it.
Outdate(h, us) ==
    cached' = [q \in DOMAIN cached |->
                 IF q[2] \in us /\ q[1] # PodOf[h] /\ cached[q] # NotCached
                 THEN [cached[q] EXCEPT !.behind = TRUE] ELSE cached[q]]

Overtake(h, us, next) ==
    handler' = [o \in Handlers |->
                  IF o = h THEN next
                  ELSE IF handler[o].pc \in {"bindings", "permissions", "store"}
                          /\ handler[o].actor \in us
                       THEN [handler[o] EXCEPT !.met = TRUE] ELSE handler[o]]

CommitChange(h, us) ==
    /\ Outdate(h, us)
    /\ Overtake(h, us, [pc |-> "invalidate", us |-> us])

\* Mutant: the last administrator may go.
CountUnchecked(h) ==
    /\ handler[h].pc = "count"
    /\ Goes(h, [handler[h] EXCEPT !.pc = "commit"])
    /\ UNCHANGED <<bindingVars, inviteVars, cached, asked, historyVars>>

\* RevokeRole counts the administrators before it deletes a binding.
CountPlatformAdmins(h) ==
    /\ handler[h].pc = "count"
    /\ IF Cardinality({u \in People : "admin" \in bindings[u]}) <= 1
       THEN Goes(h, Free) /\ UNCHANGED contested
       ELSE /\ Goes(h, [handler[h] EXCEPT !.pc = "commit"])
            /\ contested' = IF \E o \in Handlers : handler[o].pc = "commit" /\ handler[o].op = "revoke admin"
                        THEN contested \cup {<<"revoke", 0>>} ELSE contested
    /\ UNCHANGED <<bindingVars, inviteVars, cached, asked, ended>>

\* The transaction of a request runs; it may end with an error and leave nothing.
Commits(h, op) == handler[h].pc = "commit" /\ handler[h].op = op
Aborts(h) == Goes(h, Free) /\ UNCHANGED <<bindings, perms, accounts, cached>>

Bind(h, t, role) ==
    /\ bindings' = [bindings EXCEPT ![t] = @ \cup {role}]
    /\ CommitChange(h, {t})

AssignRole(h) ==
    /\ Commits(h, "grant admin")
    /\ \/ handler[h].on \notin accounts /\ Aborts(h)
       \/ handler[h].on \in accounts /\ Bind(h, handler[h].on, "admin") /\ UNCHANGED <<perms, accounts>>
    /\ UNCHANGED <<inviteVars, asked, historyVars>>

\* No row deleted: ErrBindingNotFound.
RevokeRole(h) ==
    LET t == handler[h].on IN
    /\ Commits(h, "revoke admin")
    /\ \/ "admin" \notin bindings[t] /\ Aborts(h)
       \/ /\ "admin" \in bindings[t]
          /\ bindings' = [bindings EXCEPT ![t] = @ \ {"admin"}]
          /\ CommitChange(h, {t})
          /\ UNCHANGED <<perms, accounts>>
    /\ UNCHANGED <<inviteVars, asked, historyVars>>

AssignCustomRole(h) ==
    LET valid == perms > 0 /\ handler[h].on \in accounts IN
    /\ Commits(h, "grant custom")
    /\ \/ ~valid /\ Aborts(h)
       \/ valid /\ Bind(h, handler[h].on, "custom") /\ UNCHANGED <<perms, accounts>>
    /\ UNCHANGED <<inviteVars, asked, historyVars>>

\* There is at most one custom role at a time; nobody has it yet.
CreateCustomRole(h) ==
    /\ Commits(h, "create custom")
    /\ \/ perms > 0 /\ Aborts(h)
       \/ perms = 0 /\ perms' = 1 /\ Goes(h, Free) /\ UNCHANGED <<bindings, accounts, cached>>
    /\ UNCHANGED <<inviteVars, asked, historyVars>>

UpdateCustomRole(h) ==
    /\ Commits(h, "update custom")
    /\ \/ perms = 0 /\ Aborts(h)
       \/ /\ perms > 0
          /\ perms' = perms + 1
          /\ CommitChange(h, People)
          /\ UNCHANGED <<bindings, accounts>>
    /\ UNCHANGED <<inviteVars, asked, historyVars>>

\* Its bindings go with the role.
DeleteCustomRole(h) ==
    /\ Commits(h, "delete custom")
    /\ \/ perms = 0 /\ Aborts(h)
       \/ /\ perms > 0
          /\ perms' = 0
          /\ bindings' = [u \in People |-> bindings[u] \ {"custom"}]
          /\ CommitChange(h, People)
          /\ UNCHANGED accounts
    /\ UNCHANGED <<inviteVars, asked, historyVars>>

CreateUserDirect(h) ==
    /\ Commits(h, "create user")
    /\ \/ Guest \in accounts /\ Aborts(h)
       \/ /\ Guest \notin accounts
          /\ accounts' = accounts \cup {Guest}
          /\ Bind(h, Guest, "owner")
          /\ UNCHANGED perms
    /\ UNCHANGED <<inviteVars, asked, historyVars>>

\* CreateShop binds an owner who has an account.  For one who has not it invites,
\* which is InviteUser's step.
CreateShop(h) ==
    /\ Commits(h, "create shop")
    /\ \/ handler[h].on \notin accounts /\ Aborts(h)
       \/ handler[h].on \in accounts /\ Bind(h, handler[h].on, "owner") /\ UNCHANGED <<perms, accounts>>
    /\ UNCHANGED <<inviteVars, asked, historyVars>>

InviteUser(h) ==
    /\ Commits(h, "invite")
    /\ IF Guest \in accounts THEN UNCHANGED inviteVars
       ELSE invitations' = invitations \cup {invited} /\ invited' = invited + 1
    /\ Goes(h, Free)
    /\ UNCHANGED <<bindingVars, cached, asked, historyVars>>

\* DeleteInvitation of one that is gone succeeds.
RevokeInvitation(h) ==
    /\ Commits(h, "revoke invitation")
    /\ invitations' = invitations \ {handler[h].on}
    /\ ended' = ended \cup {<<"revoked", handler[h].on>>}
    /\ Goes(h, Free)
    /\ UNCHANGED <<bindingVars, invited, cached, asked, contested>>

\* Mutant: a change of bindings leaves the cache alone.
InvalidateNothing(h) ==
    /\ handler[h].pc = "invalidate"
    /\ Goes(h, Free)
    /\ UNCHANGED <<bindingVars, inviteVars, cached, asked, historyVars>>

\* Invalidate, or Flush after a change of a role.
Invalidate(h) ==
    /\ handler[h].pc = "invalidate"
    /\ cached' = [q \in DOMAIN cached |->
                    IF q[1] = PodOf[h] /\ q[2] \in handler[h].us THEN NotCached ELSE cached[q]]
    /\ Goes(h, Free)
    /\ UNCHANGED <<bindingVars, inviteVars, asked, historyVars>>

-----------------------------------------------------------------------------
\* AcceptInvitation needs no actor: it looks the token up, then creates the account.
FindInvitation(h) ==
    /\ handler[h] = Free
    /\ asked < MaxAccess
    /\ asked' = asked + 1
    /\ \E i \in invitations : Goes(h, [pc |-> "accept", on |-> i]) /\ Contest(i)
    /\ UNCHANGED <<bindingVars, inviteVars, cached, ended>>

\* The unique e-mail address lets one acceptance through.
AcceptInvitation(h) ==
    /\ handler[h].pc = "accept"
    /\ IF Guest \in accounts
       THEN Goes(h, Free) /\ UNCHANGED <<bindings, accounts, invitations, cached, ended>>
       ELSE /\ accounts' = accounts \cup {Guest}
            /\ bindings' = [bindings EXCEPT ![Guest] = @ \cup {"owner"}]
            /\ invitations' = invitations \ {handler[h].on}
            /\ ended' = ended \cup {<<"accepted", handler[h].on>>}
            /\ CommitChange(h, {Guest})
    /\ UNCHANGED <<perms, invited, asked, contested>>

\* DeleteExpiredInvitations of the cleanup scheduler.
ExpireInvitation(i) ==
    /\ i \in invitations
    /\ invitations' = invitations \ {i}
    /\ UNCHANGED <<bindingVars, invited, cached, handler, asked, historyVars>>

\* A pod dies with its cache and its requests.
AccessCrash(n) ==
    /\ cached' = [q \in DOMAIN cached |-> IF q[1] = n THEN NotCached ELSE cached[q]]
    /\ handler' = [h \in Handlers |-> IF PodOf[h] = n THEN Free ELSE handler[h]]
    /\ UNCHANGED <<bindingVars, inviteVars, asked, historyVars>>

HandlerStep(h) ==
    \/ \E u \in accounts : Resolve(h, u)
    \/ ListBindings(h) \/ PermissionsForRoles(h) \/ StoreAccess(h) \/ Authorize(h)
    \/ AssignRole(h) \/ CountPlatformAdmins(h) \/ RevokeRole(h) \/ AssignCustomRole(h)
    \/ CreateCustomRole(h) \/ UpdateCustomRole(h) \/ DeleteCustomRole(h)
    \/ CreateUserDirect(h) \/ CreateShop(h) \/ InviteUser(h) \/ RevokeInvitation(h) \/ Invalidate(h)
    \/ FindInvitation(h) \/ AcceptInvitation(h)

AccessNext ==
    \/ \E h \in Handlers : HandlerStep(h)
    \/ \E n \in AccessPods : AccessCrash(n) \/ \E u \in People : ExpireAccess(n, u)
    \/ \E i \in invitations : ExpireInvitation(i)

AccessSpec == AccessInit /\ [][AccessNext]_accessVars

-----------------------------------------------------------------------------
\* What a pod has cached for an account is what the bindings grant it.  Excepted are
\* a change that was made in another pod, a resolution that was under way when the
\* change committed (both until the entry expires), and the moment between a commit
\* and the Invalidate that follows it.
CacheFollowsBindings ==
    \A n \in AccessPods, u \in People :
        LET e == cached[<<n, u>>] IN
        \/ e = NotCached
        \/ e.behind
        \/ \E h \in Handlers : PodOf[h] = n /\ handler[h].pc = "invalidate" /\ u \in handler[h].us
        \/ e.access = Access(bindings[u], perms)

\* There is always an administrator, unless two revocations overlapped: each counts
\* the administrators before the other's deletion is committed.
AdminRemains ==
    <<"revoke", 0>> \in contested \/ \E u \in People : "admin" \in bindings[u]

\* An invitation is accepted or revoked, not both, unless the two overlapped.
InvitationEndsOnce ==
    \A i \in 0 .. invited :
        {<<"accepted", i>>, <<"revoked", i>>} \subseteq ended => <<"invitation", i>> \in contested

\* What the two look-ups outside their transactions, of the administrators and of an
\* invitation, leave true.
GrantsSafe == AdminRemains /\ InvitationEndsOnce

\* access_service.go, admin_service.go: a cached access follows the bindings, an
\* administrator remains, and an invitation ends once.
AccessSafe == CacheFollowsBindings /\ GrantsSafe
=============================================================================
