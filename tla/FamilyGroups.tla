----------------------------- MODULE FamilyGroups -----------------------------
(***************************************************************************)
(* Family groups (FamilyService, aggregate.FamilyGroup, FamilyRepository). *)
(* A request reads the owner's subscription and its plan, and then, in a   *)
(* transaction, the group: FOR UPDATE, which locks a row only if there is  *)
(* one.  The first request creates the group; the unique index on owner_id *)
(* makes the creation wait for another that is not decided yet.  Plans     *)
(* have their family columns from outside.                                 *)
(***************************************************************************)
EXTENDS Integers, FiniteSets

CONSTANTS
    FamilyOwner, Relatives, \* users
    FamilyRequests,         \* goroutines
    FamilySizes,            \* values of max_family_members
    MaxFamilyCalls, MaxFamilyEdits

VARIABLES
    familyPlan,     \* the plan's row: family_enabled, max_family_members
    familyGroup,    \* the owner's rows in family_groups and family_members
    familyCall,     \* each request: where it is, what it wants and what it has read
    groupLock,      \* the request that holds the group's row, or its index entry
    relatives,      \* history: who was told to be a member, and not removed since
    familyCalls, familyEdits

familyVars ==
    <<familyPlan, familyGroup, familyCall, groupLock, relatives, familyCalls, familyEdits>>

MinFamilyMembers == 2
MaxFamilyMembers == 10
NoGroup == [max |-> 0, members |-> {}]
Unlocked == "unlocked"
IdleCall == [pc |-> "idle"]

-----------------------------------------------------------------------------
\* NewFamilyGroup refuses other sizes.
Allowed(max) == max \in MinFamilyMembers .. MaxFamilyMembers
NewFamilyGroup(max) == [max |-> max, members |-> {FamilyOwner}]

HasMember(g, u) == u \in g.members
MemberCount(g) == Cardinality(g.members)
IsFull(g) == MemberCount(g) >= g.max

\* FamilyEligibility.Check against the plan as the request read it.
Eligible(plan, g) == plan.enabled /\ MemberCount(g) < plan.max

CanAddMember(g, u) == ~HasMember(g, u) /\ ~IsFull(g)
AddMember(g, u) == [g EXCEPT !.members = @ \cup {u}]
CanRemoveMember(g, u) == u # FamilyOwner /\ HasMember(g, u)
RemoveMember(g, u) == [g EXCEPT !.members = @ \ {u}]

-----------------------------------------------------------------------------
FamilyInit ==
    /\ familyPlan \in {p \in [enabled : BOOLEAN, max : FamilySizes] : p.enabled \/ p.max = 0}
    /\ familyGroup = NoGroup
    /\ familyCall = [r \in FamilyRequests |-> IdleCall]
    /\ groupLock = Unlocked
    /\ relatives = {FamilyOwner}
    /\ familyCalls = 0
    /\ familyEdits = 0

\* NewPlan: a plan without families has no family size.
EditFamilyPlan(p) ==
    /\ familyEdits < MaxFamilyEdits /\ familyEdits' = familyEdits + 1
    /\ p.enabled \/ p.max = 0
    /\ familyPlan' = p
    /\ UNCHANGED <<familyGroup, familyCall, groupLock, relatives, familyCalls>>

\* AddFamilyMember and RemoveFamilyMember, before the transaction.
ReadFamilyPlan(r, op, u) ==
    /\ familyCall[r].pc = "idle"
    /\ familyCalls < MaxFamilyCalls /\ familyCalls' = familyCalls + 1
    /\ familyCall' = [familyCall EXCEPT ![r] =
         [pc |-> "read", op |-> op, user |-> u, plan |-> familyPlan]]
    /\ UNCHANGED <<familyPlan, familyGroup, groupLock, relatives, familyEdits>>

TakeLock(r) == groupLock = Unlocked /\ groupLock' = r

\* GetByOwnerIDForUpdate.
GetByOwnerIDForUpdate(r) ==
    /\ familyCall[r].pc = "read"
    /\ \/ familyGroup # NoGroup /\ TakeLock(r)
       \/ familyGroup = NoGroup /\ UNCHANGED groupLock
    /\ familyCall' = [familyCall EXCEPT ![r] =
         [pc |-> IF familyGroup # NoGroup THEN "found" ELSE "none", op |-> @.op,
          user |-> @.user, plan |-> @.plan, group |-> familyGroup]]
    /\ UNCHANGED <<familyPlan, familyGroup, relatives, familyCalls, familyEdits>>

\* Create inserts, once no other insertion is undecided; the index refuses a second
\* group.  A plan without families, or one too large, makes no group.
CreateFamilyGroup(r) ==
    LET c == familyCall[r]
    IN /\ c.pc = "none" /\ c.op = "add" /\ Allowed(c.plan.max)
       /\ familyGroup = NoGroup
       /\ TakeLock(r)
       /\ familyCall' = [familyCall EXCEPT ![r].pc = "found",
                                           ![r].group = NewFamilyGroup(c.plan.max)]
       /\ UNCHANGED <<familyPlan, familyGroup, relatives, familyCalls, familyEdits>>

Finish(r) ==
    /\ familyCall' = [familyCall EXCEPT ![r] = IdleCall]
    /\ groupLock' = IF groupLock = r THEN Unlocked ELSE groupLock
    /\ UNCHANGED <<familyPlan, familyCalls, familyEdits>>

\* FamilyRepository.Update upserts the members and prunes the others.
UpdateFamilyGroup(g) ==
    familyGroup' = [max |-> g.max, members |-> (familyGroup.members \cup g.members)
                                                 \ (familyGroup.members \ g.members)]

\* The rest of AddFamilyMember and of RemoveFamilyMember, and commit.
AddFamilyMember(r) ==
    LET c == familyCall[r]
    IN /\ c.pc = "found" /\ c.op = "add"
       /\ Eligible(c.plan, c.group) /\ CanAddMember(c.group, c.user)
       /\ UpdateFamilyGroup(AddMember(c.group, c.user))
       /\ relatives' = relatives \cup {c.user}
       /\ Finish(r)

RemoveFamilyMember(r) ==
    LET c == familyCall[r]
    IN /\ c.pc = "found" /\ c.op = "remove"
       /\ CanRemoveMember(c.group, c.user)
       /\ UpdateFamilyGroup(RemoveMember(c.group, c.user))
       /\ relatives' = relatives \ {c.user}
       /\ Finish(r)

\* An error rolls the transaction back, the new group included.
RefuseFamilyCall(r) ==
    LET c == familyCall[r]
    IN /\ \/ c.pc = "none" /\ (c.op = "remove" \/ ~Allowed(c.plan.max) \/ familyGroup # NoGroup)
          \/ /\ c.pc = "found"
             /\ \/ c.op = "add" /\ ~(Eligible(c.plan, c.group) /\ CanAddMember(c.group, c.user))
                \/ c.op = "remove" /\ ~CanRemoveMember(c.group, c.user)
       /\ Finish(r)
       /\ UNCHANGED <<familyGroup, relatives>>

FamilyNext ==
    \/ \E p \in [enabled : BOOLEAN, max : FamilySizes] : EditFamilyPlan(p)
    \/ \E r \in FamilyRequests :
        \/ \E u \in Relatives \cup {FamilyOwner} :
            ReadFamilyPlan(r, "add", u) \/ ReadFamilyPlan(r, "remove", u)
        \/ GetByOwnerIDForUpdate(r)
        \/ CreateFamilyGroup(r)
        \/ AddFamilyMember(r)
        \/ RemoveFamilyMember(r)
        \/ RefuseFamilyCall(r)

FamilySpec == FamilyInit /\ [][FamilyNext]_familyVars

-----------------------------------------------------------------------------
\* family_service.go: "performed inside a single database transaction to prevent TOCTOU
\* races".  Whoever was told to be a member is one until removed, nobody else is, the
\* owner always is, and the group never outgrows the size it was created with, however
\* requests and edits of the plan interleave.
FamiliesKept ==
    familyGroup # NoGroup =>
        /\ familyGroup.members = relatives
        /\ FamilyOwner \in familyGroup.members
        /\ MemberCount(familyGroup) <= familyGroup.max
=============================================================================
