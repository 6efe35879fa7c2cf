----------------------------- MODULE Organizations -----------------------------
(***************************************************************************)
(* One organization: internal/service/organization.go with its handlers,   *)
(* its repository and the Casbin enforcer of internal/permission.          *)
(*                                                                         *)
(* A membership lives in three places: the row of organization_members,    *)
(* the policies stored in casbin_rule, and the memory of the enforcer of   *)
(* every instance.  They are written one after the other, outside any      *)
(* transaction, and an error of the enforcer is logged and passed over.    *)
(* The roles and policies of the memory decide.                            *)
(*                                                                         *)
(* gorm's Save writes the whole organization with the members that were    *)
(* preloaded: a member removed since then is inserted again, and so is an  *)
(* organization that was deleted.                                          *)
(***************************************************************************)
EXTENDS Requests, Sequences

CONSTANTS
    Users,
    Instances,      \* API processes
    Nobody

ASSUME NobodyAssumption == Nobody \notin Users

VARIABLES
    org,        \* none, live or deleted
    owner,      \* owner_id
    members,    \* organization_members: the role of each user, or "none"
    stored,     \* casbin_rule: [g : roles of users, p : actions of roles]
    memory,     \* the same, in the enforcer of each instance
    writers,    \* history: the instances that wrote policies,
    crossed     \* and whether a request changed a member between the
                \* statements of another on him

orgRows == <<org, owner, members>>
orgPolicies == <<stored, memory, writers>>
orgVars == <<orgRows, orgPolicies, crossed>>

-----------------------------------------------------------------------------
(* Types *)

Role == {"owner", "admin", "member"}

\* The actions of a role, in the order in which they are added.
Actions(role) ==
    CASE role = "owner"  -> <<"view", "manage", "invite", "remove">>
      [] role = "admin"  -> <<"view", "manage", "invite">>
      [] role = "member" -> <<"view">>

Policies == [g : SUBSET (Users \X Role),
             p : SUBSET (Role \X {"view", "manage", "invite", "remove"})]

NoPolicies == [g |-> {}, p |-> {}]
NoMembers == [u \in Users |-> "none"]

OrgRequest == [pc : {"create", "owner", "grant", "policies", "update", "slug", "save",
                     "delete", "drop", "invite", "insert", "expel", "unrow", "revoke"},
               at : Instances, user : Users, target : Users, role : Role \cup {"none"},
               copy : [Users -> Role \cup {"none"}], added : 0..4]

OrganizationsTypeOK ==
    /\ org \in {"none", "live", "deleted"}
    /\ owner \in Users \cup {Nobody}
    /\ members \in [Users -> Role \cup {"none"}]
    /\ stored \in Policies
    /\ memory \in [Instances -> Policies]
    /\ RequestsAre(OrgRequest)
    /\ writers \subseteq Instances
    /\ crossed \in BOOLEAN

OrganizationsInit ==
    /\ org = "none"
    /\ owner = Nobody
    /\ members = NoMembers
    /\ stored = NoPolicies
    /\ memory = [i \in Instances |-> NoPolicies]
    /\ writers = {}
    /\ crossed = FALSE

\* A request of user u at instance i about user t.
Asked(label, i, u, t, role) ==
    [pc |-> label, at |-> i, user |-> u, target |-> t, role |-> role,
     copy |-> NoMembers, added |-> 0]

\* History: r inserts or deletes the row of u.
Cross(r, u) ==
    crossed' = (crossed \/ \E s \in Others(r) :
                    ~At(s, "idle") /\ req[s].target = u
                        /\ req[s].pc \in {"grant", "unrow", "revoke"})

-----------------------------------------------------------------------------
(* The enforcer *)

\* Enforce: some role of the user in this organization has the action.
Enforce(i, u, act) ==
    \E role \in Role : <<u, role>> \in memory[i].g /\ <<role, act>> \in memory[i].p

\* AddRoleForUser: what this instance has in memory is not written.
AddRoleForUser(i, u, role) ==
    /\ writers' = writers \cup {i}
    /\ IF <<u, role>> \in memory[i].g THEN UNCHANGED <<stored, memory>>
       ELSE /\ stored' = [stored EXCEPT !.g = @ \cup {<<u, role>>}]
            /\ memory' = [memory EXCEPT ![i].g = @ \cup {<<u, role>>}]

\* AddPolicy, likewise.
AddPolicy(i, role, act) ==
    /\ writers' = writers \cup {i}
    /\ IF <<role, act>> \in memory[i].p THEN UNCHANGED <<stored, memory>>
       ELSE /\ stored' = [stored EXCEPT !.p = @ \cup {<<role, act>>}]
            /\ memory' = [memory EXCEPT ![i].p = @ \cup {<<role, act>>}]

\* Mutant of RemoveRoleForUser: only in memory.
RemoveRoleInMemory(i, u, role) ==
    /\ memory' = [memory EXCEPT ![i].g = @ \ {<<u, role>>}]
    /\ writers' = writers \cup {i}
    /\ UNCHANGED stored

\* RemoveRoleForUser: in the database, then in memory.
RemoveRoleForUser(i, u, role) ==
    /\ stored' = [stored EXCEPT !.g = @ \ {<<u, role>>}]
    /\ memory' = [memory EXCEPT ![i].g = @ \ {<<u, role>>}]
    /\ writers' = writers \cup {i}

\* LoadPolicy, at the start of a process or by permission:sync.
LoadPolicy(i) ==
    /\ memory[i] # stored
    /\ memory' = [memory EXCEPT ![i] = stored]
    /\ UNCHANGED <<orgRows, stored, writers, crossed, requestVars>>

-----------------------------------------------------------------------------
(* The repository *)

\* FindByID, with the members.
FindByID == org = "live"

\* Insertion of an organization.
InsertOrganization(u) == org' = "live" /\ owner' = u

\* Save: the members of the copy that have gone since are inserted again, and
\* the organization is back if it was deleted.
SaveOrganization(copy) ==
    /\ org' = "live"
    /\ members' = [u \in Users |-> IF members[u] = "none" THEN copy[u] ELSE members[u]]

SoftDelete == org' = "deleted"

IsMember(u) == members[u] # "none"

\* The primary key is the pair of organization and user.
InsertMember(u, role) ==
    /\ ~IsMember(u)
    /\ members' = [members EXCEPT ![u] = role]

DeleteMember(u) ==
    /\ IsMember(u)
    /\ members' = [members EXCEPT ![u] = "none"]

-----------------------------------------------------------------------------
(* CreateOrganization *)

HandleCreate(r, i, u) ==
    /\ org = "none"
    /\ Begin(r, Asked("create", i, u, u, "owner"))
    /\ UNCHANGED orgVars

\* The slug is free, and the row is inserted ...
CreateOrganization(r) ==
    /\ At(r, "create")
    /\ \/ org = "none" /\ InsertOrganization(req[r].user) /\ Goto(r, "owner")
       \/ org # "none" /\ UNCHANGED <<org, owner>> /\ Finish(r)
    /\ UNCHANGED <<members, orgPolicies, crossed>>

\* ... then the owner as a member.  If that fails the organization stays.
CreateOwner(r) ==
    /\ At(r, "owner")
    /\ InsertMember(req[r].user, "owner")
    /\ Goto(r, "grant")
    /\ UNCHANGED <<org, owner, orgPolicies, crossed>>

\* CreateOrganization and AddMember: the role is granted, an error passed over ...
GrantRole(r) ==
    LET q == req[r]
        next == [q EXCEPT !.pc = "policies"]
    IN  /\ At(r, "grant")
        /\ \/ AddRoleForUser(q.at, q.target, q.role) /\ Become(r, next)
           \/ UNCHANGED orgPolicies /\ Stumble(r, next)
        /\ UNCHANGED <<orgRows, crossed>>

\* ... then the policies of the role, one by one.
GrantPolicies(r) ==
    LET q == req[r]
        n == q.added + 1
        next == IF n = Len(Actions(q.role)) THEN Idle ELSE [q EXCEPT !.added = n]
    IN  /\ At(r, "policies")
        /\ \/ AddPolicy(q.at, q.role, Actions(q.role)[n]) /\ Become(r, next)
           \/ UNCHANGED orgPolicies /\ Stumble(r, next)
        /\ UNCHANGED <<orgRows, crossed>>

-----------------------------------------------------------------------------
(* UpdateOrganization and DeleteOrganization *)

HandleUpdate(r, i, u) ==
    /\ Begin(r, Asked("update", i, u, u, "none"))
    /\ UNCHANGED orgVars

\* One that may manage reads the organization with its members ...
UpdateOrganization(r) ==
    /\ At(r, "update")
    /\ IF Enforce(req[r].at, req[r].user, "manage") /\ FindByID
       THEN Become(r, [req[r] EXCEPT !.pc = "slug", !.copy = members])
       ELSE Finish(r)
    /\ UNCHANGED orgVars

\* ... a new slug must be free ...
CheckSlug(r) ==
    /\ At(r, "slug")
    /\ Goto(r, "save") \/ Finish(r)
    /\ UNCHANGED orgVars

\* ... and the copy is saved.
UpdateSave(r) ==
    /\ At(r, "save")
    /\ SaveOrganization(req[r].copy)
    /\ crossed' = (crossed \/ org' # org \/ members' # members)
    /\ Finish(r)
    /\ UNCHANGED <<owner, orgPolicies>>

HandleDelete(r, i, u) ==
    /\ Begin(r, Asked("delete", i, u, u, "none"))
    /\ UNCHANGED orgVars

DeleteOrganization(r) ==
    /\ At(r, "delete")
    /\ IF Enforce(req[r].at, req[r].user, "manage") /\ FindByID
       THEN Goto(r, "drop") ELSE Finish(r)
    /\ UNCHANGED orgVars

\* The members and their policies stay.
DeleteRow(r) ==
    /\ At(r, "drop")
    /\ IF org = "live" THEN SoftDelete ELSE UNCHANGED org
    /\ Finish(r)
    /\ UNCHANGED <<owner, members, orgPolicies, crossed>>

-----------------------------------------------------------------------------
(* AddMember and RemoveMember *)

HandleAddMember(r, i, u, t, role) ==
    /\ Begin(r, Asked("invite", i, u, t, role))
    /\ UNCHANGED orgVars

\* One that may invite, and a user that is not a member yet ...
AddMember(r) ==
    /\ At(r, "invite")
    /\ IF /\ Enforce(req[r].at, req[r].user, "invite")
          /\ FindByID
          /\ ~IsMember(req[r].target)
       THEN Goto(r, "insert") ELSE Finish(r)
    /\ UNCHANGED orgVars

\* ... gets a row; of two requests the primary key refuses one.
AddMemberRow(r) ==
    LET u == req[r].target
    IN  /\ At(r, "insert")
        /\ \/ InsertMember(u, req[r].role) /\ Goto(r, "grant")
           \/ IsMember(u) /\ UNCHANGED members /\ Finish(r)
        /\ Cross(r, u)
        /\ UNCHANGED <<org, owner, orgPolicies>>

HandleRemoveMember(r, i, u, t) ==
    /\ Begin(r, Asked("expel", i, u, t, "none"))
    /\ UNCHANGED orgVars

\* Mutant of Removable: the owner, too.
RemovableAny(u) == IsMember(u) /\ FindByID

\* A member other than the owner.
Removable(u) == IsMember(u) /\ FindByID /\ u # owner

\* One that may remove reads the role of the member ...
RemoveMember(r) ==
    LET u == req[r].target
    IN  /\ At(r, "expel")
        /\ IF Enforce(req[r].at, req[r].user, "remove") /\ Removable(u)
           THEN Become(r, [req[r] EXCEPT !.pc = "unrow", !.role = members[u]])
           ELSE Finish(r)
        /\ UNCHANGED orgVars

\* ... deletes the row ...
RemoveMemberRow(r) ==
    LET u == req[r].target
    IN  /\ At(r, "unrow")
        /\ \/ DeleteMember(u) /\ Goto(r, "revoke")
           \/ ~IsMember(u) /\ UNCHANGED members /\ Finish(r)
        /\ Cross(r, u)
        /\ UNCHANGED <<org, owner, orgPolicies>>

\* ... and takes the role back, an error passed over.
RevokeRole(r) ==
    /\ At(r, "revoke")
    /\ \/ RemoveRoleForUser(req[r].at, req[r].target, req[r].role) /\ Finish(r)
       \/ UNCHANGED orgPolicies /\ Stumble(r, Idle)
    /\ UNCHANGED <<orgRows, crossed>>

-----------------------------------------------------------------------------

OrganizationHandlers(r) ==
    \E i \in Instances, u \in Users :
        \/ HandleCreate(r, i, u)
        \/ HandleUpdate(r, i, u)
        \/ HandleDelete(r, i, u)
        \/ \E t \in Users : HandleRemoveMember(r, i, u, t)
        \/ \E t \in Users, role \in Role : HandleAddMember(r, i, u, t, role)

OrganizationSteps(r) ==
    \/ OrganizationHandlers(r)
    \/ CreateOrganization(r) \/ CreateOwner(r) \/ GrantRole(r) \/ GrantPolicies(r)
    \/ UpdateOrganization(r) \/ CheckSlug(r) \/ UpdateSave(r)
    \/ DeleteOrganization(r) \/ DeleteRow(r)
    \/ AddMember(r) \/ AddMemberRow(r)
    \/ RemoveMember(r) \/ RemoveMemberRow(r) \/ RevokeRole(r)
    \/ Abort(r) /\ UNCHANGED orgVars

OrganizationsNext ==
    \/ \E r \in Slots : OrganizationSteps(r)
    \/ \E i \in Instances : LoadPolicy(i)

OrganizationsSpec ==
    /\ OrganizationsInit /\ RequestsInit
    /\ [][OrganizationsNext]_<<orgVars, requestVars>>

-----------------------------------------------------------------------------
(* Properties *)

\* What a reader is shown: GetOrganization and GetMembers ask for "view", while
\* ListOrganizations goes by the rows.
GetOrganization(i, u) == Enforce(i, u, "view") /\ FindByID
FindMembers == {v \in Users : IsMember(v)}
GetMembers(i, u) == IF Enforce(i, u, "view") THEN FindMembers ELSE {}
ListOrganizations(u) == IsMember(u) /\ FindByID

\* The members are those with a role, and each can see the organization in his
\* list exactly when he may open it, once the requests are through, if no
\* statement failed, one instance wrote all the policies, and no two requests
\* crossed on a member.
MembersHaveRoles ==
    Quiet /\ faults = 0 /\ ~crossed /\ Cardinality(writers) <= 1
    => /\ \A u \in Users, role \in Role : members[u] = role <=> <<u, role>> \in stored.g
       /\ \A i \in writers, u \in Users :
            /\ ListOrganizations(u) <=> GetOrganization(i, u)
            /\ IsMember(u) <=> u \in GetMembers(i, u)

\* The owner of an organization is one of its members, whatever overlaps, and
\* once it is created some instance lets him manage it, unless a statement
\* failed.
OwnerKeepsAccess ==
    faults = 0 /\ org # "none" /\ (\A r \in Slots : ~At(r, "owner"))
    => /\ members[owner] = "owner"
       /\ Quiet => \E i \in Instances : Enforce(i, owner, "manage")

\* Rows and roles of an organization agree: MembersHaveRoles and
\* OwnerKeepsAccess.
RolesFollowMembers == MembersHaveRoles /\ OwnerKeepsAccess

-----------------------------------------------------------------------------
(* Why they hold: with the types, the following is inductive. *)

\* What a request carries.  It takes a role back from somebody other than the
\* owner.
RequestsCarry ==
    \A r \in Slots :
        LET q == req[r]
        IN  /\ q.pc \in {"create", "owner"} => q.target = q.user /\ q.role = "owner"
            /\ q.pc \in {"create", "owner", "invite", "insert", "grant"} => q.added = 0
            /\ q.pc \in {"invite", "insert", "grant", "policies"} => q.role \in Role
            /\ q.pc = "policies" => q.added < Len(Actions(q.role))
            /\ q.pc \in {"unrow", "revoke"} => q.role \in Role /\ q.target # owner

\* The organization is there, and its first member, or the request that was to
\* insert him has ended.  Until then there is nothing that a request could have
\* been allowed by.
Founded == org # "none" /\ \A r \in Slots : ~At(r, "owner")

FoundedFirst ==
    /\ org = "none" => \A r \in Slots : ~At(r, "owner")
    /\ \A r \in Slots : At(r, "owner") =>
            req[r].user = owner /\ \A s \in Others(r) : ~At(s, "owner")
    /\ org # "none" => owner \in Users
    /\ ~Founded =>
        /\ members = NoMembers /\ writers = {}
        /\ \A r \in Slots :
            req[r].pc \in {"idle", "create", "owner", "update", "delete", "invite", "expel"}

\* What an instance has in memory of the policies of roles, and of the role of
\* the owner, is stored: nothing takes them back.
MemoryIsStored ==
    /\ IsFiniteSet(writers)
    /\ writers = {} => stored = NoPolicies
    /\ \A i \in Instances :
        /\ memory[i].g # {} \/ memory[i].p # {} => writers # {}
        /\ memory[i].p \subseteq stored.p
        /\ <<owner, "owner">> \in memory[i].g => <<owner, "owner">> \in stored.g

\* The request that founded the organization gets on, until its owner manages it.
FounderAt(r, label) ==
    At(r, label) /\ req[r].target = owner /\ req[r].role = "owner" /\ req[r].added <= 1

OwnerGetsOn ==
    \/ \E r \in Slots : FounderAt(r, "grant")
    \/ \E r \in Slots :
        FounderAt(r, "policies") /\ <<owner, "owner">> \in memory[req[r].at].g
    \/ \E i \in Instances :
        <<owner, "owner">> \in memory[i].g /\ <<"owner", "manage">> \in memory[i].p

OwnerIsServed ==
    Founded /\ faults = 0 => members[owner] = "owner" /\ OwnerGetsOn

\* Nothing failed or crossed, and one instance writes.
Clean == faults = 0 /\ ~crossed /\ \A i, j \in writers : i = j

\* The requests between the row of u and his role.
On(u) == {r \in Slots : req[r].pc \in {"grant", "revoke"} /\ req[r].target = u}

\* His role is stored or is about to be, it is gone or about to go.
RoleFollows(u) ==
    /\ \A r, s \in On(u) : r = s
    /\ \A r \in On(u) :
        IF At(r, "grant")
        THEN members[u] = req[r].role /\ \A role \in Role : <<u, role>> \notin stored.g
        ELSE /\ members[u] = "none"
             /\ \A role \in Role : <<u, role>> \in stored.g <=> role = req[r].role
    /\ On(u) = {} => \A role \in Role : members[u] = role <=> <<u, role>> \in stored.g

\* The memory of the instance that writes is what is stored, and a role that is
\* stored may view, or will be allowed to by the request that granted it.
RolesAreFollowed ==
    Clean =>
        /\ \A i \in writers : memory[i] = stored
        /\ \A u \in Users : RoleFollows(u)
        /\ \A r \in Slots : At(r, "unrow") => members[req[r].target] = req[r].role
        /\ \A u \in Users, role \in Role :
            <<u, role>> \in stored.g =>
                \/ <<role, "view">> \in stored.p
                \/ \E r \in Slots :
                    At(r, "policies") /\ req[r].role = role /\ req[r].added = 0

OrganizationsInv ==
    /\ OrganizationsTypeOK
    /\ RequestsCarry
    /\ FoundedFirst
    /\ MemoryIsStored
    /\ OwnerIsServed
    /\ RolesAreFollowed
=============================================================================
