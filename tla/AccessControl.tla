----------------------------- MODULE AccessControl -----------------------------
(***************************************************************************)
(* The roles and permissions of one user in SQL: internal/service/role.go, *)
(* permission.go and user.go with their handlers, over the tables roles,   *)
(* permissions, role_permissions, user_roles and user_permissions.         *)
(*                                                                         *)
(* A role is saved with the permissions that were preloaded, so that one   *)
(* detached since then is attached again and a deleted role is back.  A    *)
(* direct permission is written by gorm's FirstOrCreate: a query, then an  *)
(* insert or an update.  The effective permissions are put together from   *)
(* two queries.                                                            *)
(***************************************************************************)
EXTENDS Requests

CONSTANTS Roles, Permissions, SystemRoles

ASSUME SystemRolesAssumption == SystemRoles \subseteq Roles

VARIABLES
    role,       \* the row of each role: none, live or deleted
    attached,   \* role_permissions
    assigned,   \* user_roles of the user
    direct,     \* user_permissions of the user: none, allow or deny
    told,       \* history: what the last finished request said of each direct
                \* permission,
    mixed     \* the permissions written between the two statements of another

accessVars == <<role, attached, assigned, direct, told, mixed>>

-----------------------------------------------------------------------------
(* Types *)

RoleRow == {"none", "live", "deleted"}
Effect == {"none", "allow", "deny"}

AccessRequest ==
    [pc : {"createrole", "updaterole", "deleterole"}, role : Roles]
    \cup [pc : {"saverole"}, role : Roles, copy : SUBSET Permissions]
    \cup [pc : {"attachpermission", "attach"}, role : Roles, perm : Permissions]
    \cup [pc : {"upsert", "write"}, perm : Permissions, effect : {"allow", "deny"},
          found : BOOLEAN]
    \cup [pc : {"effective", "overrides"}, allowed : SUBSET Permissions,
          ever : SUBSET Permissions, changes : 0..2]

AccessControlTypeOK ==
    /\ role \in [Roles -> RoleRow]
    /\ attached \in SUBSET (Roles \X Permissions)
    /\ assigned \in SUBSET Roles
    /\ direct \in [Permissions -> Effect]
    /\ told \in [Permissions -> Effect]
    /\ mixed \in SUBSET Permissions
    /\ RequestsAre(AccessRequest)

AccessControlInit ==
    /\ role = [x \in Roles |-> IF x \in SystemRoles THEN "live" ELSE "none"]
    /\ attached = {}
    /\ assigned = {}
    /\ direct = [p \in Permissions |-> "none"]
    /\ told = direct
    /\ mixed = {}

-----------------------------------------------------------------------------
(* Reads *)

\* The roles of the user that are not deleted.
GetUserRoles == {x \in assigned : role[x] = "live"}

\* FindByUserIDWithPermissions: their permissions.
RolePermissions == {p \in Permissions : \E x \in GetUserRoles : <<x, p>> \in attached}

\* Mutant of Override: a direct permission is one more.
OverrideAdds(fromRoles) == fromRoles \cup {p \in Permissions : direct[p] = "allow"}

\* Direct permissions override those of the roles.
Override(fromRoles) ==
    {p \in Permissions : direct[p] = "allow" \/ (direct[p] = "none" /\ p \in fromRoles)}

Denies(p) == direct[p] = "deny"

\* What the user may do now.
Effective ==
    {p \in Permissions : ~Denies(p) /\ (direct[p] = "allow" \/ p \in RolePermissions)}

\* History, after a write: the requests that are reading the effective
\* permissions see another state of them.
Witnessed(table) ==
    [r \in Slots |->
        IF table[r].pc # "overrides" THEN table[r]
        ELSE [table[r] EXCEPT !.ever = @ \cup Effective',
                              !.changes = IF @ = 2 THEN 2 ELSE @ + 1]]

\* A write, after which request r goes on as q.
Write(r, q) ==
    /\ req' = Witnessed([req EXCEPT ![r] = q])
    /\ UNCHANGED <<begun, faults>>

-----------------------------------------------------------------------------
(* Roles *)

HandleCreateRole(r, x) ==
    /\ x \notin SystemRoles
    /\ Begin(r, [pc |-> "createrole", role |-> x])
    /\ UNCHANGED accessVars

\* The name is free.  A deleted role keeps its name in the unique index.
CreateRole(r) ==
    LET x == req[r].role
    IN  /\ At(r, "createrole")
        /\ IF role[x] = "none" THEN role' = [role EXCEPT ![x] = "live"] ELSE UNCHANGED role
        /\ UNCHANGED <<attached, assigned, direct, told, mixed>>
        /\ Write(r, Idle)

HandleUpdateRole(r, x) ==
    /\ Begin(r, [pc |-> "updaterole", role |-> x])
    /\ UNCHANGED accessVars

\* FindByID preloads the permissions ...
UpdateRole(r) ==
    LET x == req[r].role
    IN  /\ At(r, "updaterole")
        /\ IF role[x] # "live" THEN Finish(r)
           ELSE Become(r, [pc |-> "saverole", role |-> x,
                           copy |-> {p \in Permissions : <<x, p>> \in attached}])
        /\ UNCHANGED accessVars

\* ... and Save inserts those that have gone since.
SaveRole(r) ==
    LET x == req[r].role
    IN  /\ At(r, "saverole")
        /\ role' = [role EXCEPT ![x] = "live"]
        /\ attached' = attached \cup ({x} \X req[r].copy)
        /\ UNCHANGED <<assigned, direct, told, mixed>>
        /\ Write(r, Idle)

\* The handler refuses a system role ...
HandleDeleteRole(r, x) ==
    /\ role[x] = "live" /\ x \notin SystemRoles
    /\ Begin(r, [pc |-> "deleterole", role |-> x])
    /\ UNCHANGED accessVars

\* ... and so does the statement.
DeleteRole(r) ==
    LET x == req[r].role
    IN  /\ At(r, "deleterole")
        /\ IF role[x] = "live" /\ x \notin SystemRoles
           THEN role' = [role EXCEPT ![x] = "deleted"] ELSE UNCHANGED role
        /\ UNCHANGED <<attached, assigned, direct, told, mixed>>
        /\ Write(r, Idle)

HandleAttachPermission(r, x, p) ==
    /\ Begin(r, [pc |-> "attachpermission", role |-> x, perm |-> p])
    /\ UNCHANGED accessVars

\* AttachPermission: the role exists, and so does the permission ...
AttachPermission(r) ==
    /\ At(r, "attachpermission")
    /\ IF role[req[r].role] = "live" THEN Goto(r, "attach") ELSE Finish(r)
    /\ UNCHANGED accessVars

\* ... and the pair is inserted, unless it is there.
Attach(r) ==
    /\ At(r, "attach")
    /\ attached' = attached \cup {<<req[r].role, req[r].perm>>}
    /\ UNCHANGED <<role, assigned, direct, told, mixed>>
    /\ Write(r, Idle)

\* DetachPermission is one statement.
DetachPermission(x, p) ==
    /\ <<x, p>> \in attached
    /\ attached' = attached \ {<<x, p>>}
    /\ UNCHANGED <<role, assigned, direct, told, mixed>>

-----------------------------------------------------------------------------
(* The roles and permissions of the user *)

\* AssignRole: the key refuses a second row, a role that is deleted is there.
AssignRole(x) ==
    /\ role[x] # "none" /\ x \notin assigned
    /\ assigned' = assigned \cup {x}
    /\ UNCHANGED <<role, attached, direct, told, mixed>>

RemoveRole(x) ==
    /\ x \in assigned
    /\ assigned' = assigned \ {x}
    /\ UNCHANGED <<role, attached, direct, told, mixed>>

\* RemovePermission.
RemovePermission(p) ==
    /\ direct[p] # "none"
    /\ direct' = [direct EXCEPT ![p] = "none"]
    /\ told' = [told EXCEPT ![p] = "none"]
    /\ mixed' = IF \E r \in Slots : At(r, "write") /\ req[r].perm = p
                  THEN mixed \cup {p} ELSE mixed
    /\ UNCHANGED <<role, attached, assigned>>

\* The requests that are one statement, in a slot or out of one.
OneStatement(x, p) ==
    /\ begun < MaxRequests
    /\ begun' = begun + 1
    /\ UNCHANGED faults
    /\ DetachPermission(x, p) \/ AssignRole(x) \/ RemoveRole(x) \/ RemovePermission(p)
    /\ req' = Witnessed(req)

HandleGrantPermission(r, p, effect) ==
    /\ Begin(r, [pc |-> "upsert", perm |-> p, effect |-> effect, found |-> FALSE])
    /\ UNCHANGED accessVars

\* Grant and Deny look for the row ...
Upsert(r) ==
    /\ At(r, "upsert")
    /\ Become(r, [req[r] EXCEPT !.pc = "write", !.found = direct[req[r].perm] # "none"])
    /\ UNCHANGED accessVars

\* Mutant of Written: a row that is there stays as it is.
WrittenIfNew(q) == IF direct[q.perm] = "none" THEN q.effect ELSE direct[q.perm]

\* ... insert it, the key refusing a second one, or update it, if it still is
\* there.
Written(q) ==
    IF q.found <=> direct[q.perm] # "none" THEN q.effect ELSE direct[q.perm]

UpsertWrite(r) ==
    LET p == req[r].perm
    IN  /\ At(r, "write")
        /\ direct' = [direct EXCEPT ![p] = Written(req[r])]
        /\ told' = [told EXCEPT ![p] = req[r].effect]
        /\ mixed' = IF \E s \in Others(r) : At(s, "write") /\ req[s].perm = p
                      THEN mixed \cup {p} ELSE mixed
        /\ UNCHANGED <<role, attached, assigned>>
        /\ Write(r, Idle)

HandleEffectivePermissions(r) ==
    /\ Begin(r, [pc |-> "effective", allowed |-> {}, ever |-> {}, changes |-> 0])
    /\ UNCHANGED accessVars

\* GetEffectivePermissions reads the roles, ...
EffectiveRoles(r) ==
    /\ At(r, "effective")
    /\ Become(r, [pc |-> "overrides", allowed |-> RolePermissions,
                  ever |-> Effective, changes |-> 0])
    /\ UNCHANGED accessVars

\* ... then the direct permissions.
EffectiveOverrides(r) ==
    /\ At(r, "overrides")
    /\ Finish(r)
    /\ UNCHANGED accessVars

-----------------------------------------------------------------------------

AccessControlHandlers(r) ==
    \/ \E x \in Roles :
        \/ HandleCreateRole(r, x) \/ HandleUpdateRole(r, x) \/ HandleDeleteRole(r, x)
        \/ \E p \in Permissions : HandleAttachPermission(r, x, p)
    \/ \E p \in Permissions, e \in {"allow", "deny"} : HandleGrantPermission(r, p, e)
    \/ HandleEffectivePermissions(r)

AccessControlNext ==
    \/ \E r \in Slots :
        \/ AccessControlHandlers(r)
        \/ CreateRole(r) \/ UpdateRole(r) \/ SaveRole(r) \/ DeleteRole(r)
        \/ AttachPermission(r) \/ Attach(r)
        \/ Upsert(r) \/ UpsertWrite(r)
        \/ EffectiveRoles(r) \/ EffectiveOverrides(r)
        \/ Abort(r) /\ UNCHANGED accessVars
    \/ \E x \in Roles, p \in Permissions : OneStatement(x, p)

AccessControlSpec ==
    /\ AccessControlInit /\ RequestsInit
    /\ [][AccessControlNext]_<<accessVars, requestVars>>

-----------------------------------------------------------------------------
(* Properties *)

\* GetEffectivePermissions reports a permission only if the user had it at some
\* moment between its two queries, unless two changes or more came between.
ReportedWasEffective ==
    \A r \in Slots :
        At(r, "overrides") /\ req[r].changes <= 1
            => Override(req[r].allowed) \subseteq req[r].ever

\* A direct permission is what the last request on it said, if no other request
\* wrote it between the query and the write of one.
LastDecisionStands == \A p \in Permissions \ mixed : direct[p] = told[p]

\* Decisions are reported and kept: ReportedWasEffective and LastDecisionStands.
DecisionsHold == ReportedWasEffective /\ LastDecisionStands

\* A request that reads the effective permissions has those of the roles as
\* they are, while nothing has changed; ...
ReadersAreUpToDate ==
    \A r \in Slots :
        At(r, "overrides") /\ req[r].changes = 0 => req[r].allowed = RolePermissions

\* ... and one that writes a direct permission knows whether there is a row, if
\* nothing was written between.
WritersHaveSeen ==
    \A r \in Slots :
        At(r, "write") /\ req[r].perm \notin mixed
            => (req[r].found <=> direct[req[r].perm] # "none")

\* Of these DecisionsHold follows, and with the types they are inductive.
DecisionsInv ==
    /\ AccessControlTypeOK
    /\ DecisionsHold
    /\ ReadersAreUpToDate
    /\ WritersHaveSeen
=============================================================================
