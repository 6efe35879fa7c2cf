------------------------------- MODULE Settings -------------------------------
(***************************************************************************)
(* What an administrator sets, settings and feature flags: two components  *)
(* that share nothing but the way requests are served.                     *)
(***************************************************************************)
EXTENDS Requests, Integers, Sequences

(***************************************************************************)
(* Settings of an organization and of its users:                           *)
(* internal/service/settings.go, its handler, the two repositories and     *)
(* domain/system_settings.go.                                              *)
(*                                                                         *)
(* A row is one JSON object.  An update reads it, merges the new keys in   *)
(* memory and upserts all of it: of two updates that overlap the second    *)
(* takes back the keys of the first.  The defaults of an organization are  *)
(* in effect only until its row exists: the first update of any key, which *)
(* merges into an empty object, takes the others away.                     *)
(***************************************************************************)

CONSTANTS
    Members,        \* users of the organization
    UserKeys,       \* keys that a user may set,
    SystemKeys,     \* that an administrator may set,
    FixedKeys       \* and that are only among the defaults (app_name)

ASSUME KeysAssumption == UserKeys \cap (SystemKeys \cup FixedKeys) = {}
ASSUME MembersAssumption == "system" \notin Members

VARIABLES
    kept,       \* the object of each user and of the system, empty without a row
    sent,       \* history: the value last acknowledged for each key of each row,
    merged      \* and the rows written between the statements of another update

settingsVars == <<kept, sent, merged>>

Owners == Members \cup {"system"}
Keys == UserKeys \cup SystemKeys \cup FixedKeys
Value == 0..MaxRequests     \* 0 is the default
Objects == UNION {[K -> Value] : K \in SUBSET Keys}
NoKeys == [k \in {} |-> 0]

SettingsRequest ==
    [pc : {"readsettings", "upsert"}, owner : Owners, updates : Objects, object : Objects]

SettingsTypeOK ==
    /\ kept \in [Owners -> Objects]
    /\ sent \in [Owners -> Objects]
    /\ merged \subseteq Owners
    /\ RequestsAre(SettingsRequest)

SettingsInit ==
    /\ kept = [o \in Owners |-> NoKeys]
    /\ sent = [o \in Owners |-> NoKeys]
    /\ merged = {}

-----------------------------------------------------------------------------

\* The keys of b over those of a.
Over(a, b) == [k \in DOMAIN a \cup DOMAIN b |-> IF k \in DOMAIN b THEN b[k] ELSE a[k]]

FindByUserIDAndOrgID(u) == kept[u]
FindByOrgID == kept["system"]

\* ON CONFLICT, the settings are those of the request.
Upsert(o, object) == kept' = [kept EXCEPT ![o] = object]

DefaultSystemSettings == [k \in SystemKeys \cup FixedKeys |-> 0]

-----------------------------------------------------------------------------
(* UpdateUserSettings and UpdateSystemSettings *)

\* Mutant of UserKeysOnly: no key is refused.
AnyKeys(K) == TRUE

\* validateSettingsContent refuses a key that is not the user's.
UserKeysOnly(K) == K \subseteq UserKeys
SystemKeysOnly(K) == K \subseteq SystemKeys

SettingsCall(o, K) ==
    [pc |-> "readsettings", owner |-> o, updates |-> [k \in K |-> begun + 1],
     object |-> NoKeys]

HandleUpdateUserSettings(r, u, K) ==
    /\ UserKeysOnly(K)
    /\ Begin(r, SettingsCall(u, K))
    /\ UNCHANGED settingsVars

HandleUpdateSystemSettings(r, K) ==
    /\ SystemKeysOnly(K)
    /\ Begin(r, SettingsCall("system", K))
    /\ UNCHANGED settingsVars

\* Mutant of Merged: the new keys alone.
Replaced(object, updates) == updates

Merged(object, updates) == Over(object, updates)

UpdateUserSettings(r) ==
    LET q == req[r]
    IN  /\ At(r, "readsettings") /\ q.owner # "system"
        /\ Become(r, [q EXCEPT !.pc = "upsert",
                               !.object = Merged(FindByUserIDAndOrgID(q.owner), q.updates)])
        /\ UNCHANGED settingsVars

UpdateSystemSettings(r) ==
    LET q == req[r]
    IN  /\ At(r, "readsettings") /\ q.owner = "system"
        /\ Become(r, [q EXCEPT !.pc = "upsert", !.object = Merged(FindByOrgID, q.updates)])
        /\ UNCHANGED settingsVars

\* The response reads the row once more.
UpsertSettings(r) ==
    LET q == req[r]
        o == q.owner
    IN  /\ At(r, "upsert")
        /\ Upsert(o, q.object)
        /\ sent' = [sent EXCEPT ![o] = Over(@, q.updates)]
        /\ merged' = IF \E s \in Others(r) : At(s, "upsert") /\ req[s].owner = o
                     THEN merged \cup {o} ELSE merged
        /\ Finish(r)

-----------------------------------------------------------------------------

SettingsNext ==
    \E r \in Slots :
        \/ \E u \in Members, K \in SUBSET Keys \ {{}} : HandleUpdateUserSettings(r, u, K)
        \/ \E K \in SUBSET Keys \ {{}} : HandleUpdateSystemSettings(r, K)
        \/ UpdateUserSettings(r) \/ UpdateSystemSettings(r) \/ UpsertSettings(r)
        \/ Abort(r) /\ UNCHANGED settingsVars

-----------------------------------------------------------------------------
(* Properties *)

\* What a reader is shown.
GetUserSettings(u) == FindByUserIDAndOrgID(u)
GetSystemSettings == IF FindByOrgID = NoKeys THEN DefaultSystemSettings ELSE FindByOrgID
GetEffectiveSettings(u) == Over(GetSystemSettings, FindByUserIDAndOrgID(u))

\* A value that was acknowledged is the one that is shown until another update
\* of its key, however many updates of other keys come between, unless two
\* updates of the row overlapped.
UpdatesStand ==
    /\ \A u \in Members \ merged : GetUserSettings(u) = sent[u]
    /\ "system" \notin merged /\ sent["system"] # NoKeys => GetSystemSettings = sent["system"]

\* What is in effect for a user comes from the administrators but for the keys
\* that are his to set, and those are never another user's.
UsersSetTheirOwn ==
    \A u \in Members : \A k \in DOMAIN GetEffectiveSettings(u) :
        LET value == GetEffectiveSettings(u)[k]
        IN  IF k \in UserKeys THEN value = GetUserSettings(u)[k]
            ELSE k \in DOMAIN GetSystemSettings /\ value = GetSystemSettings[k]

\* Before the first update of an organization all its defaults are in effect;
\* after it, a default that nobody changed is in effect no more.
DefaultsUntilFirstUpdate ==
    \A u \in Members, k \in SystemKeys \cup FixedKeys :
        k \in DOMAIN GetEffectiveSettings(u) /\ GetEffectiveSettings(u)[k] = 0
            <=> FindByOrgID = NoKeys

SettingsHold == UpdatesStand /\ UsersSetTheirOwn /\ DefaultsUntilFirstUpdate

-----------------------------------------------------------------------------
(* The inductive invariant of settings *)

\* An object of o has no key that is not his to set, and none with a default.
IsOwn(object, o) ==
    /\ DOMAIN object \subseteq IF o = "system" THEN SystemKeys ELSE UserKeys
    /\ \A k \in DOMAIN object : object[k] # 0

KeptIsOwn == \A o \in Owners : IsOwn(kept[o], o)

\* What is stored is what was acknowledged.
SentIsKept == \A o \in Owners \ merged : kept[o] = sent[o]

\* An update that is about to write has the present row with its keys in it, unless
\* another wrote the row after it was read.
MergedIsCurrent(q) ==
    /\ q.pc \in {"readsettings", "upsert"} => IsOwn(q.updates, q.owner)
    /\ q.pc = "upsert" =>
        /\ IsOwn(q.object, q.owner)
        /\ q.owner \notin merged => q.object = Over(kept[q.owner], q.updates)

SettingsInv ==
    /\ SettingsTypeOK
    /\ KeptIsOwn
    /\ SentIsKept
    /\ \A r \in Slots : MergedIsCurrent(req[r])

SettingsSpec ==
    SettingsInit /\ RequestsInit /\ [][SettingsNext]_<<settingsVars, requestVars>>

-----------------------------------------------------------------------------
(***************************************************************************)
(* Feature flags: internal/service/feature_flag.go, its handler, its       *)
(* repository and domain/feature_flag.go.                                  *)
(*                                                                         *)
(* The rows of one key, of which one at most is live.  A user gets the     *)
(* flag if the hash of his id and the key, modulo 100, is below the        *)
(* rollout, and if the conditions of the flag let him: they restrict every *)
(* rollout, the full one included, where section 6 of                      *)
(* specs/013-feature-flags/spec.md has them admit users beyond it.  The    *)
(* model knows a user by this number, of which there are "Full" (100).     *)
(***************************************************************************)

CONSTANTS
    Full,           \* the full rollout
    Groups,         \* organizations
    NoGroup,
    MaxFlags        \* bound on the rows

ASSUME FullAssumption == Full \in Nat \ {0}
ASSUME NoGroupAssumption == NoGroup \notin Groups
ASSUME MaxFlagsAssumption == MaxFlags \in Nat \ {0}    \* a system flag has room

VARIABLES
    flags,      \* the rows, by the order of their insertion
    wanted,     \* history: what the last successful request about each field of
                \* each row named for it,
    stale       \* and the rows written while another request held a copy

flagVars == <<flags, wanted, stale>>

Users == 0..(Full - 1)
Envs == {"production", "staging"}

\* The lists of the conditions, {} for one that is missing or empty.
Conditions == [users : SUBSET Users, orgs : SUBSET Groups, envs : SUBSET Envs]
NoConditions == [users |-> {}, orgs |-> {}, envs |-> {}]

\* Those that the requests of the model have, each next to the one it hides.
TriedConditions ==
    {NoConditions,
     [NoConditions EXCEPT !.users = {0}],
     [NoConditions EXCEPT !.orgs = Groups, !.envs = {"staging"}]}

Flag == [enabled : BOOLEAN, rollout : 0..Full, conditions : TriedConditions,
         system : BOOLEAN, deleted : BOOLEAN]

\* A creation that asks for a rollout of zero is not told from one that names none: the
\* field of the request is no pointer.
Unnamed == -1

\* A row as it was asked for, and what it is then to be.
AskedFlag == [enabled : BOOLEAN, rollout : (0..Full) \cup {Unnamed},
              conditions : TriedConditions, system : BOOLEAN, deleted : BOOLEAN]
Given(asked) == [asked EXCEPT !.rollout = IF @ = Unnamed THEN Full ELSE @]

FlagRequest ==
    [pc : {"key", "insertflag", "findflag", "saveflag", "dropflag", "softflag"},
     id : 0..MaxFlags, field : {"none", "enabled", "rollout", "conditions"},
     row : Flag, copy : Seq(Flag)]

FeatureFlagsTypeOK ==
    /\ flags \in Seq(Flag) /\ Len(flags) <= MaxFlags
    /\ wanted \in Seq(AskedFlag) /\ Len(wanted) = Len(flags)
    /\ stale \subseteq DOMAIN flags
    /\ RequestsAre(FlagRequest)

SystemFlag == [enabled |-> TRUE, rollout |-> Full, conditions |-> NoConditions,
               system |-> TRUE, deleted |-> FALSE]

\* A system flag is put into the table by hand.
FeatureFlagsInit ==
    /\ flags \in {<<>>, <<SystemFlag>>}
    /\ wanted = flags
    /\ stale = {}

-----------------------------------------------------------------------------
(* The repository *)

Flag_FindByID(f) == f \in DOMAIN flags /\ ~flags[f].deleted
Flag_FindByKey == {f \in DOMAIN flags : Flag_FindByID(f)}
Flag_FindAll == Flag_FindByKey

\* gorm gives a field that is zero the default of its tag: a flag created with a
\* rollout of zero is rolled out to everybody.
Flag_Create(row) ==
    /\ flags' = Append(flags, [row EXCEPT !.rollout = IF @ = 0 THEN Full ELSE @])
    /\ wanted' = Append(wanted, [row EXCEPT !.rollout = IF @ = 0 THEN Unnamed ELSE @])

Flag_Save(f, row) == flags' = [flags EXCEPT ![f] = row]

\* History: a request writes the row of f while another holds a copy.
Stale(r, f) ==
    stale' = IF \E s \in Others(r) :
                    ~At(s, "idle") /\ req[s].id = f /\ req[s].copy # <<>>
             THEN stale \cup {f} ELSE stale

-----------------------------------------------------------------------------
(* Create *)

HandleCreateFlag(r, enabled, rollout, conditions) ==
    /\ Begin(r, [pc |-> "key", id |-> 0, field |-> "none", copy |-> <<>>,
                 row |-> [enabled |-> enabled, rollout |-> rollout,
                          conditions |-> conditions, system |-> FALSE,
                          deleted |-> FALSE]])
    /\ UNCHANGED flagVars

CreateFlag(r) ==
    /\ At(r, "key")
    /\ IF Flag_FindByKey = {} THEN Goto(r, "insertflag") ELSE Finish(r)
    /\ UNCHANGED flagVars

\* The index on the live keys refuses the second of two.
InsertFlag(r) ==
    /\ At(r, "insertflag")
    /\ Len(flags) < MaxFlags
    /\ IF Flag_FindByKey = {} THEN Flag_Create(req[r].row) ELSE UNCHANGED <<flags, wanted>>
    /\ Finish(r)
    /\ UNCHANGED stale

-----------------------------------------------------------------------------
(* Update and Delete *)

FlagCall(label, f, field, row) ==
    [pc |-> label, id |-> f, field |-> field, row |-> row, copy |-> <<>>]

\* A request that sets one field; "row" has the new value in it.
HandleUpdateFlag(r, f, field, row) ==
    Begin(r, FlagCall("findflag", f, field, row)) /\ UNCHANGED flagVars

UpdateFlag(r) ==
    LET f == req[r].id
    IN  /\ At(r, "findflag")
        /\ IF Flag_FindByID(f)
           THEN Become(r, [req[r] EXCEPT !.pc = "saveflag", !.copy = <<flags[f]>>])
           ELSE Finish(r)
        /\ UNCHANGED flagVars

\* Mutant of With: a rollout of zero is taken for a missing one.
WithNonZero(row, q) ==
    [row EXCEPT ![q.field] = IF q.field = "rollout" /\ q.row.rollout = 0 THEN @
                             ELSE q.row[q.field]]

With(row, q) == [row EXCEPT ![q.field] = q.row[q.field]]

\* The row comes back if it was deleted, unless another took the key.
SaveFlag(r) ==
    LET q == req[r]
    IN  /\ At(r, "saveflag")
        /\ IF Flag_FindByKey \subseteq {q.id}
           THEN /\ Flag_Save(q.id, With(q.copy[1], q))
                /\ wanted' = [wanted EXCEPT ![q.id][q.field] = q.row[q.field]]
                /\ Stale(r, q.id)
           ELSE UNCHANGED flagVars
        /\ Finish(r)

HandleDeleteFlag(r, f) ==
    Begin(r, FlagCall("dropflag", f, "none", SystemFlag)) /\ UNCHANGED flagVars

\* Mutant of Deletable: whatever the flag is.
DeletableAlways(f) == Flag_FindByID(f)

\* A system flag cannot be deleted.
Deletable(f) == Flag_FindByID(f) /\ ~flags[f].system

DeleteFlag(r) ==
    /\ At(r, "dropflag")
    /\ IF Deletable(req[r].id) THEN Goto(r, "softflag") ELSE Finish(r)
    /\ UNCHANGED flagVars

SoftDeleteFlag(r) ==
    LET f == req[r].id
    IN  /\ At(r, "softflag")
        /\ IF ~flags[f].deleted
           THEN /\ Flag_Save(f, [flags[f] EXCEPT !.deleted = TRUE])
                /\ wanted' = [wanted EXCEPT ![f].deleted = TRUE]
                /\ Stale(r, f)
           ELSE UNCHANGED flagVars
        /\ Finish(r)

-----------------------------------------------------------------------------
(* Evaluation *)

\* The first list that is there decides, a list of organizations only for a
\* request that has one.  The environment is always "production".
EvaluateConditions(c, u, g) ==
    \/ c = NoConditions
    \/ u \in c.users
    \/ c.users = {} /\ g # NoGroup /\ g \in c.orgs
    \/ c.users = {} /\ (g = NoGroup \/ c.orgs = {}) /\ "production" \in c.envs

\* Mutant of InRollout: from the other end.
InRolloutTop(row, u) == u >= row.rollout

InRollout(row, u) == u < row.rollout

EvaluateFlag(row, u, g) ==
    /\ row.enabled
    /\ row.rollout # 0
    /\ row.rollout = Full \/ InRollout(row, u)
    /\ EvaluateConditions(row.conditions, u, g)

\* Code asks with IsEnabled, requests by a key or for all flags.
IsEnabled(u) == \E f \in Flag_FindByKey : EvaluateFlag(flags[f], u, NoGroup)
IsEnabledWithReason(u, g) == \E f \in Flag_FindByKey : EvaluateFlag(flags[f], u, g)
EvaluateAll(u, g) == [f \in Flag_FindAll |-> EvaluateFlag(flags[f], u, g)]

-----------------------------------------------------------------------------

FlagHandlers(r) ==
    \/ \E e \in BOOLEAN, n \in 0..Full, c \in TriedConditions : HandleCreateFlag(r, e, n, c)
    \/ \E f \in DOMAIN flags :
        \/ HandleDeleteFlag(r, f)
        \/ \E e \in BOOLEAN :
                HandleUpdateFlag(r, f, "enabled", [SystemFlag EXCEPT !.enabled = e])
        \/ \E n \in 0..Full :
                HandleUpdateFlag(r, f, "rollout", [SystemFlag EXCEPT !.rollout = n])
        \/ \E c \in TriedConditions :
                HandleUpdateFlag(r, f, "conditions", [SystemFlag EXCEPT !.conditions = c])

FeatureFlagsNext ==
    \E r \in Slots :
        \/ FlagHandlers(r)
        \/ CreateFlag(r) \/ InsertFlag(r)
        \/ UpdateFlag(r) \/ SaveFlag(r)
        \/ DeleteFlag(r) \/ SoftDeleteFlag(r)
        \/ Abort(r) /\ UNCHANGED flagVars

FeatureFlagsSpec ==
    FeatureFlagsInit /\ RequestsInit /\ [][FeatureFlagsNext]_<<flagVars, requestVars>>

-----------------------------------------------------------------------------
(* Properties *)

\* What GetByID, GetByKey and List show.
Flag_GetByID(f) == IF Flag_FindByID(f) THEN {flags[f]} ELSE {}
Flag_GetByKey == {flags[f] : f \in Flag_FindByKey}
ShownFlags == {<<f, flags[f]>> : f \in Flag_FindAll}

\* One flag at most answers for a key, whatever the ways to ask, and it is the
\* one an administrator is shown; without an organization they agree.  A system
\* flag stays.
FlagsAnswerAlike ==
    /\ Cardinality(ShownFlags) <= 1
    /\ \A f \in DOMAIN flags : Flag_GetByID(f) \subseteq Flag_GetByKey
    /\ \A u \in Users :
        /\ IsEnabled(u) <=> \E row \in Flag_GetByKey : EvaluateFlag(row, u, NoGroup)
        /\ IsEnabled(u) <=> IsEnabledWithReason(u, NoGroup)
        /\ \A g \in Groups \cup {NoGroup} :
            IsEnabledWithReason(u, g) <=> \E f \in Flag_FindAll : EvaluateAll(u, g)[f]
    /\ \A f \in DOMAIN flags : flags[f].system => Flag_FindByID(f)

\* An operator gets what he asked for, field by field, unless a request wrote the
\* row while another held a copy of it; of a rollout that the creation does not
\* name (or names as zero, which reads the same) the default, which is the full
\* one.  A rollout that was changed to zero is for nobody, and the users of a
\* rollout are the first ones, so that a larger one takes it from nobody.
OperatorsGetWhatTheyAsk ==
    \A f \in DOMAIN flags \ stale :
        /\ flags[f] = Given(wanted[f])
        /\ wanted[f].rollout = 0 => \A u \in Users : ~IsEnabled(u) \/ flags[f].deleted
        /\ \A u \in Users, v \in Users :
            u < v /\ flags[f].conditions = NoConditions /\ EvaluateFlag(flags[f], v, NoGroup)
                => EvaluateFlag(flags[f], u, NoGroup)

FlagsHold == FlagsAnswerAlike /\ OperatorsGetWhatTheyAsk

-----------------------------------------------------------------------------
(* The inductive invariant of flags *)

\* One row of the key at most is live, and one of the system is.
OneFlagIsLive ==
    /\ \A f, g \in DOMAIN flags : Flag_FindByID(f) /\ Flag_FindByID(g) => f = g
    /\ \A f \in DOMAIN flags : flags[f].system => ~flags[f].deleted

WantedIsStored == \A f \in DOMAIN flags \ stale : flags[f] = Given(wanted[f])

\* What a request knows of the row that it is about: it names one field of it, its copy
\* was live, and is the row unless another wrote it meanwhile; the row it is about to
\* delete is not of the system.
KnowsItsFlag(q) ==
    /\ q.pc \in {"key", "insertflag"} => ~q.row.system /\ ~q.row.deleted
    /\ q.pc \in {"findflag", "saveflag", "dropflag", "softflag"} => q.id \in DOMAIN flags
    /\ q.pc \in {"findflag", "saveflag"} => q.field # "none"
    /\ q.pc = "saveflag" =>
        /\ q.copy # <<>> /\ ~q.copy[1].deleted
        /\ q.copy[1].system = flags[q.id].system
        /\ q.id \notin stale => q.copy[1] = flags[q.id]
    /\ q.pc = "softflag" => ~flags[q.id].system

FeatureFlagsInv ==
    /\ FeatureFlagsTypeOK
    /\ OneFlagIsLive
    /\ WantedIsStored
    /\ \A r \in Slots : KnowsItsFlag(req[r])

=============================================================================
