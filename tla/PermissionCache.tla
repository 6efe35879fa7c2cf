---------------------------- MODULE PermissionCache ----------------------------
(***************************************************************************)
(* One decision of the Casbin enforcer, "may this user do this", along the *)
(* way it takes: the policy in the database, the memory of the enforcer of *)
(* each instance, and the decision cached in Redis for all of them.        *)
(* internal/permission, internal/http/middleware/permission.go and the     *)
(* commands of cmd/api/main.go that rewrite the policies.                  *)
(*                                                                         *)
(* A change is written to the database and to the memory of the instance   *)
(* that makes it.  The listener of an instance clears the cache and loads  *)
(* the policies when a message arrives, but no code publishes one: Publish *)
(* stands for an operator who does.  What is left is the expiry of a       *)
(* cached decision and the load when a process starts.                     *)
(***************************************************************************)
EXTENDS Requests

CONSTANTS
    CacheInstances,     \* API processes
    MaxPolicyChanges,   \* bound on changes of the policy
    MaxReloads          \* bound on messages, restarts and commands

ASSUME PermissionCacheBoundsAssumption == MaxPolicyChanges \in Nat /\ MaxReloads \in Nat

VARIABLES
    policy,     \* casbin_rule: the action is allowed
    known,      \* the same, in the memory of each instance
    cached,     \* the decision in Redis: none, yes or no
    listener,   \* what the listener of each instance is doing,
    inbox,      \* and whether it has a message
    command,    \* permission:sync or seed: the policies it has loaded
    policyChanges,
    reloads,
    changedBy,  \* history: the instance that made the last change, if a load
    raced       \* or command did not cross it

permVars == <<policy, known, cached, listener, inbox, command,
              policyChanges, reloads, changedBy, raced>>

-----------------------------------------------------------------------------
(* Types *)

Decision == {"none", "yes", "no"}
Answer(b) == IF b THEN "yes" ELSE "no"

Check == [pc : {"get", "enforce", "set"}, by : CacheInstances, decision : Decision]

Listener == [pc : {"idle", "clear", "load", "swap"}, loaded : BOOLEAN]

PermissionCacheTypeOK ==
    /\ policy \in BOOLEAN
    /\ known \in [CacheInstances -> BOOLEAN]
    /\ cached \in Decision
    /\ RequestsAre(Check)
    /\ listener \in [CacheInstances -> Listener]
    /\ inbox \in [CacheInstances -> BOOLEAN]
    /\ command \in Decision
    /\ policyChanges \in 0..MaxPolicyChanges
    /\ reloads \in 0..MaxReloads
    /\ changedBy \in SUBSET CacheInstances
    /\ raced \in BOOLEAN

NotListening == [pc |-> "idle", loaded |-> FALSE]

PermissionCacheInit ==
    /\ policy \in BOOLEAN
    /\ known = [i \in CacheInstances |-> policy]
    /\ cached = "none"
    /\ listener = [i \in CacheInstances |-> NotListening]
    /\ inbox = [i \in CacheInstances |-> FALSE]
    /\ command = "none"
    /\ policyChanges = 0
    /\ reloads = 0
    /\ changedBy = {}
    /\ raced = FALSE

-----------------------------------------------------------------------------
(* A check: the Permission middleware and EnforceWithCache *)

PolicyUnchanged == UNCHANGED <<policy, known, listener, inbox, command,
                               policyChanges, reloads, changedBy, raced>>

\* Permission: a user with claims asks at some instance.
Permission(r) ==
    /\ \E i \in CacheInstances : Begin(r, [pc |-> "get", by |-> i, decision |-> "none"])
    /\ PolicyUnchanged
    /\ UNCHANGED cached

\* Get: a hit decides; a miss, or an error of Redis, goes on.
CacheGet(r) ==
    /\ At(r, "get")
    /\ \/ cached # "none" /\ Finish(r)
       \/ Goto(r, "enforce")
    /\ PolicyUnchanged
    /\ UNCHANGED cached

\* EnforceWithCache: the memory of the instance decides ...
EnforceWithCache(r) ==
    /\ At(r, "enforce")
    /\ Become(r, [req[r] EXCEPT !.pc = "set", !.decision = Answer(known[req[r].by])])
    /\ PolicyUnchanged
    /\ UNCHANGED cached

\* ... and Set keeps the decision, unless Redis fails.
CacheSet(r) ==
    /\ At(r, "set")
    /\ cached' \in {cached, req[r].decision}
    /\ Finish(r)
    /\ PolicyUnchanged

\* Mutant of Expire: a decision is kept without a time to live.
ExpireNever ==
    /\ cached # "none"
    /\ UNCHANGED <<cached, requestVars>>
    /\ PolicyUnchanged

\* A cached decision runs out after PermissionTTL.
Expire ==
    /\ cached # "none"
    /\ cached' = "none"
    /\ UNCHANGED requestVars
    /\ PolicyUnchanged

-----------------------------------------------------------------------------
(* Changes of the policy *)

\* The loads and commands that cross a change.
Crosses ==
    command # "none" \/ \E i \in CacheInstances : listener[i].pc = "swap"

\* Mutant of ChangePolicy: the database is left as it is.
ChangeInMemory(i) ==
    /\ policyChanges < MaxPolicyChanges
    /\ policyChanges' = policyChanges + 1
    /\ known' = [known EXCEPT ![i] = ~@]
    /\ changedBy' = {i}
    /\ raced' = Crosses
    /\ UNCHANGED <<policy, cached, listener, inbox, command, reloads, requestVars>>

\* AddPolicy and RemovePolicy, called by the organizations.  AddPolicy does
\* nothing if the instance has the policy in memory, RemovePolicy always
\* deletes it from the database.
ChangePolicy(i) ==
    /\ policyChanges < MaxPolicyChanges
    /\ policyChanges' = policyChanges + 1
    /\ \/ ~known[i] /\ policy' = TRUE /\ known' = [known EXCEPT ![i] = TRUE]
       \/ policy' = FALSE /\ known' = [known EXCEPT ![i] = FALSE]
    /\ changedBy' = {i}
    /\ raced' = Crosses
    /\ UNCHANGED <<cached, listener, inbox, command, reloads, requestVars>>

\* permission:sync and seed load the policies, add those of the manifest ...
CommandLoads ==
    /\ command = "none"
    /\ reloads < MaxReloads
    /\ reloads' = reloads + 1
    /\ command' = Answer(policy)
    /\ UNCHANGED <<policy, known, cached, listener, inbox, policyChanges,
                   changedBy, raced, requestVars>>

\* ... and SavePolicy empties the table and writes what they have in memory:
\* what was changed meanwhile is undone.
CommandSaves ==
    /\ command # "none"
    /\ policy' = (command = "yes")
    /\ command' = "none"
    /\ UNCHANGED <<known, cached, listener, inbox, policyChanges, reloads,
                   changedBy, raced, requestVars>>

-----------------------------------------------------------------------------
(* Invalidation *)

\* PublishInvalidate: those that do not hear it miss it.
PublishInvalidate ==
    /\ reloads < MaxReloads
    /\ reloads' = reloads + 1
    /\ \E heard \in SUBSET CacheInstances :
        inbox' = [i \in CacheInstances |-> inbox[i] \/ i \in heard]
    /\ UNCHANGED <<policy, known, cached, listener, command, policyChanges,
                   changedBy, raced, requestVars>>

\* SubscribeInvalidation: the listener takes a message ...
SubscribeInvalidation(i) ==
    /\ inbox[i]
    /\ listener[i].pc = "idle"
    /\ inbox' = [inbox EXCEPT ![i] = FALSE]
    /\ listener' = [listener EXCEPT ![i].pc = "clear"]
    /\ UNCHANGED <<policy, known, cached, command, policyChanges, reloads,
                   changedBy, raced, requestVars>>

\* ... clears the cache, an error passed over ...
InvalidateAll(i) ==
    /\ listener[i].pc = "clear"
    /\ cached' \in {cached, "none"}
    /\ listener' = [listener EXCEPT ![i].pc = "load"]
    /\ UNCHANGED <<policy, known, inbox, command, policyChanges, reloads,
                   changedBy, raced, requestVars>>

\* ... reads the policies into a new model, or fails ...
LoadModel(i) ==
    /\ listener[i].pc = "load"
    /\ listener' \in {[listener EXCEPT ![i] = [pc |-> "swap", loaded |-> policy]],
                      [listener EXCEPT ![i] = NotListening]}
    /\ UNCHANGED <<policy, known, cached, inbox, command, policyChanges,
                   reloads, changedBy, raced, requestVars>>

\* ... and puts the new model in the place of the old one.
SwapModel(i) ==
    /\ listener[i].pc = "swap"
    /\ known' = [known EXCEPT ![i] = listener[i].loaded]
    /\ listener' = [listener EXCEPT ![i] = NotListening]
    /\ UNCHANGED <<policy, cached, inbox, command, policyChanges, reloads,
                   changedBy, raced, requestVars>>

\* NewEnforcer: a process that starts loads the policies.
NewEnforcer(i) ==
    /\ reloads < MaxReloads
    /\ reloads' = reloads + 1
    /\ known' = [known EXCEPT ![i] = policy]
    /\ inbox' = [inbox EXCEPT ![i] = FALSE]
    /\ listener' = [listener EXCEPT ![i] = NotListening]
    /\ req' = [r \in Slots |-> IF At(r, "idle") \/ req[r].by # i THEN req[r] ELSE Idle]
    /\ UNCHANGED <<policy, cached, command, policyChanges, changedBy, raced, begun, faults>>

-----------------------------------------------------------------------------

Checking(r) == CacheGet(r) \/ EnforceWithCache(r) \/ CacheSet(r)

PermissionCacheNext ==
    \/ \E r \in Slots : Permission(r) \/ Checking(r)
    \/ Expire
    \/ \E i \in CacheInstances :
        \/ ChangePolicy(i) \/ SubscribeInvalidation(i) \/ InvalidateAll(i)
        \/ LoadModel(i) \/ SwapModel(i) \/ NewEnforcer(i)
    \/ CommandLoads \/ CommandSaves \/ PublishInvalidate

\* A check that has begun goes on, and Redis drops a decision that is too old.
PermissionCacheFairness ==
    /\ \A r \in Slots : WF_<<permVars, requestVars>>(Checking(r))
    /\ WF_<<permVars, requestVars>>(Expire)

PermissionCacheSpec ==
    /\ PermissionCacheInit /\ RequestsInit
    /\ [][PermissionCacheNext]_<<permVars, requestVars>>
    /\ PermissionCacheFairness

-----------------------------------------------------------------------------
(* Properties *)

AllKnow == \A i \in CacheInstances : known[i] = policy

\* Once every instance knows the policy, the decisions cached under an older
\* one run out, those that were taken before a clear and kept after it, too.
StaleDecisionsRunOut ==
    (<>[]AllKnow) => <>[](cached \in {"none", Answer(policy)})

\* What an instance has granted or taken back is in the database as it is in
\* its memory, unless a load or a command that rewrites the table had read the
\* policies before the change.
ChangesAreStored ==
    \A i \in changedBy : ~raced => known[i] = policy

\* Why: one instance made the last change, and whoever has read the policies since
\* has read this one.
LoadsAreRecent ==
    changedBy # {} /\ ~raced =>
        /\ command \in {"none", Answer(policy)}
        /\ \A i \in CacheInstances : listener[i].pc = "swap" => listener[i].loaded = policy

PermissionCacheInv ==
    PermissionCacheTypeOK /\ ChangesAreStored /\ LoadsAreRecent

=============================================================================
