------------------------------ MODULE MCAccounts ------------------------------
(***************************************************************************)
(* The components about users, and their requests about background jobs,   *)
(* for TLC, one per behaviour: "scope" says which, and the others stay as  *)
(* they are.  "Budget" bounds the requests of each.                        *)
(***************************************************************************)
EXTENDS Organizations, AccessControl, UsersAndKeys, OAuthLogin, TwoFactor, JobRecovery,
        TLC

VARIABLE scope

Budget == [organizations |-> 4, access |-> 6, keys |-> 5, oauth |-> 3, user |-> 7,
           jobs |-> 0]

AccountsInit ==
    /\ OrganizationsInit /\ AccessControlInit /\ UsersAndKeysInit /\ OAuthInit
    /\ TwoFactorInit /\ RecoveryInit
    /\ RequestsInit
    /\ scope \in DOMAIN Budget
    /\ scope = "oauth" \/ \A u \in OAuthUsers : user[u] = "absent"

Within(s) == scope = s /\ UNCHANGED scope /\ begun' <= Budget[s]

AccountsNext ==
    \/ /\ scope = "organizations"
       /\ OrganizationsNext
       /\ begun' <= 3 \/ faults' = 0            \* a fourth request or an error
       /\ Within("organizations")
       /\ UNCHANGED <<accessVars, keyVars, oauthVars, twoFactorVars, allVars>>
    \/ /\ scope = "access"
       /\ AccessControlNext
       /\ Within("access")
       /\ UNCHANGED <<orgVars, keyVars, oauthVars, twoFactorVars, allVars>>
    \/ /\ scope = "keys"
       /\ UsersAndKeysNext
       /\ Within("keys")
       /\ UNCHANGED <<orgVars, accessVars, oauthVars, twoFactorVars, allVars>>
    \/ /\ scope = "oauth"
       /\ OAuthNext
       /\ begun' <= 2 \/ (issued' <= 1 /\ faults' = 0)       \* a third request, or a
                                                \* second code and an error
       /\ Within("oauth")
       /\ UNCHANGED <<orgVars, accessVars, keyVars, twoFactorVars, allVars>>
    \/ /\ scope = "user"
       /\ TwoFactorNext
       /\ Within("user")
       /\ UNCHANGED <<orgVars, accessVars, keyVars, oauthVars, allVars>>
    \/ /\ scope = "jobs"                        \* requests about one job, the reaper,
       /\ RecoveryNext                          \* and steps of any length
       /\ resets' = 0 \/ requests' = 0 \/ jobFaults' = 0       \* two of the three
       /\ \A i, j \in Jobs : job'[i].st # "absent" /\ job'[j].st # "absent" => i = j
       /\ UNCHANGED <<orgVars, accessVars, keyVars, oauthVars, twoFactorVars, requestVars, scope>>

AccountsSpec ==
    AccountsInit /\ [][AccountsNext]_<<orgVars, accessVars, keyVars, oauthVars,
                                       twoFactorVars, allVars, requestVars, scope>>

\* The cfg gives Instances, Keys and Providers the same elements, and the users of
\* all components and Jobs, and Slots and Workers, so that one permutation of them
\* serves all.
Symmetry ==
    Permutations(Slots) \cup Permutations(Users) \cup Permutations(Keys)

=============================================================================
