------------------------------ MODULE MCWorkers ------------------------------
(***************************************************************************)
(* The components that promise to get on, for TLC, one per behaviour:      *)
(* "scope" says which, and the others stay as they are, so that none of    *)
(* their fair steps is ever possible.  "Budget" bounds the requests.  No   *)
(* symmetry: the run checks liveness.                                      *)
(***************************************************************************)
EXTENDS EmailQueue, PermissionCache, ImportJobs, Conversions, JobRecovery

VARIABLE scope

Budget == [email |-> 0, permissions |-> 2, imports |-> 3, conversions |-> 2,
           reaper |-> 0]

WorkersInit ==
    /\ EmailInit /\ PermissionCacheInit /\ ImportJobsInit /\ ConversionsInit
    /\ RecoveryInit /\ RequestsInit
    /\ scope \in DOMAIN Budget
    /\ scope = "permissions" \/ ~policy

Within(s) == UNCHANGED scope /\ begun' <= Budget[s]

WorkersNext ==
    \/ /\ scope = "email"
       /\ EmailNext
       /\ UNCHANGED <<permVars, importVars, conversionVars, allVars, requestVars, scope>>
    \/ /\ scope = "permissions"
       /\ PermissionCacheNext
       /\ policyChanges' <= 1 \/ reloads' = 0      \* a second change or a reload
       /\ Within("permissions")
       /\ UNCHANGED <<emailVars, importVars, conversionVars, allVars>>
    \/ /\ scope = "imports"
       /\ ImportJobsNext
       /\ Within("imports")
       /\ UNCHANGED <<emailVars, permVars, conversionVars, allVars>>
    \/ /\ scope = "conversions"
       /\ ConversionsNext
       /\ Within("conversions")
       /\ UNCHANGED <<emailVars, permVars, importVars, allVars>>
    \/ /\ scope = "reaper"
       /\ ReaperNext
       /\ UNCHANGED <<emailVars, permVars, importVars, conversionVars, requestVars, scope>>

WorkersSpec ==
    /\ WorkersInit
    /\ [][WorkersNext]_<<emailVars, permVars, importVars, conversionVars, allVars, requestVars,
                         scope>>
    /\ EmailFairness /\ PermissionCacheFairness /\ ImportJobsFairness /\ ConversionsFairness
    /\ RecoveryFairness

\* What waits for a worker, a reaper or a clock does not stay as it is: an email does not
\* remain one that the workers may select, an import whose worker noted its start and died
\* does not remain in processing, a conversion does not remain under way, and once the
\* instances agree on the policy what is cached agrees with it too.
WaitingEnds ==
    QueuedIsTaken /\ StaleDecisionsRunOut /\ AbandonedIsRetaken /\ ConversionsEnd

\* The types of the component in scope, and MediaAccounted of Conversions: a
\* conversion is in one place at a time, and no file is left without a medium.
FilesAccounted ==
    /\ scope = "email" => EmailTypeOK
    /\ scope = "permissions" => PermissionCacheTypeOK
    /\ scope = "imports" => ImportJobsTypeOK
    /\ scope = "conversions" => ConversionsTypeOK
    /\ MediaAccounted
=============================================================================
