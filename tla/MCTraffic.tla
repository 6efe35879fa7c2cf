------------------------------ MODULE MCTraffic ------------------------------
(***************************************************************************)
(* Sessions, keys of idempotency, the audit log and exports, for TLC, one  *)
(* component per behaviour: "scope" says which, and the others stay as     *)
(* they are.  "Budget" bounds the requests of each.                        *)
(***************************************************************************)
EXTENDS AuthSessions, Idempotency, AuditLog, ExportJobs, TLC

VARIABLE scope

Budget == [sessions |-> 0, idempotency |-> 3, audit |-> 0, exports |-> 3]

TrafficInit ==
    /\ AuthInit /\ IdempotencyInit /\ AuditInit /\ ExportJobsInit /\ RequestsInit
    /\ scope \in DOMAIN Budget

Within(s) == UNCHANGED scope /\ begun' <= Budget[s]

TrafficNext ==
    \/ /\ scope = "sessions"
       /\ AuthNext
       /\ passwords' = 0 \/ authFaults' = 0     \* a new password or an error
       /\ UNCHANGED <<idempotencyVars, auditVars, exportVars, requestVars, scope>>
    \/ /\ scope = "idempotency"
       /\ IdempotencyNext
       /\ Within("idempotency")
       /\ UNCHANGED <<authVars, auditVars, exportVars>>
    \/ /\ scope = "audit"
       /\ AuditNext
       /\ UNCHANGED <<authVars, idempotencyVars, exportVars, requestVars, scope>>
    \/ /\ scope = "exports"
       /\ ExportJobsNext
       /\ Within("exports")
       /\ UNCHANGED <<authVars, idempotencyVars, auditVars>>

TrafficSpec ==
    TrafficInit /\ [][TrafficNext]_<<authVars, idempotencyVars, auditVars, exportVars,
                                     requestVars, scope>>

\* The cfg gives Requests, Slots and Exporters the same elements, and ResetTokens,
\* Ops and Exports, so that one permutation of them serves all.
Symmetry ==
    Permutations(Requests) \cup Permutations(Tokens) \cup Permutations(ResetTokens)

\* The types of the component in scope, and AcceptedIsWritten of AuditLog: what
\* the channel accepted is written in order, as far as the worker has come.
EntriesAccounted ==
    /\ scope = "sessions" => AuthTypeOK
    /\ scope = "idempotency" => IdempotencyTypeOK
    /\ scope = "audit" => AuditTypeOK
    /\ scope = "exports" => ExportJobsTypeOK
    /\ AcceptedIsWritten
=============================================================================
