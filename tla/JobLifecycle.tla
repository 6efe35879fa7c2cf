---------------------------- MODULE JobLifecycle ----------------------------
(***************************************************************************)
(* What the background job queue promises about one job, whatever the      *)
(* pollers, the workers and Redis do underneath: its status moves as the   *)
(* table CanTransitionTo of internal/domain/job.go allows, from submission *)
(* to the end, one attempt at a time, with one exception.                  *)
(*                                                                         *)
(* The exception is Bury: on the last attempt SetFailed of                 *)
(* internal/repository/job.go stores "dead" over "processing", which is    *)
(* no row of the table, neither here nor in the data model of the feature  *)
(* (specs/009-background-job-queue/data-model.md:80-87): both have         *)
(* "failed" in between.  Of the operations of the repository only          *)
(* SetCompleted asks the table.                                            *)
(***************************************************************************)
EXTENDS Naturals

CONSTANTS
    Jobs,        \* the job ids that may be submitted
    RetryLimits  \* values of Job.MaxRetries

VARIABLES
    status,      \* [Jobs -> Status]
    attempt,     \* [Jobs -> Nat], Job.AttemptCount
    limit        \* [Jobs -> Nat], Job.MaxRetries

lifeVars == <<status, attempt, limit>>

\* "absent" is a job nobody submitted: its data key does not exist.
Status == {"absent", "pending", "processing", "completed", "failed", "dead"}

Init ==
    /\ status = [j \in Jobs |-> "absent"]
    /\ attempt = [j \in Jobs |-> 0]
    /\ limit = [j \in Jobs |-> 0]

\* The table of the domain, for a job with attempts a of m.
CanTransitionTo(from, to, a, m) ==
    \/ from = "pending" /\ to = "processing"
    \/ from = "processing" /\ to \in {"completed", "failed"}
    \/ from = "failed" /\ to = "processing" /\ a < m
    \/ from = "failed" /\ to = "dead"

\* A transition of the table ...
Transition(j, to) ==
    /\ CanTransitionTo(status[j], to, attempt[j], limit[j])
    /\ status' = [status EXCEPT ![j] = to]

\* ... and two of them in one write: nobody reads the status between them.
TwoTransitions(j, through, to) ==
    /\ CanTransitionTo(status[j], through, attempt[j], limit[j])
    /\ CanTransitionTo(through, to, attempt[j] + 1, limit[j])
    /\ status' = [status EXCEPT ![j] = to]

Submit(j, m) ==
    /\ status[j] = "absent"
    /\ status' = [status EXCEPT ![j] = "pending"]
    /\ attempt' = [attempt EXCEPT ![j] = 1]
    /\ limit' = [limit EXCEPT ![j] = m]

Start(j) ==
    /\ Transition(j, "processing")
    /\ UNCHANGED <<attempt, limit>>

Complete(j) ==
    /\ Transition(j, "completed")
    /\ UNCHANGED <<attempt, limit>>

\* An attempt fails ...
AttemptFails(j) ==
    /\ status[j] = "processing"
    /\ attempt' = [attempt EXCEPT ![j] = @ + 1]
    /\ UNCHANGED limit

\* ... and with attempts left the job waits for a retry ...
Fail(j) ==
    /\ AttemptFails(j)
    /\ attempt[j] < limit[j]
    /\ Transition(j, "failed")

\* ... while the last one sends it to the dead letters.
Bury(j) ==
    /\ AttemptFails(j)
    /\ attempt[j] >= limit[j]
    /\ TwoTransitions(j, "failed", "dead")

Next ==
    \E j \in Jobs :
        \/ \E m \in RetryLimits : Submit(j, m)
        \/ Start(j) \/ Complete(j) \/ Fail(j) \/ Bury(j)

Spec == Init /\ [][Next]_lifeVars
=============================================================================
