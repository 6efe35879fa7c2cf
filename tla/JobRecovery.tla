---------------------------- MODULE JobRecovery -----------------------------
(***************************************************************************)
(* The job queue with everything else that writes its records: the reaper  *)
(* of internal/service/job_reaper.go and the Cancel and Resubmit requests  *)
(* of internal/service/job.go.  Each of them reads a record, decides, and  *)
(* overwrites it in a later round trip, while pollers and workers go on.   *)
(*                                                                         *)
(* All jobs are those of one user; a client who is another one asks about  *)
(* them in vain.                                                           *)
(***************************************************************************)
EXTENDS JobQueue

CONSTANTS
    Clients,      \* concurrent API requests on jobs
    Strangers,    \* those that are not from the owner of the jobs
    MaxCalls,  \* bound on Cancel and Resubmit requests in a behaviour
    MaxResets,    \* bound on the records the reaper resets in a behaviour
    Punctual      \* TRUE: every step of a worker is over within the threshold

ASSUME BoundsAssumption == MaxCalls \in Nat /\ MaxResets \in Nat
ASSUME StrangersAssumption == Strangers \subseteq Clients
ASSUME PunctualAssumption == Punctual \in BOOLEAN

VARIABLES
    rpc,       \* where the reaper is
    todo,      \* ids it listed and has not read yet
    stuck,     \* copies it read and has not reset yet
    rat,       \* the job it is resetting
    cpc,       \* where each request is
    cat,       \* the job each request is about
    crec,      \* the copy of the record it read
    resets,    \* resets so far
    requests   \* requests so far

reaper == <<rpc, todo, stuck, rat>>
clients == <<cpc, cat, crec>>
recoveryVars == <<reaper, clients, resets, requests>>
allVars == <<vars, recoveryVars>>

RecoveryTypeOK ==
    /\ TypeOK
    /\ rpc \in {"idle", "look", "reset", "index", "enqueue"}
    /\ todo \in SUBSET Jobs
    /\ stuck \in [Jobs -> JobRecord]
    /\ rat \in Jobs \cup {None}
    /\ rat = None <=> rpc \notin {"index", "enqueue"}
    /\ cpc \in [Clients -> {"idle", "cancel", "fetch", "resubmit", "enqueue"}]
    /\ cat \in [Clients -> Jobs \cup {None}]
    /\ \A c \in Clients : cat[c] = None <=> cpc[c] = "idle"
    /\ crec \in [Clients -> JobRecord]
    /\ resets \in 0..MaxResets
    /\ requests \in 0..MaxCalls

RecoveryInit ==
    /\ Init
    /\ rpc = "idle"
    /\ todo = {}
    /\ stuck = [j \in Jobs |-> NoRecord]
    /\ rat = None
    /\ cpc = [c \in Clients |-> "idle"]
    /\ cat = [c \in Clients |-> None]
    /\ crec = [c \in Clients |-> NoRecord]
    /\ resets = 0
    /\ requests = 0

Alive == phase \notin {"down", "panicked"}

\* The goroutines of the reaper and of the requests die with the process.
ResetRecovery ==
    /\ rpc' = "idle"
    /\ todo' = {}
    /\ stuck' = [j \in Jobs |-> NoRecord]
    /\ rat' = None
    /\ cpc' = [c \in Clients |-> "idle"]
    /\ cat' = [c \in Clients |-> None]
    /\ crec' = [c \in Clients |-> NoRecord]
    /\ UNCHANGED <<resets, requests>>

-----------------------------------------------------------------------------
(* Time: the threshold passes since the StartedAt of j.  GetStuckJobs takes    *)
(* its cutoff once, before it reads the records, so no job becomes old for it *)
(* while it reads them.                                                       *)

Age(j) ==
    /\ job[j].started = "recent"
    /\ rpc # "look"
    /\ Punctual => ~AtWorker(j)
    /\ Update(j, [job[j] EXCEPT !.started = "old"])
    /\ UNCHANGED <<idx, queue, due, process, jobFaults, recoveryVars>>

-----------------------------------------------------------------------------
(* The reaper: Reap, GetStuckJobs and ResetStuckJob *)

\* Mutants of Stuck: every started job, and the comparison turned around.
StuckStarted(r) == r.started # "nil"
StuckRecent(r) == r.started = "recent"

\* StartedAt is before the cutoff; the status of the record is not looked at.
Stuck(r) == r.started = "old"

InStuck(j) == stuck[j] # NoRecord

\* GetStuckJobs lists the processing set ...
ReapScan ==
    /\ Alive
    /\ rpc = "idle"
    /\ idx["processing"] # {}
    /\ todo' = idx["processing"]
    /\ rpc' = "look"
    /\ UNCHANGED <<vars, stuck, rat, clients, resets, requests>>

\* The reaper has `rest' left to read and read the stuck jobs `found'.
Looking(rest, found) ==
    /\ todo' = rest
    /\ stuck' = found
    /\ rpc' = IF rest # {} THEN "look"
              ELSE IF \E k \in Jobs : found[k] # NoRecord THEN "reset" ELSE "idle"

\* ... and reads the records one by one.
ReapLook(j) ==
    /\ Alive
    /\ rpc = "look"
    /\ j \in todo
    /\ Looking(todo \ {j}, IF Stuck(job[j]) THEN [stuck EXCEPT ![j] = job[j]] ELSE stuck)
    /\ UNCHANGED <<vars, rat, clients, resets, requests>>

\* ResetStuckJob writes back the copy of the listing, one attempt further.
ReapReset(j) ==
    /\ Alive
    /\ rpc = "reset"
    /\ InStuck(j)
    /\ resets < MaxResets
    /\ resets' = resets + 1
    /\ Update(j, [stuck[j] EXCEPT !.st = "pending", !.att = @ + 1])
    /\ stuck' = [stuck EXCEPT ![j] = NoRecord]
    /\ rat' = j
    /\ rpc' = "index"
    /\ UNCHANGED <<idx, queue, due, process, jobFaults, todo, clients, requests>>

ReapIndex ==
    /\ Alive
    /\ rpc = "index"
    /\ MoveIndex(rat, "processing", "pending")
    /\ rpc' = "enqueue"
    /\ UNCHANGED <<job, queue, due, process, jobFaults, todo, stuck, rat, clients,
                   resets, requests>>

\* The reaper turns to the next stuck job, or waits for its next tick.
NextStuck ==
    /\ rat' = None
    /\ rpc' = IF \E j \in Jobs : InStuck(j) THEN "reset" ELSE "idle"
    /\ UNCHANGED <<todo, stuck, clients, resets, requests>>

ReapEnqueue ==
    /\ Alive
    /\ rpc = "enqueue"
    /\ EnqueueLater(rat)
    /\ NextStuck
    /\ UNCHANGED <<job, idx, process, jobFaults>>

\* A Redis error in GetByID, ResetStuckJob or Enqueue: the loop continues with
\* the next job.
ReapError ==
    /\ Alive
    /\ jobFaults < MaxJobFaults
    /\ jobFaults' = jobFaults + 1
    /\ \/ /\ rpc = "look"
          /\ \E j \in todo : Looking(todo \ {j}, stuck)
          /\ UNCHANGED <<rat, clients, resets, requests>>
       \/ /\ rpc = "reset"
          /\ \E j \in Jobs : InStuck(j) /\ Looking({}, [stuck EXCEPT ![j] = NoRecord])
          /\ UNCHANGED <<rat, clients, resets, requests>>
       \/ rpc \in {"index", "enqueue"} /\ NextStuck
    /\ UNCHANGED <<redis, process>>

-----------------------------------------------------------------------------
(* Requests *)

StartRequest(c, j, label) ==
    /\ Alive
    /\ cpc[c] = "idle"
    /\ requests < MaxCalls
    /\ requests' = requests + 1
    /\ cpc' = [cpc EXCEPT ![c] = label]
    /\ cat' = [cat EXCEPT ![c] = j]
    /\ crec' = [crec EXCEPT ![c] = job[j]]
    /\ UNCHANGED <<vars, reaper, resets>>

EndRequest(c) ==
    /\ cpc' = [cpc EXCEPT ![c] = "idle"]
    /\ cat' = [cat EXCEPT ![c] = None]
    /\ crec' = [crec EXCEPT ![c] = NoRecord]
    /\ UNCHANGED <<reaper, resets, requests>>

\* job.UserID = userID.
Owns(c) == c \notin Strangers

\* GetByID of the service, behind the check of the handler.
HandleGetByID(c, j) == job[j] # NoRecord /\ Owns(c)

\* The index of the user has whatever he submitted; the filter is on the records.
ListJobsByUser(status) == {j \in Jobs : job[j] # NoRecord /\ job[j].st \in status}
HandleList(c, status) == IF Owns(c) THEN ListJobsByUser(status) ELSE {}

\* Cancel reads the job and refuses (409) unless it is pending or failed ...
Cancel(c, r) == Owns(c) /\ r.st \in {"pending", "failed"}

HandleCancel(c, j) ==
    /\ Cancel(c, job[j])
    /\ StartRequest(c, j, "cancel")

\* ... and overwrites it.  Neither the status sets nor the queue are touched.
CancelWrite(c) ==
    /\ Alive
    /\ cpc[c] = "cancel"
    /\ Update(cat[c], [crec[c] EXCEPT !.st = "dead"])
    /\ cpc' = [cpc EXCEPT ![c] = "fetch"]
    /\ crec' = [crec EXCEPT ![c] = NoRecord]
    /\ UNCHANGED <<idx, queue, due, process, jobFaults, reaper, cat, resets, requests>>

\* The handler reads the job again for the answer.
CancelFetch(c) ==
    /\ Alive
    /\ cpc[c] = "fetch"
    /\ EndRequest(c)
    /\ UNCHANGED vars

\* Resubmit takes a dead job only ...
Resubmit(c, r) == Owns(c) /\ r.st = "dead"

HandleResubmit(c, j) ==
    /\ Resubmit(c, job[j])
    /\ StartRequest(c, j, "resubmit")

\* ... resets its attempt counter to 0 ...
ResubmitWrite(c) ==
    /\ Alive
    /\ cpc[c] = "resubmit"
    /\ Update(cat[c], [crec[c] EXCEPT !.st = "pending", !.att = 0])
    /\ cpc' = [cpc EXCEPT ![c] = "enqueue"]
    /\ UNCHANGED <<idx, queue, due, process, jobFaults, reaper, cat, crec, resets,
                   requests>>

\* ... and queues it again.
ResubmitEnqueue(c) ==
    /\ Alive
    /\ cpc[c] = "enqueue"
    /\ EnqueueLater(cat[c])
    /\ EndRequest(c)
    /\ UNCHANGED <<job, idx, process, jobFaults>>

\* A Redis error: the request is answered with 500 where it stands.
RequestError(c) ==
    /\ Alive
    /\ cpc[c] # "idle"
    /\ jobFaults < MaxJobFaults
    /\ jobFaults' = jobFaults + 1
    /\ EndRequest(c)
    /\ UNCHANGED <<redis, process>>

-----------------------------------------------------------------------------

\* A step of the pipeline; when it ends the process, it ends the rest too.
QueueStep ==
    /\ Next
    /\ IF phase' # phase /\ phase' \in {"up", "down", "panicked"}
         THEN ResetRecovery
         ELSE UNCHANGED recoveryVars

ReaperStep ==
    \/ ReapScan
    \/ \E j \in Jobs : ReapLook(j) \/ ReapReset(j)
    \/ ReapIndex
    \/ ReapEnqueue

RequestStep(c) ==
    \/ \E j \in Jobs : HandleCancel(c, j) \/ HandleResubmit(c, j)
    \/ CancelWrite(c) \/ CancelFetch(c)
    \/ ResubmitWrite(c)
    \/ ResubmitEnqueue(c)
    \/ RequestError(c)

ReaperNext ==
    \/ QueueStep
    \/ \E j \in Jobs : Age(j)
    \/ ReaperStep
    \/ ReapError

RecoveryNext ==
    \/ ReaperNext
    \/ \E c \in Clients : RequestStep(c)

RecoverySpec == RecoveryInit /\ [][RecoveryNext]_allVars

\* The reaper's ticker ticks, as those of the pollers, and the threshold passes
\* however often the reaper looks.
RecoveryFairness ==
    /\ \A j \in Jobs : WF_allVars(BecomeDue(j) /\ UNCHANGED recoveryVars)
    /\ \A j \in Jobs : SF_allVars(Age(j))
    /\ \A p \in Pollers :
         WF_allVars(((\E j \in Jobs : Poll(p, j)) \/ Send(p)) /\ UNCHANGED recoveryVars)
    /\ \A w \in Workers : WF_allVars(WorkerRun(w) /\ UNCHANGED recoveryVars)
    /\ WF_allVars(Restart /\ ResetRecovery)
    /\ WF_allVars(ReaperStep)

\* The reaper beside the pipeline, when nobody cancels or resubmits.
FairReaperSpec == RecoveryInit /\ [][ReaperNext]_allVars /\ RecoveryFairness

-----------------------------------------------------------------------------
(* Properties *)

\* Custody stays single (SingleCustody, SingleExecution of JobQueue) with the
\* reaper running, crashes and Redis errors included, as long as workers are
\* punctual and nobody cancels or resubmits: a job is listed only after whoever
\* had it is gone.

\* A crashed worker's job that reached the processing set does not stay there in
\* "processing".
ListedStuckJobsRecover ==
    \A j \in Jobs : []<>~(job[j].st = "processing" /\ j \in idx["processing"])

\* A job that may be claimed is among those its owner lists as pending or failed,
\* and neither a listing nor a request of anybody else reaches a job.
JobsAreShownToTheirOwner ==
    \A c \in Clients :
        /\ c \in Strangers => cpc[c] = "idle"
        /\ \A j \in Jobs :
            /\ HandleGetByID(c, j) <=> j \in HandleList(c, Status)
            /\ Claimable(job[j]) /\ Owns(c) => j \in HandleList(c, {"pending", "failed"})

\* Whatever requests, slow workers and the reaper overwrite, while no fault
\* happened a job that may be claimed is on its way to a worker: whoever makes
\* a record claimable queues the job afterwards.
ClaimableJobsTravel ==
    /\ RecoveryTypeOK /\ JobsAreShownToTheirOwner
    /\ jobFaults = 0 =>
        \A j \in Jobs : Claimable(job[j]) =>
            \/ j \in queue \/ InPoll(j) \/ InChan(j) \/ AtWorker(j)
            \/ \E c \in Clients : cpc[c] = "enqueue" /\ cat[c] = j
            \/ rat = j

\* Why: until a fault happens the process is up, and whoever has the job of a record
\* that may be claimed has still to read it, to claim it or to queue it.
Undisturbed == jobFaults = 0 => phase = "up" /\ returned = {}

StrangersAskInVain == \A c \in Strangers : cpc[c] = "idle"

WillBeSeen(j) ==
    \/ j \in queue \/ InPoll(j) \/ InChan(j)
    \/ \E w \in Workers : at[w] = j /\ pc[w] \in {"got", "claim", "failed", "enqueue"}
    \/ \E c \in Clients : cpc[c] = "enqueue" /\ cat[c] = j
    \/ rat = j

RecoveryInv ==
    /\ RecoveryTypeOK
    /\ Undisturbed
    /\ StrangersAskInVain
    /\ jobFaults = 0 => \A j \in Jobs : Claimable(job[j]) => WillBeSeen(j)
=============================================================================
