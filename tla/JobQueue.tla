------------------------------ MODULE JobQueue ------------------------------
(***************************************************************************)
(* The background job queue: the Redis repository of                       *)
(* internal/repository/job.go and the pollers and workers of               *)
(* internal/service/job_worker.go that share it.                           *)
(*                                                                         *)
(* The repository keeps, per job, the JSON record under its data key, the  *)
(* membership of one set per status, and a sorted set that is the queue.   *)
(* An operation touches them in several round trips, so every round trip   *)
(* is an action here; a worker carries between them the copy of the record *)
(* it read.  A pipeline is one step: no other command of this program      *)
(* touches the keys it writes in a way that tells the order apart.         *)
(*                                                                         *)
(* Time is abstracted to what the code tells apart: whether the score of a *)
(* queue entry (next_retry_at) has passed (due).                           *)
(***************************************************************************)
EXTENDS Naturals, Sequences

CONSTANTS
    Jobs,         \* job ids
    None,         \* "no job"
    Workers,      \* goroutines running runWorker
    Pollers,      \* goroutines running runPoller
    RetryLimits,  \* values of Job.MaxRetries (of the request, or the default)
    ChanCap,      \* capacity of jobCh (2 * WorkerPoolSize in Start)
    MaxJobFaults     \* bound on Redis errors, crashes and stops in a behaviour

ASSUME RetryLimitsAssumption == RetryLimits \subseteq Nat \ {0}
ASSUME ChanCapAssumption == ChanCap \in Nat \ {0}
ASSUME MaxFaultsAssumption == MaxJobFaults \in Nat
ASSUME NoneAssumption == None \notin Jobs
ASSUME ThreadsAssumption == Workers \cap Pollers = {}

VARIABLES
    \* Redis
    job,       \* data key of every job
    idx,       \* jobs:status:<status> sets
    queue,     \* members of the queue sorted set
    due,       \* the members whose score has passed
    \* the worker process
    jobCh,     \* channel from the pollers to the workers
    poll,      \* the job each poller popped and has not handed over
    pc,        \* where each worker is
    at,        \* the job each worker is processing
    rec,       \* the copy of the record each worker holds
    returned,  \* goroutines that returned
    phase,     \* of the process: up, stopping (stopCh closed), closed (jobCh
               \* closed), done (Stop returned), down (crashed), panicked
    \* environment
    jobFaults     \* disturbances so far

redis == <<job, idx, queue, due>>
worker == <<pc, at, rec>>
process == <<jobCh, poll, worker, returned, phase>>
vars == <<redis, process, jobFaults>>

-----------------------------------------------------------------------------
(* Types *)

Status == {"absent", "pending", "processing", "completed", "failed", "dead"}

\* StartedAt is nil, after the reaper's cutoff, or before it.
StartedAt == {"nil", "recent", "old"}

JobRecord == [st : Status, att : Nat, max : Nat, started : StartedAt]

\* No data key.
NoRecord == [st |-> "absent", att |-> 0, max |-> 0, started |-> "nil"]

PC == {"idle", "got", "claim", "claimed", "exec", "complete", "completed",
       "retry", "bury", "failed", "dead", "enqueue"}

Phase == {"up", "stopping", "closed", "done", "down", "panicked"}

TypeOK ==
    /\ job \in [Jobs -> JobRecord]
    /\ idx \in [Status -> SUBSET Jobs]
    /\ queue \in SUBSET Jobs
    /\ due \in SUBSET queue
    /\ jobCh \in Seq(Jobs)
    /\ poll \in [Pollers -> Jobs \cup {None}]
    /\ pc \in [Workers -> PC]
    /\ at \in [Workers -> Jobs \cup {None}]
    /\ \A w \in Workers : at[w] = None <=> pc[w] = "idle"
    /\ rec \in [Workers -> JobRecord]
    /\ returned \in SUBSET (Workers \cup Pollers)
    /\ phase \in Phase
    /\ jobFaults \in 0..MaxJobFaults

-----------------------------------------------------------------------------
(* Operators on records *)

\* Mutant of Claimable: no limit.
ClaimableAlways(r) == r.st \in {"pending", "failed"}

\* The guard of SetProcessing.
Claimable(r) ==
    r.st = "pending" \/ (r.st = "failed" /\ r.att < r.max)

\* Job.CanTransitionTo(completed), the guard of SetCompleted.
CanComplete(r) == r.st = "processing"

Submitted(m) == [st |-> "pending", att |-> 1, max |-> m, started |-> "nil"]
Claimed(r) == [st |-> "processing", att |-> r.att, max |-> r.max, started |-> "recent"]
Completed(r) == [r EXCEPT !.st = "completed"]
Failed(r) == [st |-> "failed", att |-> r.att + 1, max |-> r.max, started |-> r.started]
Dead(r) == [st |-> "dead", att |-> r.att + 1, max |-> r.max, started |-> r.started]

\* Mutant of MoveIndex: the old set keeps the job.
AddToIndex(j, from, to) == idx' = [idx EXCEPT ![to] = @ \cup {j}]

\* SREM of one status set and SADD to another, in one pipeline.
MoveIndex(j, from, to) ==
    idx' = [s \in Status |-> IF s = to THEN idx[s] \cup {j}
                             ELSE IF s = from THEN idx[s] \ {j}
                             ELSE idx[s]]

\* Update: the whole record is overwritten, whatever is there by now.
Update(j, r) == job' = [job EXCEPT ![j] = r]

\* Mutant of EnqueueLater: the retry is recorded and not queued.
EnqueueForgotten(j) == UNCHANGED <<queue, due>>

\* Enqueue with a score in the future.
EnqueueLater(j) ==
    /\ queue' = queue \cup {j}
    /\ due' = due \ {j}

\* ZPOPMIN takes the lowest score: an entry that is due if there is one, and
\* otherwise one whose time has not come.
IsMin(j) == j \in queue /\ (due # {} => j \in due)

Running(g) == phase \notin {"down", "panicked"} /\ g \notin returned

GoIdle(w) ==
    /\ pc' = [pc EXCEPT ![w] = "idle"]
    /\ at' = [at EXCEPT ![w] = None]
    /\ rec' = [rec EXCEPT ![w] = NoRecord]

MoveTo(w, label) ==
    /\ pc' = [pc EXCEPT ![w] = label]
    /\ UNCHANGED <<at, rec>>

\* Worker w goes on with the copy r it just read.
GotoWith(w, label, r) ==
    /\ pc' = [pc EXCEPT ![w] = label]
    /\ rec' = [rec EXCEPT ![w] = r]
    /\ UNCHANGED at

ResetProcess ==
    /\ jobCh' = <<>>
    /\ poll' = [p \in Pollers |-> None]
    /\ pc' = [w \in Workers |-> "idle"]
    /\ at' = [w \in Workers |-> None]
    /\ rec' = [w \in Workers |-> NoRecord]
    /\ returned' = {}

Init ==
    /\ job = [j \in Jobs |-> NoRecord]
    /\ idx = [s \in Status |-> {}]
    /\ queue = {}
    /\ due = {}
    /\ jobCh = <<>>
    /\ poll = [p \in Pollers |-> None]
    /\ pc = [w \in Workers |-> "idle"]
    /\ at = [w \in Workers |-> None]
    /\ rec = [w \in Workers |-> NoRecord]
    /\ returned = {}
    /\ phase = "up"
    /\ jobFaults = 0

-----------------------------------------------------------------------------
(* The API process: JobRepository.Submit, one pipeline *)

Submit(j, m) ==
    /\ job[j] = NoRecord
    /\ Update(j, Submitted(m))
    /\ idx' = [idx EXCEPT !["pending"] = @ \cup {j}]
    /\ queue' = queue \cup {j}
    /\ due' = due \cup {j}
    /\ UNCHANGED <<process, jobFaults>>

\* Time passes until the score of j.
BecomeDue(j) ==
    /\ j \in queue \ due
    /\ due' = due \cup {j}
    /\ UNCHANGED <<job, idx, queue, process, jobFaults>>

-----------------------------------------------------------------------------
(* Pollers *)

\* Mutant of Poll: the entry is read and stays on the queue.
PollPeek(p, j) ==
    /\ Running(p)
    /\ poll[p] = None
    /\ IsMin(j)
    /\ poll' = [poll EXCEPT ![p] = j]
    /\ UNCHANGED <<redis, jobCh, worker, returned, phase, jobFaults>>

\* A tick: ZPOPMIN takes the entry off the queue before anything else happens.
Poll(p, j) ==
    /\ Running(p)
    /\ poll[p] = None
    /\ IsMin(j)
    /\ queue' = queue \ {j}
    /\ due' = due \ {j}
    /\ poll' = [poll EXCEPT ![p] = j]
    /\ UNCHANGED <<job, idx, jobCh, worker, returned, phase, jobFaults>>

\* The popped job is handed to the workers; the send blocks on a full channel.
Send(p) ==
    /\ Running(p)
    /\ poll[p] # None
    /\ phase \in {"up", "stopping"}
    /\ Len(jobCh) < ChanCap
    /\ jobCh' = Append(jobCh, poll[p])
    /\ poll' = [poll EXCEPT ![p] = None]
    /\ UNCHANGED <<redis, worker, returned, phase, jobFaults>>

\* GetByID fails after the pop: the poller logs and forgets the job.
PollError(p) ==
    /\ Running(p)
    /\ poll[p] # None
    /\ jobFaults < MaxJobFaults
    /\ jobFaults' = jobFaults + 1
    /\ poll' = [poll EXCEPT ![p] = None]
    /\ UNCHANGED <<redis, jobCh, worker, returned, phase>>

\* stopCh is closed: the poller returns, with or without a job in hand.
PollerReturn(p) ==
    /\ Running(p)
    /\ phase # "up"
    /\ returned' = returned \cup {p}
    /\ poll' = [poll EXCEPT ![p] = None]
    /\ UNCHANGED <<redis, jobCh, worker, phase, jobFaults>>

\* The select of a poller that holds a job may pick the send although Start
\* closed the channel: the runtime panics and the process is gone.
SendOnClosed(p) ==
    /\ Running(p)
    /\ poll[p] # None
    /\ phase \in {"closed", "done"}
    /\ phase' = "panicked"
    /\ ResetProcess
    /\ UNCHANGED <<redis, jobFaults>>

-----------------------------------------------------------------------------
(* Workers: processJob and the repository operations it calls *)

Receive(w) ==
    /\ Running(w)
    /\ pc[w] = "idle"
    /\ jobCh # <<>>
    /\ jobCh' = Tail(jobCh)
    /\ pc' = [pc EXCEPT ![w] = "got"]
    /\ at' = [at EXCEPT ![w] = Head(jobCh)]
    /\ UNCHANGED <<redis, poll, rec, returned, phase, jobFaults>>

\* SetProcessing reads the record; a job it may not claim is dropped.
ClaimRead(w) ==
    /\ Running(w)
    /\ pc[w] = "got"
    /\ IF Claimable(job[at[w]])
         THEN GotoWith(w, "claim", job[at[w]])
         ELSE GoIdle(w)
    /\ UNCHANGED <<redis, jobCh, poll, returned, phase, jobFaults>>

ClaimWrite(w) ==
    /\ Running(w)
    /\ pc[w] = "claim"
    /\ Update(at[w], Claimed(rec[w]))
    /\ MoveTo(w, "claimed")
    /\ UNCHANGED <<idx, queue, due, jobCh, poll, returned, phase, jobFaults>>

\* The handler starts with the record SetProcessing returned.
ClaimIndex(w) ==
    /\ Running(w)
    /\ pc[w] = "claimed"
    /\ MoveIndex(at[w], rec[w].st, "processing")
    /\ GotoWith(w, "exec", Claimed(rec[w]))
    /\ UNCHANGED <<job, queue, due, jobCh, poll, returned, phase, jobFaults>>

\* The handler returns a result and SetCompleted reads the record.
HandlerOk(w) ==
    /\ Running(w)
    /\ pc[w] = "exec"
    /\ IF CanComplete(job[at[w]])
         THEN GotoWith(w, "complete", job[at[w]])
         ELSE GoIdle(w)
    /\ UNCHANGED <<redis, jobCh, poll, returned, phase, jobFaults>>

CompleteWrite(w) ==
    /\ Running(w)
    /\ pc[w] = "complete"
    /\ Update(at[w], Completed(rec[w]))
    /\ MoveTo(w, "completed")
    /\ UNCHANGED <<idx, queue, due, jobCh, poll, returned, phase, jobFaults>>

CompleteIndex(w) ==
    /\ Running(w)
    /\ pc[w] = "completed"
    /\ MoveIndex(at[w], "processing", "completed")
    /\ GoIdle(w)
    /\ UNCHANGED <<job, queue, due, jobCh, poll, returned, phase, jobFaults>>

\* The handler (or the parsing of the payload) fails.  handleError decides by
\* the copy the worker claimed whether to ask for a retry; SetFailed reads the
\* record again and has no guard on its status.
HandlerErr(w) ==
    /\ Running(w)
    /\ pc[w] = "exec"
    /\ GotoWith(w, IF rec[w].att < rec[w].max THEN "retry" ELSE "bury",
                job[at[w]])
    /\ UNCHANGED <<redis, jobCh, poll, returned, phase, jobFaults>>

\* SetFailed retries only if a retry was asked for and the copy it read has
\* attempts left.
RetryWrite(w) ==
    /\ Running(w)
    /\ pc[w] = "retry"
    /\ rec[w].att < rec[w].max
    /\ Update(at[w], Failed(rec[w]))
    /\ MoveTo(w, "failed")
    /\ UNCHANGED <<idx, queue, due, jobCh, poll, returned, phase, jobFaults>>

RetryIndex(w) ==
    /\ Running(w)
    /\ pc[w] = "failed"
    /\ MoveIndex(at[w], "processing", "failed")
    /\ MoveTo(w, "enqueue")
    /\ UNCHANGED <<job, queue, due, jobCh, poll, returned, phase, jobFaults>>

RetryEnqueue(w) ==
    /\ Running(w)
    /\ pc[w] = "enqueue"
    /\ EnqueueLater(at[w])
    /\ GoIdle(w)
    /\ UNCHANGED <<job, idx, jobCh, poll, returned, phase, jobFaults>>

BuryWrite(w) ==
    /\ Running(w)
    /\ \/ pc[w] = "bury"
       \/ pc[w] = "retry" /\ rec[w].att >= rec[w].max
    /\ Update(at[w], Dead(rec[w]))
    /\ MoveTo(w, "dead")
    /\ UNCHANGED <<idx, queue, due, jobCh, poll, returned, phase, jobFaults>>

BuryIndex(w) ==
    /\ Running(w)
    /\ pc[w] = "dead"
    /\ MoveIndex(at[w], "processing", "dead")
    /\ GoIdle(w)
    /\ UNCHANGED <<job, queue, due, jobCh, poll, returned, phase, jobFaults>>

\* A Redis command fails (or is applied and its answer is lost): the operation
\* returns the error, the worker logs it and turns to the next job.
RedisError(w) ==
    /\ Running(w)
    /\ pc[w] # "idle"
    /\ jobFaults < MaxJobFaults
    /\ jobFaults' = jobFaults + 1
    /\ GoIdle(w)
    /\ UNCHANGED <<redis, jobCh, poll, returned, phase>>

WorkerReturn(w) ==
    /\ Running(w)
    /\ pc[w] = "idle"
    /\ phase # "up"
    /\ returned' = returned \cup {w}
    /\ UNCHANGED <<redis, jobCh, poll, worker, phase, jobFaults>>

-----------------------------------------------------------------------------
(* The life of the process *)

\* Stop closes stopCh ...
Stop ==
    /\ phase = "up"
    /\ jobFaults < MaxJobFaults
    /\ jobFaults' = jobFaults + 1
    /\ phase' = "stopping"
    /\ UNCHANGED <<redis, jobCh, poll, worker, returned>>

\* ... Start wakes up and closes jobCh ...
CloseJobCh ==
    /\ phase = "stopping"
    /\ phase' = "closed"
    /\ UNCHANGED <<redis, jobCh, poll, worker, returned, jobFaults>>

\* ... and then doneCh, on which Stop returns.
CloseDone ==
    /\ phase = "closed"
    /\ phase' = "done"
    /\ UNCHANGED <<redis, jobCh, poll, worker, returned, jobFaults>>

Crash ==
    /\ phase \notin {"down", "panicked"}
    /\ jobFaults < MaxJobFaults
    /\ jobFaults' = jobFaults + 1
    /\ phase' = "down"
    /\ ResetProcess
    /\ UNCHANGED redis

\* A new process; the old one, stopped, crashed or panicked, is gone.
Restart ==
    /\ phase \in {"done", "down", "panicked"}
    /\ phase' = "up"
    /\ ResetProcess
    /\ UNCHANGED <<redis, jobFaults>>

-----------------------------------------------------------------------------

JobStep(j) == (\E m \in RetryLimits : Submit(j, m)) \/ BecomeDue(j)

PollerStep(p) ==
    \/ \E j \in Jobs : Poll(p, j)
    \/ Send(p)
    \/ PollError(p)
    \/ PollerReturn(p)
    \/ SendOnClosed(p)

\* The steps a worker takes on its own, errors apart.
WorkerRun(w) ==
    \/ Receive(w)
    \/ ClaimRead(w) \/ ClaimWrite(w) \/ ClaimIndex(w)
    \/ HandlerOk(w) \/ CompleteWrite(w) \/ CompleteIndex(w)
    \/ HandlerErr(w) \/ RetryWrite(w) \/ RetryIndex(w) \/ RetryEnqueue(w)
    \/ BuryWrite(w) \/ BuryIndex(w)

WorkerStep(w) == WorkerRun(w) \/ RedisError(w) \/ WorkerReturn(w)

ProcessStep == Stop \/ CloseJobCh \/ CloseDone \/ Crash \/ Restart

Next ==
    \/ \E j \in Jobs : JobStep(j)
    \/ \E p \in Pollers : PollerStep(p)
    \/ \E w \in Workers : WorkerStep(w)
    \/ ProcessStep

Spec == Init /\ [][Next]_vars

\* Tickers tick, blocked goroutines are scheduled, handlers return, and time
\* passes; nothing makes a fault happen.
Fairness ==
    /\ \A j \in Jobs : WF_vars(BecomeDue(j))
    /\ \A p \in Pollers : WF_vars((\E j \in Jobs : Poll(p, j)) \/ Send(p))
    /\ \A w \in Workers : WF_vars(WorkerRun(w))
    /\ WF_vars(Restart)

FairSpec == Spec /\ Fairness

-----------------------------------------------------------------------------
(* Properties *)

InChan(j) == \E i \in 1..Len(jobCh) : jobCh[i] = j
InPoll(j) == \E p \in Pollers : poll[p] = j
AtWorker(j) == \E w \in Workers : at[w] = j

\* A job id is in one place at a time: on the queue, with one poller, at one
\* position of the channel, or with one worker.  ZPOPMIN and the order of the
\* steps of SetFailed (the entry is put back last) are what keeps it so.
SingleCustody ==
    /\ \A j \in queue : ~InPoll(j) /\ ~InChan(j) /\ ~AtWorker(j)
    /\ \A p \in Pollers : poll[p] # None => ~InChan(poll[p]) /\ ~AtWorker(poll[p])
    /\ \A p1, p2 \in Pollers : poll[p1] = poll[p2] /\ poll[p1] # None => p1 = p2
    /\ \A i \in 1..Len(jobCh) : ~AtWorker(jobCh[i])
    /\ \A i1, i2 \in 1..Len(jobCh) : jobCh[i1] = jobCh[i2] => i1 = i2
    /\ \A w1, w2 \in Workers : at[w1] = at[w2] /\ at[w1] # None => w1 = w2

\* What makes SingleCustody and the properties below inductive: a job nobody
\* submitted is nowhere, ...
AbsentIsNowhere ==
    \A j \in Jobs : job[j].st = "absent" =>
        j \notin queue /\ ~InPoll(j) /\ ~InChan(j) /\ ~AtWorker(j)

\* ... the copy a worker holds between two round trips is still the record that
\* is stored, in the state that the worker's next write starts from, ...
Fresh(w) == rec[w] = job[at[w]]

CopyIsFresh ==
    \A w \in Workers :
        /\ pc[w] = "claim" => Fresh(w) /\ Claimable(rec[w])
        /\ pc[w] = "claimed" => job[at[w]] = Claimed(rec[w])
        /\ pc[w] \in {"exec", "complete", "retry", "bury"} =>
              Fresh(w) /\ rec[w].st = "processing"
        /\ pc[w] = "retry" => rec[w].att < rec[w].max
        /\ pc[w] = "bury" => rec[w].att >= rec[w].max

\* ... and the attempt counter of a stored record fits its status.
AttemptsFit ==
    \A j \in Jobs :
        /\ job[j].st # "absent" => job[j].max > 0
        /\ job[j].st = "pending" => job[j].att = 1
        /\ job[j].st = "processing" => job[j].att = 1 \/ job[j].att < job[j].max
        /\ job[j].st = "dead" => job[j].max = 1

IInv == TypeOK /\ SingleCustody /\ AbsentIsNowhere /\ CopyIsFresh /\ AttemptsFit

\* SetProcessing claims a job: no two workers run its handler at once, whatever
\* crashes, stops and Redis errors happen.
SingleExecution ==
    \A w1, w2 \in Workers :
        pc[w1] = "exec" /\ pc[w2] = "exec" /\ at[w1] = at[w2] => w1 = w2

OnItsWay(j) == j \in queue \/ InPoll(j) \/ InChan(j) \/ AtWorker(j)

\* While no fault happened, a job that may still be claimed is somewhere on its
\* way to a worker; a retry that is being written counts as on its way.
NothingLost ==
    jobFaults = 0 => \A j \in Jobs : Claimable(job[j]) => OnItsWay(j)

\* Worker w has written the record and not yet the status sets.
Moving(w) == pc[w] \in {"claimed", "completed", "failed", "dead"}

\* Job j is in the status set s and in no other.
InSet(j, s) == \A t \in Status : j \in idx[t] <=> (t = s /\ t # "absent")

\* While no fault happened, a job that no worker is moving is in the status set
\* its record says and in no other.
IndexAgrees ==
    jobFaults = 0 =>
        \A j \in Jobs :
            (\A w \in Workers : at[w] = j => ~Moving(w)) => InSet(j, job[j].st)

\* The dead letters of the pipeline itself: a job with more than one attempt is
\* never buried, because the retry that would exhaust it is not claimable.
NoDeadLetter == \A j \in Jobs : job[j].st = "dead" => job[j].max = 1

\* The record of a completed job never changes again.
CompletedIsFinal ==
    [][\A j \in Jobs : job[j].st = "completed" => job'[j] = job[j]]_vars

Life == INSTANCE JobLifecycle WITH
            status <- [j \in Jobs |-> job[j].st],
            attempt <- [j \in Jobs |-> job[j].att],
            limit <- [j \in Jobs |-> job[j].max]

\* However the round trips interleave, fail or are cut off, the status of a job
\* moves as CanTransitionTo of domain/job.go allows, one attempt at a time, but
\* for the last failure, which is stored as "dead" without the "failed" that the
\* table asks for in between.
ImplementsLifecycle == Life!Spec

\* The retries of j are used up and it is still "failed".
Exhausted(j) == job[j].st = "failed" /\ job[j].att >= job[j].max

Settled(j) == job[j].st \in {"completed", "dead"} \/ Exhausted(j)

\* As long as no fault happens, no submitted job waits, runs or is retried for ever:
\* it is completed or buried, or its retries run out.  What the code makes of the
\* last is not what it says: see ExhaustedJobsDie.
EveryJobSettles ==
    \A j \in Jobs : []<>(job[j].st = "absent" \/ Settled(j) \/ jobFaults > 0)

-----------------------------------------------------------------------------
(* What the documentation says and the code does not do *)

\* job_worker.go:163-168, a poller that holds a job when stopCh closes logs
\* "poller stopped: stop signal after dequeue" and returns.
NoSendOnClosedChannel == phase # "panicked"

\* domain/job.go:35-36, "failed" is "Job failed but may retry" and "dead" is "Job
\* exhausted all retries": a job whose retries are used up becomes dead.  (SetFailed
\* compares the attempts before it counts the failed one, SetProcessing after: the
\* last retry it queues is never claimed.)
ExhaustedJobsDie ==
    \A j \in Jobs : Exhausted(j) ~> job[j].st = "dead" \/ jobFaults > 0

\* Redis tells one story, though record, status set and queue are written in
\* different round trips: NothingLost and IndexAgrees.
StoresAgree == NothingLost /\ IndexAgrees

-----------------------------------------------------------------------------
(* What makes StoresAgree inductive *)

\* Between two round trips of SetCompleted and SetFailed the record says already
\* what the worker is about to make the status sets say, ...
WriteIsStored ==
    \A w \in Workers :
        /\ pc[w] = "completed" => job[at[w]].st = "completed"
        /\ pc[w] \in {"failed", "enqueue"} => job[at[w]].st = "failed"
        /\ pc[w] = "dead" => job[at[w]].st = "dead"

\* ... while the sets still say what the record was before the write.
SetBefore(w) == IF pc[w] = "claimed" THEN rec[w].st ELSE "processing"

IndexIsBehind ==
    jobFaults = 0 =>
        /\ phase = "up"
        /\ \A w \in Workers : Moving(w) => InSet(at[w], SetBefore(w))

StoresInv == IInv /\ WriteIsStored /\ IndexIsBehind /\ NothingLost /\ IndexAgrees
=============================================================================
