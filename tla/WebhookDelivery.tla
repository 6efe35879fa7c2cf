--------------------------- MODULE WebhookDelivery ---------------------------
(***************************************************************************)
(* Webhook deliveries: DispatchEvent and ReplayDelivery of                 *)
(* internal/service/webhook.go, the worker pool and the reaper of          *)
(* webhook_worker.go, the Redis queue of webhook_queue_redis.go and the    *)
(* rows behind internal/repository/webhook.go.                             *)
(*                                                                         *)
(* A delivery is a row in PostgreSQL; its id travels over a sorted set in  *)
(* Redis.  Rows are written with unconditional UPDATEs, so the copy a      *)
(* worker read at the start decides what it writes later.  All deliveries  *)
(* here go to one webhook.  The processing set of Redis is left out: no    *)
(* code reads it.  A rate limiter may refuse any request.                  *)
(***************************************************************************)
EXTENDS Naturals

CONSTANTS
    Deliveries,
    NoDelivery,
    Couriers,     \* goroutines running processLoop
    MaxAttempts,  \* WebhookDelivery.MaxAttempts
    MaxFaults,    \* bound on database and Redis errors and crashes
    MaxReplays    \* bound on replays

ASSUME MaxAttemptsAssumption == MaxAttempts \in Nat \ {0}
ASSUME DeliveryBoundsAssumption == MaxFaults \in Nat /\ MaxReplays \in Nat
ASSUME NoDeliveryAssumption == NoDelivery \notin Deliveries

VARIABLES
    hook,       \* the webhook: active, inactive, deleted
    row,        \* webhook_deliveries
    ready,      \* number of queue members of each delivery that are due ...
    later,      \* ... and that are scheduled for later
    fresh,      \* the delivery DispatchEvent created and has not queued
    dpc, dat, copy,    \* each worker: where it is, its delivery, the row it read
    rpc, found, rat,   \* the reaper: where it is, copies of the stuck rows it
                       \* listed, the delivery it is requeueing
    asked,      \* the delivery a replay request found replayable
    posts,      \* history: requests sent for each delivery since its creation
                \* or last replay
    hits,       \* history: those answered with 2xx
    faults, replays

redisQueue == <<ready, later>>
workers == <<dpc, dat, copy>>
reaper == <<rpc, found, rat>>
history == <<posts, hits>>
counters == <<faults, replays>>
hookVars == <<hook, row, redisQueue, fresh, workers, reaper, asked, history, counters>>

-----------------------------------------------------------------------------
(* Types *)

\* "none" before DispatchEvent, "gone" after the retention cleanup.
DeliveryStatus == {"none", "queued", "processing", "delivered", "failed",
                   "rate_limited", "gone"}

\* processing_started_at is null, after the reaper's cutoff, or before it.
Row == [st : DeliveryStatus, att : 0..MaxAttempts, started : {"null", "recent", "old"}]

NoRow == [st |-> "none", att |-> 0, started |-> "null"]
GoneRow == [st |-> "gone", att |-> 0, started |-> "null"]
NewRow(status) == [st |-> status, att |-> 1, started |-> "null"]

WorkerPC == {"idle", "got", "mark", "check", "post", "done", "fail", "requeue",
             "limit", "enqueue"}

DeliveryTypeOK ==
    /\ hook \in {"active", "inactive", "deleted"}
    /\ row \in [Deliveries -> Row]
    /\ ready \in [Deliveries -> Nat]
    /\ later \in [Deliveries -> Nat]
    /\ fresh \in Deliveries \cup {NoDelivery}
    /\ dpc \in [Couriers -> WorkerPC]
    /\ dat \in [Couriers -> Deliveries \cup {NoDelivery}]
    /\ \A w \in Couriers : dat[w] = NoDelivery <=> dpc[w] = "idle"
    /\ copy \in [Couriers -> Row]
    /\ rpc \in {"idle", "loop", "requeue", "enqueue"}
    /\ found \in [Deliveries -> Row]
    /\ rat \in Deliveries \cup {NoDelivery}
    /\ rat = NoDelivery <=> rpc \in {"idle", "loop"}
    /\ asked \in Deliveries \cup {NoDelivery}
    /\ posts \in [Deliveries -> Nat]
    /\ hits \in [Deliveries -> Nat]
    /\ faults \in 0..MaxFaults
    /\ replays \in 0..MaxReplays

DeliveryInit ==
    /\ hook = "active"
    /\ row = [d \in Deliveries |-> NoRow]
    /\ ready = [d \in Deliveries |-> 0]
    /\ later = [d \in Deliveries |-> 0]
    /\ fresh = NoDelivery
    /\ dpc = [w \in Couriers |-> "idle"]
    /\ dat = [w \in Couriers |-> NoDelivery]
    /\ copy = [w \in Couriers |-> NoRow]
    /\ rpc = "idle"
    /\ found = [d \in Deliveries |-> NoRow]
    /\ rat = NoDelivery
    /\ asked = NoDelivery
    /\ posts = [d \in Deliveries |-> 0]
    /\ hits = [d \in Deliveries |-> 0]
    /\ faults = 0
    /\ replays = 0

-----------------------------------------------------------------------------
(* Rows and queue *)

Exists(d) == row[d].st \notin {"none", "gone"}

\* WebhookDelivery.CanRetry and CanReplay.
CanRetry(r) == r.att < MaxAttempts /\ r.st # "delivered"
CanReplay(r) == r.st \notin {"queued", "processing"}

\* UpdateStatus; processing_started_at is written by two callers only.  The
\* UPDATE of a row that is gone finds nothing and is an error to its caller.
SetRow(d, r) == row' = [row EXCEPT ![d] = r]
SetStatus(d, status, att) ==
    SetRow(d, [st |-> status, att |-> att, started |-> row[d].started])

\* Mutant of EnqueueRetry: the retry is not scheduled.
EnqueueNothing(d) == UNCHANGED later

EnqueueRetry(d) == later' = [later EXCEPT ![d] = @ + 1]

Fault == faults < MaxFaults /\ faults' = faults + 1

\* The score of a scheduled retry passes.
BecomeReady(d) ==
    /\ later[d] > 0
    /\ later' = [later EXCEPT ![d] = @ - 1]
    /\ ready' = [ready EXCEPT ![d] = @ + 1]
    /\ UNCHANGED <<hook, row, fresh, workers, reaper, asked, history, counters>>

-----------------------------------------------------------------------------
(* Requests: the webhook itself, DispatchEvent, ReplayDelivery *)

\* Update of the active flag, SoftDelete.
ChangeHook ==
    /\ hook # "deleted"
    /\ \E state \in {"active", "inactive", "deleted"} \ {hook} : hook' = state
    /\ UNCHANGED <<row, redisQueue, fresh, workers, reaper, asked, history, counters>>

\* The event finds no active webhook, or its row cannot be written.
DispatchNothing ==
    /\ fresh = NoDelivery
    /\ \/ hook # "active" /\ UNCHANGED faults
       \/ Fault
    /\ UNCHANGED <<hook, row, redisQueue, fresh, workers, reaper, asked, history, replays>>

\* The rate limiter refuses: a row of its own status, that is never queued.
DispatchLimited(d) ==
    /\ hook = "active"
    /\ fresh = NoDelivery
    /\ row[d].st = "none"
    /\ SetRow(d, NewRow("rate_limited"))
    /\ UNCHANGED <<hook, redisQueue, fresh, workers, reaper, asked, history, counters>>

DispatchCreate(d) ==
    /\ hook = "active"
    /\ fresh = NoDelivery
    /\ row[d].st = "none"
    /\ SetRow(d, NewRow("queued"))
    /\ fresh' = d
    /\ UNCHANGED <<hook, redisQueue, workers, reaper, asked, history, counters>>

DispatchEnqueue ==
    /\ fresh # NoDelivery
    /\ ready' = [ready EXCEPT ![fresh] = @ + 1]
    /\ fresh' = NoDelivery
    /\ UNCHANGED <<hook, row, later, workers, reaper, asked, history, counters>>

\* Redis refuses the entry: the row stays queued and is on no queue.
DispatchError ==
    /\ fresh # NoDelivery
    /\ Fault
    /\ fresh' = NoDelivery
    /\ UNCHANGED <<hook, row, redisQueue, workers, reaper, asked, history, replays>>

ReplayCheck(d) ==
    /\ asked = NoDelivery
    /\ replays < MaxReplays
    /\ Exists(d) /\ CanReplay(row[d])
    /\ replays' = replays + 1
    /\ asked' = d
    /\ UNCHANGED <<hook, row, redisQueue, fresh, workers, reaper, history, faults>>

\* The row is reset to queued.  Nothing is put on the queue.
ReplayWrite ==
    /\ asked # NoDelivery
    /\ IF Exists(asked)
         THEN /\ SetRow(asked, NewRow("queued"))
              /\ posts' = [posts EXCEPT ![asked] = 0]
         ELSE UNCHANGED <<row, posts>>
    /\ asked' = NoDelivery
    /\ UNCHANGED <<hook, redisQueue, fresh, workers, reaper, hits, counters>>

\* retentionCleanup deletes old rows, whatever their status.
Retire(d) ==
    /\ Exists(d)
    /\ SetRow(d, GoneRow)
    /\ UNCHANGED <<hook, redisQueue, fresh, workers, reaper, asked, history, counters>>

-----------------------------------------------------------------------------
(* Workers *)

Idle(w) ==
    /\ dpc' = [dpc EXCEPT ![w] = "idle"]
    /\ dat' = [dat EXCEPT ![w] = NoDelivery]
    /\ copy' = [copy EXCEPT ![w] = NoRow]

Goto(w, label) ==
    /\ dpc' = [dpc EXCEPT ![w] = label]
    /\ UNCHANGED <<dat, copy>>

\* Mutant of Dequeue: the member is read and not removed.
DequeuePeek(w, d) ==
    /\ dpc[w] = "idle"
    /\ ready[d] > 0
    /\ dpc' = [dpc EXCEPT ![w] = "got"]
    /\ dat' = [dat EXCEPT ![w] = d]
    /\ UNCHANGED <<hook, row, ready, later, fresh, copy, reaper, asked, history, counters>>

\* ZREM decides which worker has the member that several may have read.
Dequeue(w, d) ==
    /\ dpc[w] = "idle"
    /\ ready[d] > 0
    /\ ready' = [ready EXCEPT ![d] = @ - 1]
    /\ dpc' = [dpc EXCEPT ![w] = "got"]
    /\ dat' = [dat EXCEPT ![w] = d]
    /\ UNCHANGED <<hook, row, later, fresh, copy, reaper, asked, history, counters>>

\* processDelivery reads the row, whatever its status ...
Fetch(w) ==
    /\ dpc[w] = "got"
    /\ IF Exists(dat[w])
         THEN /\ dpc' = [dpc EXCEPT ![w] = "mark"]
              /\ copy' = [copy EXCEPT ![w] = row[dat[w]]]
              /\ UNCHANGED dat
         ELSE Idle(w)
    /\ UNCHANGED <<hook, row, redisQueue, fresh, reaper, asked, history, counters>>

\* ... and marks it as processing.
Mark(w) ==
    /\ dpc[w] = "mark"
    /\ IF Exists(dat[w])
         THEN /\ SetRow(dat[w], [st |-> "processing", att |-> row[dat[w]].att,
                                started |-> "recent"])
              /\ Goto(w, "check")
         ELSE UNCHANGED row /\ Idle(w)
    /\ UNCHANGED <<hook, redisQueue, fresh, reaper, asked, history, counters>>

\* The webhook is looked up, and the rate limiter asked.
Check(w) ==
    /\ dpc[w] = "check"
    /\ IF hook = "active"
         THEN \E label \in {"post", "limit"} : Goto(w, label)
         ELSE Goto(w, "fail")
    /\ UNCHANGED <<hook, row, redisQueue, fresh, reaper, asked, history, counters>>

\* The HTTP request, answered with 2xx or not.
Post(w) ==
    /\ dpc[w] = "post"
    /\ posts' = [posts EXCEPT ![dat[w]] = @ + 1]
    /\ \/ hits' = [hits EXCEPT ![dat[w]] = @ + 1] /\ Goto(w, "done")
       \/ UNCHANGED hits /\ Goto(w, "fail")
    /\ UNCHANGED <<hook, row, redisQueue, fresh, reaper, asked, counters>>

\* Mutant of MarkDelivered: the row is left as it is.
MarkNothing(w) ==
    /\ dpc[w] = "done"
    /\ Idle(w)
    /\ UNCHANGED <<hook, row, redisQueue, fresh, reaper, asked, history, counters>>

MarkDelivered(w) ==
    /\ dpc[w] = "done"
    /\ IF Exists(dat[w]) THEN SetStatus(dat[w], "delivered", row[dat[w]].att)
                        ELSE UNCHANGED row
    /\ Idle(w)
    /\ UNCHANGED <<hook, redisQueue, fresh, reaper, asked, history, counters>>

\* markFailedAndMaybeRetry: the row is failed first (an error is only logged) ...
MarkFailed(w) ==
    /\ dpc[w] = "fail"
    /\ \/ /\ IF Exists(dat[w]) THEN SetStatus(dat[w], "failed", row[dat[w]].att)
                              ELSE UNCHANGED row
          /\ UNCHANGED faults
       \/ Fault /\ UNCHANGED row
    /\ IF CanRetry(copy[w]) THEN Goto(w, "requeue") ELSE Idle(w)
    /\ UNCHANGED <<hook, redisQueue, fresh, reaper, asked, history, replays>>

\* Mutant of Requeue: the attempt is not counted.
RequeueSame(w) ==
    /\ dpc[w] = "requeue"
    /\ IF Exists(dat[w])
         THEN SetStatus(dat[w], "queued", copy[w].att) /\ Goto(w, "enqueue")
         ELSE UNCHANGED row /\ Idle(w)
    /\ UNCHANGED <<hook, redisQueue, fresh, reaper, asked, history, counters>>

\* ... then queued again, one attempt further than the copy ...
Requeue(w) ==
    /\ dpc[w] = "requeue"
    /\ IF Exists(dat[w])
         THEN SetStatus(dat[w], "queued", copy[w].att + 1) /\ Goto(w, "enqueue")
         ELSE UNCHANGED row /\ Idle(w)
    /\ UNCHANGED <<hook, redisQueue, fresh, reaper, asked, history, counters>>

\* ... or, refused by the rate limiter, marked so ...
Limit(w) ==
    /\ dpc[w] = "limit"
    /\ IF ~Exists(dat[w]) THEN UNCHANGED row /\ Idle(w)
       ELSE IF CanRetry(copy[w])
         THEN SetStatus(dat[w], "rate_limited", copy[w].att + 1) /\ Goto(w, "enqueue")
         ELSE SetStatus(dat[w], "rate_limited", row[dat[w]].att) /\ Idle(w)
    /\ UNCHANGED <<hook, redisQueue, fresh, reaper, asked, history, counters>>

\* ... and scheduled.
ScheduleRetry(w) ==
    /\ dpc[w] = "enqueue"
    /\ EnqueueRetry(dat[w])
    /\ Idle(w)
    /\ UNCHANGED <<hook, row, ready, fresh, reaper, asked, history, counters>>

\* An error of the database or of Redis ends the delivery where it stands.
WorkerError(w) ==
    /\ dpc[w] \in {"got", "mark", "done", "requeue", "limit", "enqueue"}
    /\ Fault
    /\ Idle(w)
    /\ UNCHANGED <<hook, row, redisQueue, fresh, reaper, asked, history, replays>>

\* An error of the webhook lookup counts as a failed attempt.
LookupError(w) ==
    /\ dpc[w] = "check"
    /\ Fault
    /\ Goto(w, "fail")
    /\ UNCHANGED <<hook, row, redisQueue, fresh, reaper, asked, history, replays>>

-----------------------------------------------------------------------------
(* The reaper *)

HeldByWorker(d) == \E w \in Couriers : dat[w] = d

\* Twice the delivery timeout passes since processing_started_at.  A worker is
\* done within that time: the request alone may take the timeout once.
Age(d) ==
    /\ row[d].st = "processing"
    /\ row[d].started = "recent"
    /\ ~HeldByWorker(d)
    /\ SetRow(d, [row[d] EXCEPT !.started = "old"])
    /\ UNCHANGED <<hook, redisQueue, fresh, workers, reaper, asked, history, counters>>

\* Mutants of Stuck: every delivery in processing, and none.
AnyProcessing(r) == r.st = "processing"
NeverStuck(r) == FALSE

Stuck(r) == r.st = "processing" /\ r.started = "old"

InFound(d) == found[d] # NoRow

\* FindStuckProcessing, one query.
Reap ==
    /\ rpc = "idle"
    /\ \E d \in Deliveries : Stuck(row[d])
    /\ found' = [d \in Deliveries |-> IF Stuck(row[d]) THEN row[d] ELSE NoRow]
    /\ rpc' = "loop"
    /\ UNCHANGED <<hook, row, redisQueue, fresh, workers, rat, asked, history, counters>>

NextFound(rest) ==
    /\ found' = rest
    /\ rat' = NoDelivery
    /\ rpc' = IF \E d \in Deliveries : rest[d] # NoRow THEN "loop" ELSE "idle"

\* The listed delivery is failed and, if its copy may be retried, ...
ReapFail(d) ==
    /\ rpc = "loop"
    /\ InFound(d)
    /\ IF Exists(d) THEN SetStatus(d, "failed", row[d].att) ELSE UNCHANGED row
    /\ IF Exists(d) /\ CanRetry(found[d])
         THEN rpc' = "requeue" /\ rat' = d /\ UNCHANGED found
         ELSE NextFound([found EXCEPT ![d] = NoRow])
    /\ UNCHANGED <<hook, redisQueue, fresh, workers, asked, history, counters>>

\* ... queued again ...
ReapRequeue ==
    /\ rpc = "requeue"
    /\ IF Exists(rat)
         THEN /\ SetStatus(rat, "queued", found[rat].att + 1)
              /\ rpc' = "enqueue"
              /\ UNCHANGED <<found, rat>>
         ELSE UNCHANGED row /\ NextFound([found EXCEPT ![rat] = NoRow])
    /\ UNCHANGED <<hook, redisQueue, fresh, workers, asked, history, counters>>

\* ... and scheduled.
ReapSchedule ==
    /\ rpc = "enqueue"
    /\ EnqueueRetry(rat)
    /\ NextFound([found EXCEPT ![rat] = NoRow])
    /\ UNCHANGED <<hook, row, ready, fresh, workers, asked, history, counters>>

ReapError ==
    /\ rpc # "idle"
    /\ Fault
    /\ \E d \in Deliveries :
         /\ IF rpc = "loop" THEN InFound(d) ELSE d = rat
         /\ NextFound([found EXCEPT ![d] = NoRow])
    /\ UNCHANGED <<hook, row, redisQueue, fresh, workers, asked, history, replays>>

\* The process ends, or Stop cancels the context under everything it does; a
\* new one starts.
CutOff ==
    /\ Fault
    /\ fresh' = NoDelivery
    /\ dpc' = [w \in Couriers |-> "idle"]
    /\ dat' = [w \in Couriers |-> NoDelivery]
    /\ copy' = [w \in Couriers |-> NoRow]
    /\ rpc' = "idle"
    /\ found' = [d \in Deliveries |-> NoRow]
    /\ rat' = NoDelivery
    /\ asked' = NoDelivery
    /\ UNCHANGED <<hook, row, redisQueue, history, replays>>

-----------------------------------------------------------------------------

CourierRun(w) ==
    \/ \E d \in Deliveries : Dequeue(w, d)
    \/ Fetch(w) \/ Mark(w) \/ Check(w) \/ Post(w) \/ MarkDelivered(w)
    \/ MarkFailed(w) \/ Requeue(w) \/ Limit(w) \/ ScheduleRetry(w)

ReaperRun ==
    \/ Reap
    \/ \E d \in Deliveries : ReapFail(d)
    \/ ReapRequeue \/ ReapSchedule

\* Everything but DispatchEvent and the end of the process.
DeliveryStep ==
    \/ \E d \in Deliveries : BecomeReady(d) \/ ReplayCheck(d) \/ Retire(d) \/ Age(d)
    \/ ChangeHook
    \/ ReplayWrite
    \/ \E w \in Couriers : CourierRun(w) \/ WorkerError(w) \/ LookupError(w)
    \/ ReaperRun
    \/ ReapError

DeliveryNext ==
    \/ DeliveryStep
    \/ \E d \in Deliveries : DispatchLimited(d) \/ DispatchCreate(d)
    \/ DispatchNothing
    \/ DispatchEnqueue
    \/ DispatchError
    \/ CutOff

DeliverySpec == DeliveryInit /\ [][DeliveryNext]_hookVars

\* Tickers tick and time passes.
DeliveryFairness ==
    /\ WF_hookVars(DispatchEnqueue)
    /\ \A d \in Deliveries : WF_hookVars(BecomeReady(d)) /\ WF_hookVars(Age(d))
    /\ \A w \in Couriers : WF_hookVars(CourierRun(w))
    /\ WF_hookVars(ReaperRun)

FairDeliverySpec == DeliverySpec /\ DeliveryFairness

-----------------------------------------------------------------------------
(* Properties *)

InQueue(d) == ready[d] > 0 \/ later[d] > 0
AtReaper(d) == rat = d \/ InFound(d)

\* One party at a time has a delivery: its dispatcher, one entry of the queue,
\* one worker, or the reaper, over crashes, errors and replays.
HeldOnce(d) ==
    /\ ready[d] + later[d] <= 1
    /\ InQueue(d) => ~HeldByWorker(d) /\ ~AtReaper(d) /\ fresh # d
    /\ HeldByWorker(d) => ~AtReaper(d) /\ fresh # d
    /\ fresh = d => ~AtReaper(d)
    /\ \A w1, w2 \in Couriers : dat[w1] = d /\ dat[w2] = d => w1 = w2

SingleHolder == DeliveryTypeOK /\ \A d \in Deliveries : HeldOnce(d)

\* The receiver is sent at most MaxAttempts requests for a delivery between two
\* replays, over crashes before and after each of the writes that count them.
BoundedPosts == \A d \in Deliveries : posts[d] <= MaxAttempts

\* Without faults and replays the receiver accepts a delivery at most once.
AcceptedOnce ==
    faults = 0 /\ replays = 0 => \A d \in Deliveries : hits[d] <= 1

\* Nobody but a replay or the retention cleanup touches a delivered row.
DeliveredIsFinal ==
    [][\A d \in Deliveries :
         row[d].st = "delivered" =>
            row'[d] \in {row[d], GoneRow}
              \/ (asked = d /\ row'[d] = NewRow("queued"))]_hookVars

\* A delivery is with one party, is sent at most MaxAttempts times and accepted
\* at most once: SingleHolder, BoundedPosts and AcceptedOnce.
DeliveredOnce == SingleHolder /\ BoundedPosts /\ AcceptedOnce

\* What the rate limiter of the dispatch refused has a row and is never queued.
NeverQueued(d) == row[d].st = "none" \/ row[d] = NewRow("rate_limited")

Ended(d) ==
    \/ row[d].st \in {"delivered", "gone"}
    \/ row[d].st \in {"failed", "rate_limited"} /\ row[d].att = MaxAttempts

\* Whether or not the endpoint answers, and over any change of the webhook, a
\* queued delivery comes to an end, if no fault and no replay intervenes.
EveryDeliverySettles ==
    \A d \in Deliveries :
        []<>(NeverQueued(d) \/ Ended(d) \/ faults > 0 \/ replays > 0)

\* A delivery whose worker died is found by the reaper, errors included.
StuckIsRecovered ==
    \A d \in Deliveries : []<>(row[d].st # "processing")

-----------------------------------------------------------------------------
(* What the documentation says and the code does not do *)

\* specs/006-webhook-system/contracts/api-v1.md:270, a replay resets the
\* delivery "to `queued` with `attempt_number=1` for immediate pickup by the
\* worker".
ReplayedIsPickedUp ==
    \A d \in Deliveries :
        (replays = 1 /\ asked = NoDelivery /\ row[d] = NewRow("queued"))
            ~> (row[d].st # "queued" \/ row[d].att # 1)

-----------------------------------------------------------------------------
(* What DeliveredOnce rests on *)

\* What is queued once more has an attempt left, and the reaper does so from a copy.
RetriesAreLeft ==
    /\ \A w \in Couriers : dpc[w] = "requeue" => copy[w].att < MaxAttempts
    /\ rpc = "requeue" => found[rat].att < MaxAttempts
    /\ rpc \in {"requeue", "enqueue"} => InFound(rat)

\* A delivery that has no row yet, or is delivered, is with nobody; one that is
\* marked as processing is neither queued nor about to be, and once its mark is old
\* no worker has it.
WithNobody(d) == ~InQueue(d) /\ ~HeldByWorker(d) /\ ~AtReaper(d) /\ fresh # d
RowTellsHolder(d) ==
    /\ row[d].st \in {"none", "delivered"} => WithNobody(d)
    /\ row[d].st = "none" => posts[d] = 0
    /\ row[d].st = "processing" =>
         /\ ~InQueue(d) /\ fresh # d /\ rat # d
         /\ \A w \in Couriers : dat[w] = d => dpc[w] # "enqueue"
         /\ row[d].started = "old" => ~HeldByWorker(d)

\* Whoever is to send a delivery knows of an attempt for it that has not been used,
\* whoever has sent it of the one he used.
ToSend == {"got", "mark", "check", "post", "limit", "enqueue"}
Unsent(d) ==
    \/ InQueue(d) \/ fresh = d \/ (rat = d /\ rpc = "enqueue")
    \/ \E w \in Couriers : dat[w] = d /\ dpc[w] \in ToSend
AttemptsCount(d) ==
    /\ posts[d] <= MaxAttempts
    /\ Exists(d) => posts[d] <= row[d].att
    /\ Exists(d) /\ Unsent(d) => posts[d] < row[d].att
    /\ InFound(d) => posts[d] <= found[d].att
    /\ \A w \in Couriers :
         /\ dat[w] = d /\ dpc[w] \in {"mark", "check", "post", "limit"} => posts[d] < copy[w].att
         /\ dat[w] = d /\ dpc[w] \in {"done", "fail", "requeue"} => posts[d] <= copy[w].att

\* As long as nothing fails, a delivery that was accepted is with nobody but the
\* worker that is about to say so.
AcceptedIsDone(d) ==
    /\ hits[d] <= 1
    /\ hits[d] = 1 =>
         /\ ~InQueue(d) /\ fresh # d /\ ~AtReaper(d)
         /\ \A w \in Couriers : dat[w] = d => dpc[w] = "done"
         /\ row[d].st = "processing" => HeldByWorker(d)
         /\ row[d].st # "none"

DeliveryInv ==
    /\ SingleHolder
    /\ RetriesAreLeft
    /\ \A d \in Deliveries : RowTellsHolder(d) /\ AttemptsCount(d)
    /\ faults = 0 => \A d \in Deliveries : AcceptedIsDone(d)
=============================================================================
