---------------------------- MODULE WebhookProofs ----------------------------
(***************************************************************************)
(* Proofs about the webhook deliveries, the event bus and their            *)
(* composition, for any number of deliveries, workers and events, any      *)
(* buffer and any number of attempts, faults and replays.                  *)
(***************************************************************************)
EXTENDS WebhookSystem, SequenceTheorems, TLAPS

-----------------------------------------------------------------------------
(* Types of the deliveries *)

\* Rows and copies of them are written with values the columns can hold.
LEMMA RowsAreTyped ==
    /\ NoRow \in Row /\ GoneRow \in Row
    /\ NewRow("queued") \in Row /\ NewRow("rate_limited") \in Row
    /\ \A r \in Row, s \in DeliveryStatus, n \in 0..MaxAttempts :
         /\ r.att \in 0..MaxAttempts
         /\ [st |-> s, att |-> n, started |-> r.started] \in Row
BY MaxAttemptsAssumption DEF Row, NoRow, GoneRow, NewRow, DeliveryStatus

\* What SetRow writes is all that changes in the table.
LEMMA SetRowWrites ==
    ASSUME row \in [Deliveries -> Row], NEW d \in Deliveries, NEW r \in Row, SetRow(d, r)
    PROVE  /\ row' \in [Deliveries -> Row]
           /\ row'[d] = r
           /\ \A x \in Deliveries \ {d} : row'[x] = row[x]
BY DEF SetRow

\* The same for SetStatus, which keeps processing_started_at.
LEMMA SetStatusWrites ==
    ASSUME row \in [Deliveries -> Row], NEW d \in Deliveries,
           NEW s \in DeliveryStatus, NEW n \in 0..MaxAttempts, SetStatus(d, s, n)
    PROVE  /\ row' \in [Deliveries -> Row]
           /\ row'[d].st = s /\ row'[d].att = n
           /\ \A x \in Deliveries \ {d} : row'[x] = row[x]
<1> DEFINE r == [st |-> s, att |-> n, started |-> row[d].started]
<1>1. r \in Row
  <2>1. row[d] \in Row
    OBVIOUS
  <2> QED BY <2>1, RowsAreTyped
<1>2. SetRow(d, r)
  BY DEF SetStatus
<1>3. r.st = s /\ r.att = n
  OBVIOUS
<1> HIDE DEF r
<1> QED BY <1>1, <1>2, <1>3, SetRowWrites

\* A row that is only marked otherwise, not counted further, keeps its type.
LEMMA SameAttempt ==
    ASSUME row \in [Deliveries -> Row], NEW d \in Deliveries
    PROVE  row[d].att \in 0..MaxAttempts
BY DEF Row

\* What Mark and Age write keeps the type.
LEMMA MarksAreTyped ==
    ASSUME NEW r \in Row
    PROVE  /\ [st |-> "processing", att |-> r.att, started |-> "recent"] \in Row
           /\ [r EXCEPT !.started = "old"] \in Row
BY DEF Row, DeliveryStatus

\* A copy of a row with an attempt left can be counted one further.
LEMMA NextAttempt ==
    ASSUME NEW r \in Row, r.att < MaxAttempts
    PROVE  r.att + 1 \in 0..MaxAttempts
BY MaxAttemptsAssumption DEF Row

\* Every step keeps the types; what the workers and the reaper queue again has an
\* attempt left.
LEMMA DeliveryTypes ==
    ASSUME DeliveryTypeOK, RetriesAreLeft, [DeliveryNext]_hookVars
    PROVE  DeliveryTypeOK' /\ RetriesAreLeft'
<1>0. /\ NoRow \in Row /\ GoneRow \in Row
      /\ NewRow("queued") \in Row /\ NewRow("rate_limited") \in Row
  BY RowsAreTyped
<1>a. row \in [Deliveries -> Row] /\ copy \in [Couriers -> Row] /\ found \in [Deliveries -> Row]
  BY DEF DeliveryTypeOK
<1> USE NoDeliveryAssumption, DeliveryBoundsAssumption
<1> USE DEF redisQueue, workers, reaper, history, counters, DeliveryTypeOK, RetriesAreLeft,
            InFound, WorkerPC
<1>1. CASE UNCHANGED hookVars
  BY <1>1 DEF hookVars
<1>2. ASSUME NEW d \in Deliveries, BecomeReady(d)
      PROVE  DeliveryTypeOK' /\ RetriesAreLeft'
  BY <1>2 DEF BecomeReady
<1>3. ASSUME NEW d \in Deliveries, ReplayCheck(d)
      PROVE  DeliveryTypeOK' /\ RetriesAreLeft'
  BY <1>3 DEF ReplayCheck
<1>4. ASSUME NEW d \in Deliveries, Retire(d)
      PROVE  DeliveryTypeOK' /\ RetriesAreLeft'
  <2>1. row' \in [Deliveries -> Row]
    BY <1>0, <1>a, <1>4, SetRowWrites DEF Retire
  <2> QED BY <1>0, <2>1, <1>4 DEF Retire
<1>5. ASSUME NEW d \in Deliveries, Age(d)
      PROVE  DeliveryTypeOK' /\ RetriesAreLeft'
  <2>1. row' \in [Deliveries -> Row]
    <3>1. [row[d] EXCEPT !.started = "old"] \in Row
      BY <1>a, MarksAreTyped
    <3> QED BY <1>a, <3>1, <1>5, SetRowWrites DEF Age
  <2> QED BY <1>0, <2>1, <1>5 DEF Age
<1>6. CASE ChangeHook
  BY <1>6 DEF ChangeHook
<1>7. CASE ReplayWrite
  <2>1. row' \in [Deliveries -> Row]
    BY <1>0, <1>a, <1>7, SetRowWrites DEF ReplayWrite
  <2> QED BY <1>0, <2>1, <1>7 DEF ReplayWrite
<1>8. ASSUME NEW w \in Couriers, NEW d \in Deliveries, Dequeue(w, d)
      PROVE  DeliveryTypeOK' /\ RetriesAreLeft'
  BY <1>8 DEF Dequeue
<1>9. ASSUME NEW w \in Couriers, Fetch(w)
      PROVE  DeliveryTypeOK' /\ RetriesAreLeft'
  BY <1>0, <1>9 DEF Fetch, Idle
<1>10. ASSUME NEW w \in Couriers, Mark(w)
      PROVE  DeliveryTypeOK' /\ RetriesAreLeft'
  <2>1. row' \in [Deliveries -> Row]
    <3>1. CASE UNCHANGED row
      BY <1>a, <3>1
    <3>2. CASE ~UNCHANGED row
      <4>1. /\ dat[w] \in Deliveries
            /\ SetRow(dat[w], [st |-> "processing", att |-> row[dat[w]].att, started |-> "recent"])
        BY <1>10, <3>2 DEF Mark
      <4>2. [st |-> "processing", att |-> row[dat[w]].att, started |-> "recent"] \in Row
        BY <1>a, <4>1, MarksAreTyped
      <4> QED BY <1>a, <4>1, <4>2, SetRowWrites
    <3> QED BY <3>1, <3>2
  <2> QED BY <1>0, <2>1, <1>10 DEF Mark, Idle, Goto
<1>11. ASSUME NEW w \in Couriers, Check(w)
      PROVE  DeliveryTypeOK' /\ RetriesAreLeft'
  BY <1>11 DEF Check, Goto
<1>12. ASSUME NEW w \in Couriers, Post(w)
      PROVE  DeliveryTypeOK' /\ RetriesAreLeft'
  BY <1>12 DEF Post, Goto
<1>13. ASSUME NEW w \in Couriers, MarkDelivered(w)
      PROVE  DeliveryTypeOK' /\ RetriesAreLeft'
  <2>1. row' \in [Deliveries -> Row]
    BY <1>a, <1>13, SetStatusWrites, SameAttempt DEF MarkDelivered, DeliveryStatus
  <2> QED BY <1>0, <2>1, <1>13 DEF MarkDelivered, Idle
<1>14. ASSUME NEW w \in Couriers, MarkFailed(w)
      PROVE  DeliveryTypeOK' /\ RetriesAreLeft'
  <2>1. row' \in [Deliveries -> Row]
    BY <1>a, <1>14, SetStatusWrites, SameAttempt DEF MarkFailed, DeliveryStatus
  <2> QED BY <1>0, <2>1, <1>14 DEF MarkFailed, Idle, Goto, Fault, CanRetry
<1>15. ASSUME NEW w \in Couriers, Requeue(w)
      PROVE  DeliveryTypeOK' /\ RetriesAreLeft'
  <2>1. row' \in [Deliveries -> Row]
    BY <1>a, <1>15, SetStatusWrites, NextAttempt DEF Requeue, DeliveryStatus
  <2> QED BY <1>0, <2>1, <1>15 DEF Requeue, Idle, Goto
<1>16. ASSUME NEW w \in Couriers, Limit(w)
      PROVE  DeliveryTypeOK' /\ RetriesAreLeft'
  <2>1. row' \in [Deliveries -> Row]
    BY <1>a, <1>16, SetStatusWrites, SameAttempt, NextAttempt DEF Limit, CanRetry, DeliveryStatus
  <2> QED BY <1>0, <2>1, <1>16 DEF Limit, Idle, Goto, CanRetry
<1>17. ASSUME NEW w \in Couriers, ScheduleRetry(w)
      PROVE  DeliveryTypeOK' /\ RetriesAreLeft'
  BY <1>0, <1>17 DEF ScheduleRetry, EnqueueRetry, Idle
<1>18. ASSUME NEW w \in Couriers, WorkerError(w)
      PROVE  DeliveryTypeOK' /\ RetriesAreLeft'
  BY <1>0, <1>18 DEF WorkerError, Idle, Fault
<1>19. ASSUME NEW w \in Couriers, LookupError(w)
      PROVE  DeliveryTypeOK' /\ RetriesAreLeft'
  BY <1>19 DEF LookupError, Goto, Fault
<1>20. CASE Reap
  BY <1>0, <1>20 DEF Reap
<1>21. ASSUME NEW d \in Deliveries, ReapFail(d)
      PROVE  DeliveryTypeOK' /\ RetriesAreLeft'
  <2>1. row' \in [Deliveries -> Row]
    BY <1>a, <1>21, SetStatusWrites, SameAttempt DEF ReapFail, DeliveryStatus
  <2> QED BY <1>0, <2>1, <1>21 DEF ReapFail, NextFound, CanRetry
<1>22. CASE ReapRequeue
  <2>1. row' \in [Deliveries -> Row]
    BY <1>a, <1>22, SetStatusWrites, NextAttempt DEF ReapRequeue, DeliveryStatus
  <2> QED BY <1>0, <2>1, <1>22 DEF ReapRequeue, NextFound
<1>23. CASE ReapSchedule
  BY <1>0, <1>23 DEF ReapSchedule, NextFound, EnqueueRetry
<1>24. CASE ReapError
  BY <1>0, <1>24 DEF ReapError, NextFound, Fault
<1>25. ASSUME NEW d \in Deliveries, DispatchLimited(d) \/ DispatchCreate(d)
      PROVE  DeliveryTypeOK' /\ RetriesAreLeft'
  <2>1. row' \in [Deliveries -> Row]
    BY <1>0, <1>a, <1>25, SetRowWrites DEF DispatchLimited, DispatchCreate
  <2> QED BY <1>0, <2>1, <1>25 DEF DispatchLimited, DispatchCreate
<1>26. CASE DispatchNothing \/ DispatchEnqueue \/ DispatchError
  BY <1>26 DEF DispatchNothing, DispatchEnqueue, DispatchError, Fault
<1>27. CASE CutOff
  BY <1>0, <1>27 DEF CutOff, Fault
<1> QED
  BY <1>1, <1>2, <1>3, <1>4, <1>5, <1>6, <1>7, <1>8, <1>9, <1>10, <1>11, <1>12, <1>13, <1>14, <1>15, <1>16, <1>17, <1>18, <1>19, <1>20, <1>21, <1>22, <1>23, <1>24, <1>25, <1>26, <1>27
  DEF DeliveryNext, DeliveryStep, CourierRun, ReaperRun


-----------------------------------------------------------------------------
(* Kinds of steps *)

\* Somebody may let go of what it holds, and nothing else happens to a delivery:
\* errors, crashes, and what is only asked or switched.
LetGo ==
    /\ UNCHANGED <<row, redisQueue, history>>
    /\ fresh' \in {fresh, NoDelivery}
    /\ \A w \in Couriers :
         \/ dat'[w] = dat[w] /\ dpc'[w] = dpc[w] /\ copy'[w] = copy[w]
         \/ dat'[w] = NoDelivery /\ dpc'[w] = "idle"
    /\ \A d \in Deliveries : found'[d] \in {found[d], NoRow}
    /\ UNCHANGED <<rpc, rat>> \/ (rpc' \in {"idle", "loop"} /\ rat' = NoDelivery)
    /\ faults' \in Nat /\ faults' >= faults
    /\ dat' = dat \/ faults' > 0

\* What a worker does between the dequeue and the scheduling of a retry.
OwnAction(w) ==
    \/ Fetch(w) \/ Mark(w) \/ Check(w) \/ Post(w) \/ MarkDelivered(w)
    \/ MarkFailed(w) \/ Requeue(w) \/ Limit(w) \/ LookupError(w)

\* It disturbs nobody's delivery but its own.
OwnStep(w) ==
    /\ dat[w] \in Deliveries
    /\ UNCHANGED <<redisQueue, fresh, reaper>>
    /\ \A v \in Couriers \ {w} : dat'[v] = dat[v] /\ dpc'[v] = dpc[v] /\ copy'[v] = copy[v]
    /\ dat'[w] \in {dat[w], NoDelivery}
    /\ \A d \in Deliveries \ {dat[w]} :
         row'[d] = row[d] /\ posts'[d] = posts[d] /\ hits'[d] = hits[d]
    /\ faults' \in Nat /\ faults' >= faults

\* Each action of a worker takes one of those steps.
LEMMA OwnSteps ==
    ASSUME DeliveryTypeOK, NEW w \in Couriers, OwnAction(w)
    PROVE  OwnStep(w)
<1> USE NoDeliveryAssumption, DeliveryBoundsAssumption
<1> USE DEF redisQueue, workers, reaper, history, counters, DeliveryTypeOK, OwnStep, Idle, Goto,
            SetStatus, SetRow, Fault
<1>1. CASE Fetch(w)
  BY <1>1 DEF Fetch
<1>2. CASE Mark(w)
  BY <1>2 DEF Mark
<1>3. CASE Check(w)
  BY <1>3 DEF Check
<1>4. CASE Post(w)
  BY <1>4 DEF Post
<1>5. CASE MarkDelivered(w)
  BY <1>5 DEF MarkDelivered
<1>6. CASE MarkFailed(w)
  BY <1>6 DEF MarkFailed
<1>7. CASE Requeue(w)
  BY <1>7 DEF Requeue
<1>8. CASE Limit(w)
  BY <1>8 DEF Limit
<1>9. CASE LookupError(w)
  BY <1>9 DEF LookupError
<1> QED BY <1>1, <1>2, <1>3, <1>4, <1>5, <1>6, <1>7, <1>8, <1>9 DEF OwnAction

\* Every step is of one of these kinds, or is told apart by its own name.
LEMMA DeliverySteps ==
    ASSUME DeliveryTypeOK, [DeliveryNext]_hookVars
    PROVE  \/ LetGo
           \/ \E d \in Deliveries : BecomeReady(d) \/ Retire(d) \/ Age(d)
           \/ ReplayWrite
           \/ \E d \in Deliveries : DispatchLimited(d) \/ DispatchCreate(d)
           \/ DispatchEnqueue
           \/ \E w \in Couriers : \/ \E d \in Deliveries : Dequeue(w, d)
                                  \/ OwnAction(w)
                                  \/ ScheduleRetry(w)
           \/ Reap
           \/ \E d \in Deliveries : ReapFail(d)
           \/ ReapRequeue \/ ReapSchedule
<1> USE DEF redisQueue, workers, reaper, history, counters, DeliveryTypeOK, LetGo
<1>1. CASE UNCHANGED hookVars
  BY <1>1 DEF hookVars
<1>2. ASSUME NEW d \in Deliveries, ReplayCheck(d) PROVE LetGo
  BY <1>2 DEF ReplayCheck
<1>3. CASE ChangeHook
  BY <1>3 DEF ChangeHook
<1>4. CASE DispatchNothing \/ DispatchError
  BY <1>4 DEF DispatchNothing, DispatchError, Fault
<1>5. ASSUME NEW w \in Couriers, WorkerError(w) PROVE LetGo
  BY <1>5 DEF WorkerError, Idle, Fault
<1>6. CASE ReapError
  BY <1>6 DEF ReapError, NextFound, Fault
<1>7. CASE CutOff
  BY <1>7 DEF CutOff, Fault
<1> HIDE DEF LetGo
<1> QED
  BY <1>1, <1>2, <1>3, <1>4, <1>5, <1>6, <1>7
  DEF DeliveryNext, DeliveryStep, CourierRun, ReaperRun, OwnAction

-----------------------------------------------------------------------------
(* One holder *)

\* No step gives a delivery to a second party.
LEMMA HeldOnceKept ==
    ASSUME DeliveryTypeOK, DeliveryTypeOK',
           \A d \in Deliveries : HeldOnce(d) /\ RowTellsHolder(d),
           [DeliveryNext]_hookVars, NEW d \in Deliveries
    PROVE  HeldOnce(d)'
<1> USE NoDeliveryAssumption
<1> USE DEF redisQueue, workers, reaper, history, counters, DeliveryTypeOK, HeldOnce, InQueue,
            HeldByWorker, AtReaper, InFound, NoRow
<1>1. CASE LetGo
  BY <1>1 DEF LetGo
<1>2. ASSUME NEW e \in Deliveries, BecomeReady(e) PROVE HeldOnce(d)'
  BY <1>2 DEF BecomeReady
<1>3. ASSUME NEW e \in Deliveries, Retire(e) \/ Age(e) PROVE HeldOnce(d)'
  BY <1>3 DEF Retire, Age
<1>4. CASE ReplayWrite
  BY <1>4 DEF ReplayWrite
<1>5. ASSUME NEW e \in Deliveries, DispatchLimited(e) PROVE HeldOnce(d)'
  BY <1>5 DEF DispatchLimited
<1>6. ASSUME NEW e \in Deliveries, DispatchCreate(e) PROVE HeldOnce(d)'
  <2>1. WithNobody(e)
    BY <1>6 DEF DispatchCreate, RowTellsHolder
  <2>2. UNCHANGED <<ready, later, dat, rpc, found, rat>> /\ fresh = NoDelivery /\ fresh' = e
    BY <1>6 DEF DispatchCreate
  <2> QED BY <2>1, <2>2 DEF WithNobody
<1>7. CASE DispatchEnqueue
  BY <1>7 DEF DispatchEnqueue
<1>8. ASSUME NEW w \in Couriers, NEW e \in Deliveries, Dequeue(w, e) PROVE HeldOnce(d)'
  BY <1>8 DEF Dequeue
<1>9. ASSUME NEW w \in Couriers, OwnAction(w) PROVE HeldOnce(d)'
  <2>1. OwnStep(w)
    BY <1>9, OwnSteps
  <2>2. UNCHANGED <<ready, later, fresh, rpc, found, rat>>
    BY <2>1 DEF OwnStep
  <2>3. \A v \in Couriers : dat'[v] \in {dat[v], NoDelivery}
    BY <2>1 DEF OwnStep
  <2> QED BY <2>2, <2>3
<1>10. ASSUME NEW w \in Couriers, ScheduleRetry(w) PROVE HeldOnce(d)'
  BY <1>10 DEF ScheduleRetry, EnqueueRetry, Idle
<1>11. CASE Reap
  BY <1>11 DEF Reap, Stuck, RowTellsHolder
<1>12. ASSUME NEW e \in Deliveries, ReapFail(e) PROVE HeldOnce(d)'
  BY <1>12 DEF ReapFail, NextFound
<1>13. CASE ReapRequeue
  BY <1>13 DEF ReapRequeue, NextFound
<1>14. CASE ReapSchedule
  BY <1>14 DEF ReapSchedule, NextFound, EnqueueRetry
<1> QED
  BY <1>1, <1>2, <1>3, <1>4, <1>5, <1>6, <1>7, <1>8, <1>9, <1>10, <1>11, <1>12, <1>13,
     <1>14, DeliverySteps


-----------------------------------------------------------------------------
(* What the row tells *)

\* A worker whose step leaves it its delivery leaves the row alone or in a status
\* that is neither empty, delivered nor processing, or marks it as processing now.
LEMMA OwnRow ==
    ASSUME DeliveryTypeOK, NEW w \in Couriers, OwnAction(w), NEW d \in Deliveries, dat[w] = d
    PROVE  \/ row'[d] = row[d] /\ (dat'[w] = d => dpc'[w] # "enqueue")
           \/ row'[d].st \in {"queued", "failed", "rate_limited", "gone"}
           \/ row'[d].st = "processing" /\ row'[d].started = "recent" /\ dpc'[w] = "check"
           \/ row'[d].st = "delivered" /\ dat'[w] = NoDelivery
<1> USE DEF DeliveryTypeOK, Idle, Goto, SetStatus, SetRow, workers
<1>1. CASE Fetch(w)
  BY <1>1 DEF Fetch
<1>2. CASE Mark(w)
  BY <1>2 DEF Mark
<1>3. CASE Check(w)
  BY <1>3 DEF Check
<1>4. CASE Post(w)
  BY <1>4 DEF Post
<1>5. CASE MarkDelivered(w)
  BY <1>5 DEF MarkDelivered
<1>6. CASE MarkFailed(w)
  BY <1>6 DEF MarkFailed
<1>7. CASE Requeue(w)
  BY <1>7 DEF Requeue
<1>8. CASE Limit(w)
  BY <1>8 DEF Limit
<1>9. CASE LookupError(w)
  BY <1>9 DEF LookupError
<1> QED BY <1>1, <1>2, <1>3, <1>4, <1>5, <1>6, <1>7, <1>8, <1>9 DEF OwnAction

\* While a worker has a delivery, so that no other party does, that is so after a
\* step of the worker as well.
LEMMA OwnDelivery ==
    ASSUME DeliveryTypeOK, NEW w \in Couriers, OwnStep(w), NEW d \in Deliveries,
           dat[w] = d, HeldOnce(d)
    PROVE  /\ ~InQueue(d)' /\ fresh' # d /\ ~AtReaper(d)'
           /\ \A v \in Couriers \ {w} : dat'[v] # d
           /\ HeldByWorker(d)' <=> dat'[w] = d
BY NoDeliveryAssumption
   DEF DeliveryTypeOK, OwnStep, HeldOnce, HeldByWorker, InQueue, AtReaper, InFound, redisQueue, reaper

\* A delivery that is not its own is for a worker's step as it was.
LEMMA OtherDelivery ==
    ASSUME DeliveryTypeOK, NEW w \in Couriers, OwnStep(w), NEW d \in Deliveries, dat[w] # d
    PROVE  /\ row'[d] = row[d] /\ posts'[d] = posts[d] /\ hits'[d] = hits[d]
           /\ UNCHANGED <<ready, later, fresh, rpc, found, rat>>
           /\ \A v \in Couriers : dat'[v] = d <=> dat[v] = d
           /\ \A v \in Couriers : dat[v] = d => dpc'[v] = dpc[v] /\ copy'[v] = copy[v]
           /\ InQueue(d)' = InQueue(d)
           /\ HeldByWorker(d)' = HeldByWorker(d)
           /\ AtReaper(d)' = AtReaper(d)
<1>1. /\ row'[d] = row[d] /\ posts'[d] = posts[d] /\ hits'[d] = hits[d]
      /\ UNCHANGED <<ready, later, fresh, rpc, found, rat>>
  BY DEF OwnStep, redisQueue, reaper
<1>2. /\ \A v \in Couriers : dat'[v] = d <=> dat[v] = d
      /\ \A v \in Couriers : dat[v] = d => dpc'[v] = dpc[v] /\ copy'[v] = copy[v]
  BY NoDeliveryAssumption DEF OwnStep
<1> QED BY <1>1, <1>2 DEF InQueue, HeldByWorker, AtReaper, InFound

\* No step leaves somebody with a delivery whose row says that nobody has it.
LEMMA RowTellsHolderKept ==
    ASSUME DeliveryTypeOK, DeliveryTypeOK',
           \A d \in Deliveries : HeldOnce(d) /\ RowTellsHolder(d),
           [DeliveryNext]_hookVars, NEW d \in Deliveries
    PROVE  RowTellsHolder(d)'
<1> USE NoDeliveryAssumption
<1> USE DEF redisQueue, workers, reaper, history, counters, DeliveryTypeOK, RowTellsHolder,
            WithNobody, InQueue, HeldByWorker, AtReaper, InFound, NoRow
<1>1. CASE LetGo
  BY <1>1 DEF LetGo
<1>2. ASSUME NEW e \in Deliveries, BecomeReady(e) PROVE RowTellsHolder(d)'
  BY <1>2 DEF BecomeReady
<1>3. ASSUME NEW e \in Deliveries, Retire(e) PROVE RowTellsHolder(d)'
  BY <1>3 DEF Retire, SetRow, Exists, GoneRow
<1>4. ASSUME NEW e \in Deliveries, Age(e) PROVE RowTellsHolder(d)'
  <2>1. UNCHANGED <<ready, later, fresh, dpc, dat, rpc, found, rat, posts>> /\ ~HeldByWorker(e)
    BY <1>4 DEF Age
  <2>2. row'[e].st = "processing" /\ row[e].st = "processing"
    BY <1>4 DEF Age, SetRow
  <2>3. d # e => row'[d] = row[d]
    BY <1>4 DEF Age, SetRow
  <2>4. CASE d # e
    BY <2>1, <2>3, <2>4
  <2>5. CASE d = e
    BY <2>1, <2>2, <2>5
  <2> QED BY <2>4, <2>5
<1>5. CASE ReplayWrite
  BY <1>5 DEF ReplayWrite, SetRow, Exists, NewRow
<1>6. ASSUME NEW e \in Deliveries, DispatchLimited(e) PROVE RowTellsHolder(d)'
  BY <1>6 DEF DispatchLimited, SetRow, NewRow
<1>7. ASSUME NEW e \in Deliveries, DispatchCreate(e) PROVE RowTellsHolder(d)'
  BY <1>7 DEF DispatchCreate, SetRow, NewRow
<1>8. CASE DispatchEnqueue
  BY <1>8 DEF DispatchEnqueue
<1>9. ASSUME NEW w \in Couriers, NEW e \in Deliveries, Dequeue(w, e) PROVE RowTellsHolder(d)'
  BY <1>9 DEF Dequeue, HeldOnce
<1>10. ASSUME NEW w \in Couriers, OwnAction(w), dat[w] # d PROVE RowTellsHolder(d)'
  <2>1. OwnStep(w)
    BY <1>10, OwnSteps
  <2> QED BY <1>10, <2>1, OtherDelivery
<1>11. ASSUME NEW w \in Couriers, OwnAction(w), dat[w] = d PROVE RowTellsHolder(d)'
  <2>1. OwnStep(w)
    BY <1>11, OwnSteps
  <2>2. /\ ~InQueue(d)' /\ fresh' # d /\ ~AtReaper(d)'
        /\ \A v \in Couriers \ {w} : dat'[v] # d
        /\ HeldByWorker(d)' <=> dat'[w] = d
    BY <1>11, <2>1, OwnDelivery
  <2>3. row[d].st \notin {"none", "delivered"} /\ ~(row[d].st = "processing" /\ row[d].started = "old")
    BY <1>11
  <2>4. \/ row'[d] = row[d] /\ (dat'[w] = d => dpc'[w] # "enqueue")
        \/ row'[d].st \in {"queued", "failed", "rate_limited", "gone"}
        \/ row'[d].st = "processing" /\ row'[d].started = "recent" /\ dpc'[w] = "check"
        \/ row'[d].st = "delivered" /\ dat'[w] = NoDelivery
    BY <1>11, OwnRow
  <2> HIDE DEF InQueue, HeldByWorker
  <2> QED BY <2>2, <2>3, <2>4
<1>12. ASSUME NEW w \in Couriers, ScheduleRetry(w) PROVE RowTellsHolder(d)'
  BY <1>12 DEF ScheduleRetry, EnqueueRetry, Idle
<1>13. CASE Reap
  BY <1>13 DEF Reap, Stuck
<1>14. ASSUME NEW e \in Deliveries, ReapFail(e) PROVE RowTellsHolder(d)'
  <2>1. /\ UNCHANGED <<ready, later, fresh, dpc, dat, posts>>
        /\ \A x \in Deliveries : found'[x] \in {found[x], NoRow}
        /\ rat' \in {e, NoDelivery} /\ InFound(e)
        /\ rat' = e => row'[e].st = "failed"
    BY <1>14 DEF ReapFail, NextFound, SetStatus, SetRow
  <2>2. \/ row'[d] = row[d] /\ (d = e => row[d].st \in {"none", "gone"})
        \/ d = e /\ row'[d].st = "failed"
    BY <1>14 DEF ReapFail, SetStatus, SetRow, Exists
  <2> QED BY <2>1, <2>2
<1>15. CASE ReapRequeue
  BY <1>15 DEF ReapRequeue, NextFound, SetStatus, SetRow, Exists
<1>16. CASE ReapSchedule
  BY <1>16 DEF ReapSchedule, NextFound, EnqueueRetry
<1> QED
  BY <1>1, <1>2, <1>3, <1>4, <1>5, <1>6, <1>7, <1>8, <1>9, <1>10, <1>11, <1>12, <1>13,
     <1>14, <1>15, <1>16, DeliverySteps


-----------------------------------------------------------------------------
(* Attempts and requests *)

\* After a step of the worker that has it, only that worker counts for a delivery.
LEMMA OwnUnsent ==
    ASSUME DeliveryTypeOK, NEW w \in Couriers, OwnStep(w), NEW d \in Deliveries,
           dat[w] = d, HeldOnce(d)
    PROVE  /\ Unsent(d) <=> dpc[w] \in ToSend
           /\ Unsent(d)' <=> dat'[w] = d /\ dpc'[w] \in ToSend
           /\ ~InFound(d)'
<1>1. /\ ~InQueue(d) /\ fresh # d /\ ~AtReaper(d)
      /\ \A v \in Couriers \ {w} : dat[v] # d
  BY DEF HeldOnce, HeldByWorker
<1>2. /\ ~InQueue(d)' /\ fresh' # d /\ ~AtReaper(d)'
      /\ \A v \in Couriers \ {w} : dat'[v] # d
  BY OwnDelivery
<1> QED BY <1>1, <1>2 DEF Unsent, AtReaper

\* A worker counts the requests of its delivery by the attempt in its copy: one more
\* only when it has queued the delivery again, or sent it.
LEMMA OwnAttempts ==
    ASSUME DeliveryTypeOK, DeliveryTypeOK', NEW w \in Couriers, OwnAction(w),
           NEW d \in Deliveries, dat[w] = d, HeldOnce(d), RowTellsHolder(d), AttemptsCount(d)
    PROVE  AttemptsCount(d)'
<1>1. OwnStep(w)
  BY OwnSteps
<1>2. /\ Unsent(d)' <=> dat'[w] = d /\ dpc'[w] \in ToSend
      /\ ~InFound(d)'
      /\ \A v \in Couriers \ {w} : dat'[v] # d
  BY <1>1, OwnUnsent, OwnDelivery
<1>3. /\ posts[d] \in Nat /\ posts[d] <= MaxAttempts
      /\ Exists(d) => posts[d] <= row[d].att
      /\ Exists(d) /\ dpc[w] \in ToSend => posts[d] < row[d].att
      /\ dpc[w] \in {"mark", "check", "post", "limit"} => posts[d] < copy[w].att
      /\ dpc[w] \in {"done", "fail", "requeue"} => posts[d] <= copy[w].att
  BY <1>1, OwnUnsent DEF AttemptsCount, DeliveryTypeOK
<1>4. /\ row[d].att \in 0..MaxAttempts /\ copy[w].att \in 0..MaxAttempts
      /\ row'[d].att \in Nat /\ copy'[w].att \in Nat
      /\ MaxAttempts \in Nat
  BY MaxAttemptsAssumption DEF DeliveryTypeOK, Row
<1> DEFINE Counted ==
      /\ posts'[d] <= MaxAttempts
      /\ Exists(d)' => posts'[d] <= row'[d].att
      /\ Exists(d)' /\ dat'[w] = d /\ dpc'[w] \in ToSend => posts'[d] < row'[d].att
      /\ dat'[w] = d /\ dpc'[w] \in {"mark", "check", "post", "limit"} => posts'[d] < copy'[w].att
      /\ dat'[w] = d /\ dpc'[w] \in {"done", "fail", "requeue"} => posts'[d] <= copy'[w].att
<1>5. dpc \in [Couriers -> WorkerPC] /\ dat \in [Couriers -> Deliveries \cup {NoDelivery}]
      /\ copy \in [Couriers -> Row] /\ row \in [Deliveries -> Row] /\ posts \in [Deliveries -> Nat]
  BY DEF DeliveryTypeOK
<1>6. Counted
  <2> USE NoDeliveryAssumption, <1>3, <1>4, <1>5
  <2> USE DEF Idle, Goto, SetStatus, SetRow, ToSend, Exists, workers, history
  <2>1. CASE Fetch(w)
    BY <2>1 DEF Fetch
  <2>2. CASE Mark(w)
    BY <2>2 DEF Mark
  <2>3. CASE Check(w)
    BY <2>3 DEF Check
  <2>4. CASE Post(w)
    BY <2>4 DEF Post
  <2>5. CASE MarkDelivered(w)
    BY <2>5 DEF MarkDelivered
  <2>6. CASE MarkFailed(w)
    BY <2>6 DEF MarkFailed
  <2>7. CASE Requeue(w)
    BY <2>7 DEF Requeue
  <2>8. CASE Limit(w)
    BY <2>8 DEF Limit
  <2>9. CASE LookupError(w)
    BY <2>9 DEF LookupError
  <2> QED BY <2>1, <2>2, <2>3, <2>4, <2>5, <2>6, <2>7, <2>8, <2>9 DEF OwnAction
<1> QED BY <1>2, <1>6 DEF AttemptsCount


\* No step makes a request count for more than the attempts its row or a copy of it
\* tells.
LEMMA AttemptsCountKept ==
    ASSUME DeliveryTypeOK, DeliveryTypeOK', RetriesAreLeft,
           \A d \in Deliveries : HeldOnce(d) /\ RowTellsHolder(d) /\ AttemptsCount(d),
           [DeliveryNext]_hookVars, NEW d \in Deliveries
    PROVE  AttemptsCount(d)'
<1> USE NoDeliveryAssumption, MaxAttemptsAssumption
<1> USE DEF redisQueue, workers, reaper, history, counters, DeliveryTypeOK, InQueue,
            InFound, NoRow, AttemptsCount, Unsent, ToSend, Exists, Row
<1>1. CASE LetGo
  BY <1>1 DEF LetGo
<1>2. ASSUME NEW e \in Deliveries, BecomeReady(e) PROVE AttemptsCount(d)'
  BY <1>2 DEF BecomeReady
<1>3. ASSUME NEW e \in Deliveries, Retire(e) PROVE AttemptsCount(d)'
  BY <1>3 DEF Retire, SetRow, GoneRow
<1>4. ASSUME NEW e \in Deliveries, Age(e) PROVE AttemptsCount(d)'
  BY <1>4 DEF Age, SetRow
<1>5. CASE ReplayWrite
  <2>1. /\ UNCHANGED <<ready, later, fresh, dpc, dat, copy, rpc, found, rat>>
        /\ \/ row'[d] = row[d] /\ posts'[d] = posts[d]
           \/ posts'[d] = 0 /\ row'[d].att = 1
    <3>1. CASE asked = d
      BY <1>5, <3>1 DEF ReplayWrite, SetRow, NewRow
    <3>2. CASE asked # d
      BY <1>5, <3>2 DEF ReplayWrite, SetRow
    <3> QED BY <3>1, <3>2
  <2>2. posts[d] \in Nat /\ found[d].att \in Nat /\ \A w \in Couriers : copy[w].att \in Nat
    OBVIOUS
  <2>3. CASE row'[d] = row[d] /\ posts'[d] = posts[d]
    BY <2>1, <2>3
  <2>4. CASE posts'[d] = 0 /\ row'[d].att = 1
    BY <2>1, <2>2, <2>4
  <2> QED BY <2>1, <2>3, <2>4
<1>6. ASSUME NEW e \in Deliveries, DispatchLimited(e) PROVE AttemptsCount(d)'
  BY <1>6 DEF DispatchLimited, SetRow, NewRow, RowTellsHolder, WithNobody
<1>7. ASSUME NEW e \in Deliveries, DispatchCreate(e) PROVE AttemptsCount(d)'
  BY <1>7 DEF DispatchCreate, SetRow, NewRow, RowTellsHolder, WithNobody
<1>8. CASE DispatchEnqueue
  BY <1>8 DEF DispatchEnqueue
<1>9. ASSUME NEW w \in Couriers, NEW e \in Deliveries, Dequeue(w, e) PROVE AttemptsCount(d)'
  BY <1>9 DEF Dequeue, HeldOnce
<1>10. ASSUME NEW w \in Couriers, OwnAction(w), dat[w] # d PROVE AttemptsCount(d)'
  <2>1. OwnStep(w)
    BY <1>10, OwnSteps
  <2> QED BY <1>10, <2>1, OtherDelivery
<1>11. ASSUME NEW w \in Couriers, OwnAction(w), dat[w] = d PROVE AttemptsCount(d)'
  BY <1>11, OwnAttempts
<1>12. ASSUME NEW w \in Couriers, ScheduleRetry(w) PROVE AttemptsCount(d)'
  BY <1>12 DEF ScheduleRetry, EnqueueRetry, Idle
<1>13. CASE Reap
  BY <1>13 DEF Reap, Stuck
<1>14. ASSUME NEW e \in Deliveries, ReapFail(e) PROVE AttemptsCount(d)'
  <2>1. /\ UNCHANGED <<ready, later, fresh, dpc, dat, copy, posts>>
        /\ rpc' # "enqueue"
        /\ \A x \in Deliveries : found'[x] \in {found[x], NoRow}
    BY <1>14 DEF ReapFail, NextFound
  <2>2. row'[d].att = row[d].att /\ (row'[d].st \notin {"none", "gone"} => Exists(d))
    BY <1>14 DEF ReapFail, SetStatus, SetRow
  <2> QED BY <2>1, <2>2
<1>15. CASE ReapRequeue
  <2>1. /\ UNCHANGED <<ready, later, fresh, dpc, dat, copy, posts>>
        /\ rat \in Deliveries /\ rat' \in {rat, NoDelivery} /\ rpc = "requeue"
        /\ \A x \in Deliveries : found'[x] \in {found[x], NoRow}
    BY <1>15 DEF ReapRequeue, NextFound
  <2>2. d # rat => row'[d] = row[d]
    BY <1>15, <2>1 DEF ReapRequeue, SetStatus, SetRow
  <2>3. CASE d # rat
    BY <2>1, <2>2, <2>3
  <2>4. CASE d = rat /\ Exists(d)
    <3>1. row'[d].att = found[d].att + 1 /\ found' = found
      BY <1>15, <2>1, <2>4 DEF ReapRequeue, SetStatus, SetRow
    <3>2. AtReaper(d)
      BY <2>4 DEF AtReaper
    <3>3. ~InQueue(d) /\ ~HeldByWorker(d) /\ fresh # d
      BY <3>2 DEF HeldOnce
    <3>4. posts[d] \in Nat /\ found[d].att \in Nat
      OBVIOUS
    <3>5. InFound(d)
      BY <2>1, <2>4 DEF RetriesAreLeft
    <3> QED BY <2>1, <2>4, <3>1, <3>3, <3>4, <3>5 DEF HeldByWorker
  <2>5. CASE d = rat /\ ~Exists(d)
    BY <1>15, <2>1, <2>5 DEF ReapRequeue, NextFound
  <2> QED BY <2>3, <2>4, <2>5
<1>16. CASE ReapSchedule
  BY <1>16 DEF ReapSchedule, NextFound, EnqueueRetry
<1> QED
  BY <1>1, <1>2, <1>3, <1>4, <1>5, <1>6, <1>7, <1>8, <1>9, <1>10, <1>11, <1>12, <1>13,
     <1>14, <1>15, <1>16, DeliverySteps

-----------------------------------------------------------------------------
(* Acceptance *)

\* The worker that has a delivery which was accepted is about to say so, and says so.
LEMMA OwnAccepted ==
    ASSUME DeliveryTypeOK, NEW w \in Couriers, OwnAction(w), NEW d \in Deliveries, dat[w] = d,
           HeldOnce(d), RowTellsHolder(d), AcceptedIsDone(d)
    PROVE  AcceptedIsDone(d)'
<1>1. OwnStep(w)
  BY OwnSteps
<1>2. /\ ~InQueue(d)' /\ fresh' # d /\ ~AtReaper(d)'
      /\ \A v \in Couriers \ {w} : dat'[v] # d
      /\ HeldByWorker(d)' <=> dat'[w] = d
  BY <1>1, OwnDelivery
<1>3. /\ hits[d] \in Nat /\ hits[d] <= 1
      /\ hits[d] = 1 => dpc[w] = "done"
      /\ row[d].st # "none"
  BY DEF AcceptedIsDone, DeliveryTypeOK, RowTellsHolder, WithNobody, HeldByWorker
<1>4. hits' = hits \/ Post(w)
  BY DEF OwnAction, Fetch, Mark, Check, MarkDelivered, MarkFailed, Requeue, Limit, LookupError,
         history
<1>5. CASE hits'[d] = 0
  BY <1>5 DEF AcceptedIsDone
<1>6. CASE hits'[d] # 0 /\ hits' = hits
  <2>1. hits[d] = 1 /\ dpc[w] = "done"
    BY <1>3, <1>6
  <2>2. MarkDelivered(w)
    BY <2>1 DEF OwnAction, Fetch, Mark, Check, Post, MarkFailed, Requeue, Limit, LookupError
  <2>3. dat'[w] = NoDelivery /\ row'[d].st \in {"delivered", "gone"}
    BY <1>3, <2>2 DEF MarkDelivered, Idle, SetStatus, SetRow, Exists, DeliveryTypeOK
  <2> QED BY <1>2, <1>6, <2>1, <2>3, NoDeliveryAssumption DEF AcceptedIsDone
<1>7. CASE hits'[d] # 0 /\ hits' # hits
  <2>1. Post(w) /\ hits[d] = 0
    BY <1>3, <1>4, <1>7 DEF Post
  <2>2. hits'[d] = 1 /\ dpc'[w] = "done" /\ dat'[w] = d /\ row' = row
    BY <1>7, <2>1 DEF Post, Goto, DeliveryTypeOK
  <2> QED BY <1>2, <1>3, <2>2 DEF AcceptedIsDone
<1> QED BY <1>5, <1>6, <1>7

\* As long as nothing fails, no step queues what was accepted.
LEMMA AcceptedIsDoneKept ==
    ASSUME DeliveryTypeOK, DeliveryTypeOK',
           \A d \in Deliveries : HeldOnce(d) /\ RowTellsHolder(d),
           faults = 0 => \A d \in Deliveries : AcceptedIsDone(d),
           [DeliveryNext]_hookVars, NEW d \in Deliveries, faults' = 0
    PROVE  AcceptedIsDone(d)'
<1> USE NoDeliveryAssumption
<1> USE DEF redisQueue, workers, reaper, history, counters, DeliveryTypeOK, InQueue, HeldByWorker,
            AtReaper, InFound, NoRow, AcceptedIsDone
<1>1. CASE LetGo
  <2>1. faults = 0
    BY <1>1 DEF LetGo
  <2>2. UNCHANGED <<row, ready, later, hits, dat>>
    BY <1>1 DEF LetGo
  <2>3. \A v \in Couriers : dpc'[v] = dpc[v] \/ dat'[v] = NoDelivery
    BY <1>1 DEF LetGo
  <2>4. fresh' \in {fresh, NoDelivery} /\ (AtReaper(d)' => AtReaper(d))
    BY <1>1 DEF LetGo
  <2> HIDE DEF AtReaper
  <2> QED BY <2>1, <2>2, <2>3, <2>4
<1>2. ASSUME NEW e \in Deliveries, BecomeReady(e) PROVE AcceptedIsDone(d)'
  BY <1>2 DEF BecomeReady
<1>3. ASSUME NEW e \in Deliveries, Retire(e) PROVE AcceptedIsDone(d)'
  BY <1>3 DEF Retire, SetRow, Exists, GoneRow
<1>4. ASSUME NEW e \in Deliveries, Age(e) PROVE AcceptedIsDone(d)'
  BY <1>4 DEF Age, SetRow
<1>5. CASE ReplayWrite
  BY <1>5 DEF ReplayWrite, SetRow, Exists, NewRow
<1>6. ASSUME NEW e \in Deliveries, DispatchLimited(e) PROVE AcceptedIsDone(d)'
  BY <1>6 DEF DispatchLimited, SetRow, NewRow
<1>7. ASSUME NEW e \in Deliveries, DispatchCreate(e) PROVE AcceptedIsDone(d)'
  BY <1>7 DEF DispatchCreate, SetRow, NewRow
<1>8. CASE DispatchEnqueue
  BY <1>8 DEF DispatchEnqueue
<1>9. ASSUME NEW w \in Couriers, NEW e \in Deliveries, Dequeue(w, e) PROVE AcceptedIsDone(d)'
  BY <1>9 DEF Dequeue, HeldOnce
<1>10. ASSUME NEW w \in Couriers, OwnAction(w), dat[w] # d PROVE AcceptedIsDone(d)'
  <2>1. OwnStep(w)
    BY <1>10, OwnSteps
  <2>2. faults = 0
    BY <2>1 DEF OwnStep
  <2> QED BY <1>10, <2>1, <2>2, OtherDelivery
<1>11. ASSUME NEW w \in Couriers, OwnAction(w), dat[w] = d PROVE AcceptedIsDone(d)'
  <2>1. OwnStep(w)
    BY <1>11, OwnSteps
  <2>2. faults = 0
    BY <2>1 DEF OwnStep
  <2> HIDE DEF AcceptedIsDone
  <2> QED BY <1>11, <2>2, OwnAccepted
<1>12. ASSUME NEW w \in Couriers, ScheduleRetry(w) PROVE AcceptedIsDone(d)'
  BY <1>12 DEF ScheduleRetry, EnqueueRetry, Idle
<1>13. CASE Reap
  BY <1>13 DEF Reap, Stuck, RowTellsHolder
<1>14. ASSUME NEW e \in Deliveries, ReapFail(e) PROVE AcceptedIsDone(d)'
  BY <1>14 DEF ReapFail, NextFound, SetStatus, SetRow, Exists
<1>15. CASE ReapRequeue
  BY <1>15 DEF ReapRequeue, NextFound, SetStatus, SetRow, Exists
<1>16. CASE ReapSchedule
  BY <1>16 DEF ReapSchedule, NextFound, EnqueueRetry
<1> QED
  BY <1>1, <1>2, <1>3, <1>4, <1>5, <1>6, <1>7, <1>8, <1>9, <1>10, <1>11, <1>12, <1>13,
     <1>14, <1>15, <1>16, DeliverySteps


-----------------------------------------------------------------------------
(* The inductive invariant of the deliveries *)

\* It holds before there is a delivery, ...
LEMMA DeliveryInvInit ==
    ASSUME DeliveryInit
    PROVE  DeliveryInv
<1>1. NoRow \in Row
  BY RowsAreTyped
<1>2. DeliveryTypeOK
  BY <1>1, DeliveryBoundsAssumption, NoDeliveryAssumption DEF DeliveryInit, DeliveryTypeOK, WorkerPC
<1>3. RetriesAreLeft
  BY DEF DeliveryInit, RetriesAreLeft
<1>4. ASSUME NEW d \in Deliveries
      PROVE  WithNobody(d) /\ row[d] = NoRow /\ posts[d] = 0 /\ hits[d] = 0
  BY NoDeliveryAssumption
  DEF DeliveryInit, WithNobody, InQueue, HeldByWorker, AtReaper, InFound
<1>5. ASSUME NEW d \in Deliveries PROVE HeldOnce(d)
  BY <1>4, NoDeliveryAssumption DEF HeldOnce, WithNobody, DeliveryInit
<1>6. ASSUME NEW d \in Deliveries PROVE RowTellsHolder(d)
  BY <1>4 DEF RowTellsHolder, NoRow
<1>7. ASSUME NEW d \in Deliveries PROVE AttemptsCount(d)
  <2>1. ~Exists(d) /\ ~InFound(d) /\ ~HeldByWorker(d)
    BY <1>4 DEF Exists, NoRow, WithNobody, AtReaper
  <2> QED BY <1>4, <2>1, MaxAttemptsAssumption DEF AttemptsCount, HeldByWorker
<1>8. ASSUME NEW d \in Deliveries PROVE AcceptedIsDone(d)
  BY <1>4 DEF AcceptedIsDone
<1> QED BY <1>2, <1>3, <1>5, <1>6, <1>7, <1>8 DEF DeliveryInv, SingleHolder

\* ... every step keeps it, ...
LEMMA DeliveryInvStep ==
    ASSUME DeliveryInv, [DeliveryNext]_hookVars
    PROVE  DeliveryInv'
<1>1. /\ DeliveryTypeOK /\ RetriesAreLeft
      /\ \A d \in Deliveries : HeldOnce(d) /\ RowTellsHolder(d) /\ AttemptsCount(d)
      /\ faults = 0 => \A d \in Deliveries : AcceptedIsDone(d)
  BY DEF DeliveryInv, SingleHolder
<1>2. DeliveryTypeOK' /\ RetriesAreLeft'
  BY <1>1, DeliveryTypes
<1>3. ASSUME NEW d \in Deliveries PROVE HeldOnce(d)'
  BY <1>1, <1>2, HeldOnceKept
<1>4. ASSUME NEW d \in Deliveries PROVE RowTellsHolder(d)'
  BY <1>1, <1>2, RowTellsHolderKept
<1>5. ASSUME NEW d \in Deliveries PROVE AttemptsCount(d)'
  BY <1>1, <1>2, AttemptsCountKept
<1>6. ASSUME faults' = 0, NEW d \in Deliveries PROVE AcceptedIsDone(d)'
  BY <1>1, <1>2, <1>6, AcceptedIsDoneKept
<1> QED BY <1>2, <1>3, <1>4, <1>5, <1>6 DEF DeliveryInv, SingleHolder

\* ... and it is what the deliveries promise.
LEMMA DeliveryInvMeans ==
    ASSUME DeliveryInv
    PROVE  DeliveredOnce
<1>1. SingleHolder
  BY DEF DeliveryInv
<1>2. BoundedPosts
  BY DEF DeliveryInv, BoundedPosts, AttemptsCount
<1>3. AcceptedOnce
  BY DEF DeliveryInv, AcceptedOnce, AcceptedIsDone
<1> QED BY <1>1, <1>2, <1>3 DEF DeliveredOnce

\* A delivery is with one party at a time and is sent at most MaxAttempts times between
\* two replays, and, without a fault and a replay, accepted at most once: over every
\* interleaving of workers, reaper, requests, errors and restarts.
THEOREM DeliveredOnceAlways == DeliverySpec => []DeliveredOnce
<1>1. DeliveryInit => DeliveryInv
  BY DeliveryInvInit
<1>2. DeliveryInv /\ [DeliveryNext]_hookVars => DeliveryInv'
  BY DeliveryInvStep
<1>3. DeliveryInv => DeliveredOnce
  BY DeliveryInvMeans
<1> QED BY <1>1, <1>2, <1>3, PTL DEF DeliverySpec

\* The row of a delivered delivery is changed by a replay or the retention cleanup
\* only: no worker and no reaper is left that could fail it.
LEMMA DeliveredStays ==
    ASSUME DeliveryInv, [DeliveryNext]_hookVars,
           NEW d \in Deliveries, row[d].st = "delivered"
    PROVE  \/ row'[d] \in {row[d], GoneRow}
           \/ asked = d /\ row'[d] = NewRow("queued")
<1>1. /\ DeliveryTypeOK
      /\ ~HeldByWorker(d) /\ ~AtReaper(d)
  BY DEF DeliveryInv, SingleHolder, RowTellsHolder, WithNobody
<1>2. row \in [Deliveries -> Row] /\ rat \in Deliveries \cup {NoDelivery}
  BY <1>1 DEF DeliveryTypeOK
<1>3. CASE UNCHANGED row
  BY <1>3
<1>4. ASSUME NEW e \in Deliveries, Retire(e) \/ Age(e)
      PROVE  row'[d] \in {row[d], GoneRow}
  BY <1>2, <1>4 DEF Retire, Age, SetRow
<1>5. CASE ReplayWrite
  BY <1>2, <1>5 DEF ReplayWrite, SetRow
<1>6. ASSUME NEW e \in Deliveries, DispatchLimited(e) \/ DispatchCreate(e)
      PROVE  row'[d] = row[d]
  <2>1. e # d
    BY <1>6 DEF DispatchLimited, DispatchCreate
  <2> QED BY <1>2, <1>6, <2>1 DEF DispatchLimited, DispatchCreate, SetRow
<1>7. ASSUME NEW w \in Couriers, OwnAction(w) PROVE row'[d] = row[d]
  <2>1. OwnStep(w)
    BY <1>1, <1>7, OwnSteps
  <2> QED BY <1>1, <2>1 DEF OwnStep, HeldByWorker
<1>8. ASSUME NEW e \in Deliveries, ReapFail(e) PROVE row'[d] = row[d]
  <2>1. e # d
    BY <1>1, <1>8 DEF ReapFail, AtReaper
  <2> QED BY <1>2, <1>8, <2>1 DEF ReapFail, SetStatus, SetRow
<1>9. CASE ReapRequeue
  <2>1. rat # d
    BY <1>1 DEF AtReaper
  <2>2. row'[d] = row[d]
    BY <1>2, <1>9, <2>1 DEF ReapRequeue, SetStatus, SetRow
  <2> QED BY <2>2
<1> QED
  BY <1>1, <1>3, <1>4, <1>5, <1>6, <1>7, <1>8, <1>9, DeliverySteps
  DEF LetGo, BecomeReady, DispatchEnqueue, Dequeue, ScheduleRetry, Reap, ReapSchedule

\* No step takes a delivery out of delivered, or changes it, but a replay that was asked
\* for it and the retention that removes it (service/webhook.go, webhook_worker.go).
THEOREM DeliveredIsFinalAlways == DeliverySpec => DeliveredIsFinal
<1>1. DeliveryInit => DeliveryInv
  BY DeliveryInvInit
<1>2. DeliveryInv /\ [DeliveryNext]_hookVars => DeliveryInv'
  BY DeliveryInvStep
<1>3. DeliveryInv /\ [DeliveryNext]_hookVars =>
        [\A d \in Deliveries :
           row[d].st = "delivered" =>
              row'[d] \in {row[d], GoneRow}
                \/ (asked = d /\ row'[d] = NewRow("queued"))]_hookVars
  BY DeliveredStays
<1> QED BY <1>1, <1>2, <1>3, PTL DEF DeliverySpec, DeliveredIsFinal

-----------------------------------------------------------------------------
(* The event bus *)

\* A channel that takes an event has what it had and the event; without its head it
\* has nothing new.
LEMMA ElementsMoved ==
    ASSUME NEW s \in Seq(Events), NEW e \in Events
    PROVE  /\ Elements(Append(s, e)) \subseteq Elements(s) \cup {e}
           /\ s # <<>> => Elements(Tail(s)) \subseteq Elements(s)
<1>1. Elements(Append(s, e)) \subseteq Elements(s) \cup {e}
  BY DEF Elements
<1>2. ASSUME s # <<>> PROVE Elements(Tail(s)) \subseteq Elements(s)
  <2> SUFFICES ASSUME NEW i \in 1..Len(Tail(s)) PROVE Tail(s)[i] \in Elements(s)
    BY DEF Elements
  <2>1. i + 1 \in 1..Len(s) /\ Tail(s)[i] = s[i + 1]
    BY <1>2
  <2> QED BY <2>1 DEF Elements
<1> QED BY <1>1, <1>2

\* The bus keeps its types.
LEMMA BusTypes ==
    ASSUME BusTypeOK, [BusNext]_busVars
    PROVE  BusTypeOK'
<1> USE BufferAssumption, NoEventAssumption DEF BusTypeOK
<1>1. CASE UNCHANGED busVars
  BY <1>1 DEF busVars
<1>2. ASSUME NEW e \in Events, PublishCheck(e) PROVE BusTypeOK'
  BY <1>2 DEF PublishCheck
<1>3. ASSUME NEW e \in Events, PublishSend(e) PROVE BusTypeOK'
  <2>1. CASE Len(ch) < Buffer
    <3>1. ch' = Append(ch, e) /\ Len(ch') = Len(ch) + 1 /\ sent' = Append(sent, e)
      BY <1>3, <2>1 DEF PublishSend
    <3>2. ch' \in Seq(Events) /\ Len(ch') <= Buffer /\ sent' \in Seq(Events)
      BY <2>1, <3>1
    <3> QED BY <1>3, <2>1, <3>2 DEF PublishSend
  <2>2. CASE ~(Len(ch) < Buffer)
    BY <1>3, <2>2 DEF PublishSend
  <2> QED BY <2>1, <2>2
<1>4. CASE ReceiveEvent
  BY <1>4 DEF ReceiveEvent
<1>5. CASE HandlersDone
  BY <1>5 DEF HandlersDone
<1>6. CASE Drain \/ DispatchReturn
  BY <1>6 DEF Drain, DispatchReturn
<1>7. CASE Cancel \/ StopServer \/ Exit \/ Kill
  BY <1>7 DEF Cancel, StopServer, Exit, Kill
<1> QED BY <1>1, <1>2, <1>3, <1>4, <1>5, <1>6, <1>7 DEF BusNext, BusStep

\* What was sent is what was handled, what is being handled and what waits, in this
\* order, after every step.
LEMMA FifoKept ==
    ASSUME BusTypeOK, BusTypeOK', sent = handled \o Current \o ch, [BusNext]_busVars
    PROVE  sent' = handled' \o Current' \o ch'
<1>0. /\ handled \in Seq(Events) /\ Current \in Seq(Events) /\ ch \in Seq(Events)
      /\ handled \o Current \in Seq(Events)
  BY DEF BusTypeOK, Current
<1>1. CASE UNCHANGED <<ch, cur, sent, handled>>
  BY <1>1 DEF Current
<1>2. ASSUME NEW e \in Events, PublishSend(e), Len(ch) < Buffer
      PROVE  sent' = handled' \o Current' \o ch'
  <2>1. ch' = Append(ch, e) /\ sent' = Append(sent, e) /\ UNCHANGED <<cur, handled>>
    BY <1>2 DEF PublishSend
  <2>2. Append((handled \o Current) \o ch, e) = (handled \o Current) \o Append(ch, e)
    <3>1. ch \o <<e>> = Append(ch, e)
      BY <1>0, AppendIsConcat
    <3>2. Append((handled \o Current) \o ch, e) = ((handled \o Current) \o ch) \o <<e>>
      BY <1>0, AppendIsConcat, ConcatProperties
    <3>3. ((handled \o Current) \o ch) \o <<e>> = (handled \o Current) \o (ch \o <<e>>)
      BY <1>0, ConcatAssociative
    <3> QED BY <3>1, <3>2, <3>3
  <2> QED BY <2>1, <2>2 DEF Current
<1>3. CASE ReceiveEvent
  <2>1. /\ cur = NoEvent /\ cur' = Head(ch) /\ ch # <<>> /\ ch' = Tail(ch)
        /\ UNCHANGED <<sent, handled>>
    BY <1>3 DEF ReceiveEvent
  <2>2. Head(ch) \in Events /\ Head(ch) # NoEvent /\ Tail(ch) \in Seq(Events)
    BY <1>0, <2>1, NoEventAssumption
  <2>3. Current = <<>> /\ Current' = <<Head(ch)>>
    BY <2>1, <2>2 DEF Current
  <2>4. ch = <<Head(ch)>> \o Tail(ch)
    BY <1>0, <2>1
  <2>5. handled \o Current = handled
    BY <1>0, <2>3
  <2>6. (handled \o <<Head(ch)>>) \o Tail(ch) = handled \o (<<Head(ch)>> \o Tail(ch))
    BY <1>0, <2>2, ConcatAssociative
  <2> QED BY <2>1, <2>3, <2>4, <2>5, <2>6
<1>4. CASE HandlersDone
  <2>1. /\ cur # NoEvent /\ cur' = NoEvent /\ handled' = Append(handled, cur)
        /\ UNCHANGED <<sent, ch>>
    BY <1>4 DEF HandlersDone
  <2>2. Current = <<cur>> /\ Current' = <<>> /\ cur \in Events
    BY <2>1 DEF Current, BusTypeOK
  <2>3. handled' = handled \o <<cur>>
    BY <1>0, <2>1, <2>2, AppendIsConcat
  <2>4. handled' \o <<>> = handled'
    BY <1>0, <2>1, <2>2
  <2> QED BY <2>1, <2>2, <2>3, <2>4
<1>5. ASSUME NEW e \in Events, PublishSend(e), ~(Len(ch) < Buffer)
      PROVE  sent' = handled' \o Current' \o ch'
  BY <1>1, <1>5 DEF PublishSend
<1> QED
  BY <1>1, <1>2, <1>3, <1>4, <1>5
  DEF BusNext, BusStep, busVars, PublishCheck, Drain, DispatchReturn, Cancel, StopServer, Exit,
      Kill

\* Whoever still sends once the dispatch goroutine may be gone overlapped the
\* cancellation.
LEMMA RacersKept ==
    ASSUME BusTypeOK, BusTypeOK', OnlyRacersAreLost, LateSendersRace, [BusNext]_busVars
    PROVE  OnlyRacersAreLost' /\ LateSendersRace'
<1> USE DEF BusTypeOK, LateSendersRace, Cancelled, Alive
<1>1. CASE UNCHANGED busVars
  BY <1>1 DEF busVars, OnlyRacersAreLost
<1>2. ASSUME NEW e \in Events, PublishCheck(e) PROVE OnlyRacersAreLost' /\ LateSendersRace'
  BY <1>2 DEF PublishCheck, OnlyRacersAreLost
<1>3. ASSUME NEW e \in Events, PublishSend(e) PROVE OnlyRacersAreLost' /\ LateSendersRace'
  <2>1. LateSendersRace'
    BY <1>3 DEF PublishSend
  <2>2. ASSUME disp' = "returned" PROVE Elements(ch') \subseteq racing'
    <3>1. disp = "returned" /\ racing' = racing /\ e \in racing
      BY <1>3, <2>2 DEF PublishSend
    <3>2. ch' = ch \/ ch' = Append(ch, e)
      BY <1>3 DEF PublishSend
    <3>3. Elements(ch) \subseteq racing
      BY <3>1 DEF OnlyRacersAreLost
    <3>4. Elements(Append(ch, e)) \subseteq Elements(ch) \cup {e}
      BY ElementsMoved
    <3> QED BY <3>1, <3>2, <3>3, <3>4
  <2> QED BY <2>1, <2>2 DEF OnlyRacersAreLost
<1>4. CASE ReceiveEvent
  BY <1>4, ElementsMoved DEF ReceiveEvent, OnlyRacersAreLost
<1>5. CASE HandlersDone \/ Drain
  BY <1>5 DEF HandlersDone, Drain, OnlyRacersAreLost
<1>6. CASE DispatchReturn
  <2>1. Elements(ch') = {}
    BY <1>6 DEF DispatchReturn, Elements
  <2> QED BY <1>6, <2>1 DEF DispatchReturn, OnlyRacersAreLost
<1>7. CASE Cancel
  BY <1>7 DEF Cancel, OnlyRacersAreLost
<1>8. CASE StopServer \/ Exit \/ Kill
  BY <1>8 DEF StopServer, Exit, Kill, OnlyRacersAreLost
<1> QED BY <1>1, <1>2, <1>3, <1>4, <1>5, <1>6, <1>7, <1>8 DEF BusNext, BusStep

\* An empty bus satisfies the invariant, ...
LEMMA BusInvInit ==
    ASSUME BusInit
    PROVE  BusInv
<1>1. BusTypeOK
  BY BufferAssumption DEF BusInit, BusTypeOK
<1>2. sent = handled \o Current \o ch
  BY DEF BusInit, Current
<1>3. OnlyRacersAreLost /\ LateSendersRace
  BY DEF BusInit, OnlyRacersAreLost, LateSendersRace, Cancelled
<1> QED BY <1>1, <1>2, <1>3 DEF BusInv, BusKeepsOrder, FifoOnce

\* ... and every step keeps it.
LEMMA BusInvStep ==
    ASSUME BusInv, [BusNext]_busVars
    PROVE  BusInv'
<1>1. BusTypeOK /\ sent = handled \o Current \o ch /\ OnlyRacersAreLost /\ LateSendersRace
  BY DEF BusInv, BusKeepsOrder, FifoOnce
<1>2. BusTypeOK'
  BY <1>1, BusTypes
<1>3. sent' = handled' \o Current' \o ch'
  BY <1>1, <1>2, FifoKept
<1>4. OnlyRacersAreLost' /\ LateSendersRace'
  BY <1>1, <1>2, RacersKept
<1> QED BY <1>2, <1>3, <1>4 DEF BusInv, BusKeepsOrder, FifoOnce

\* Handlers see what was sent, each event once and in order, over the switch from the
\* loop to the drain; what is left behind overlapped the cancellation.
THEOREM BusAlwaysKeepsOrder == BusSpec => []BusKeepsOrder
<1>1. BusInit => BusInv
  BY BusInvInit
<1>2. BusInv /\ [BusNext]_busVars => BusInv'
  BY BusInvStep
<1>3. BusInv => BusKeepsOrder
  BY DEF BusInv
<1> QED BY <1>1, <1>2, <1>3, PTL DEF BusSpec

-----------------------------------------------------------------------------
(* The system *)

\* A step of the system is, for the deliveries and for the bus, one of theirs.
LEMMA SystemSteps ==
    ASSUME [SystemNext]_systemVars
    PROVE  [DeliveryNext]_hookVars /\ [BusNext]_busVars
<1>1. CASE UNCHANGED systemVars
  BY <1>1 DEF systemVars
<1>2. CASE BusAlone
  BY <1>2 DEF BusAlone, BusNext
<1>3. CASE HandleNothing
  BY <1>3 DEF HandleNothing, DeliveryNext, BusNext
<1>4. CASE HandleCreate
  BY <1>4 DEF HandleCreate, DeliveryNext
<1>5. CASE HandleEnqueue
  BY <1>5 DEF HandleEnqueue, DeliveryNext, BusNext
<1>6. CASE DeliveryStep /\ UNCHANGED busVars
  BY <1>6 DEF DeliveryNext
<1>7. CASE EndProcess
  BY <1>7 DEF EndProcess, DeliveryNext, BusNext
<1> QED BY <1>1, <1>2, <1>3, <1>4, <1>5, <1>6, <1>7 DEF SystemNext

\* The bus that dispatches and the deliveries it makes, shut down or not, do nothing
\* that either would not do alone.
THEOREM SystemImplementsDeliveries == SystemSpec => DeliverySpec
<1>1. SystemInit => DeliveryInit
  BY DEF SystemInit
<1>2. [SystemNext]_systemVars => [DeliveryNext]_hookVars
  BY SystemSteps
<1> QED BY <1>1, <1>2, PTL DEF SystemSpec, DeliverySpec

\* So both keep their promises in the system.
THEOREM SystemIsSafe == SystemSpec => [](DeliveredOnce /\ BusKeepsOrder)
<1>1. SystemInit => DeliveryInv /\ BusInv
  BY DeliveryInvInit, BusInvInit DEF SystemInit
<1>2. DeliveryInv /\ BusInv /\ [SystemNext]_systemVars => (DeliveryInv /\ BusInv)'
  BY SystemSteps, DeliveryInvStep, BusInvStep
<1>3. DeliveryInv /\ BusInv => DeliveredOnce /\ BusKeepsOrder
  BY DeliveryInvMeans DEF BusInv
<1> QED BY <1>1, <1>2, <1>3, PTL DEF SystemSpec
=============================================================================
