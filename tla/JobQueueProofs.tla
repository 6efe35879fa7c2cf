--------------------------- MODULE JobQueueProofs ---------------------------
(***************************************************************************)
(* Proofs about JobQueue: IInv is inductive, one lemma per conjunct and in *)
(* it one step per action, and the theorems that follow from it.  Then     *)
(* about JobRecovery, where the reaper and requests overwrite records.     *)
(***************************************************************************)
EXTENDS JobRecovery, TLAPS

\* What the repository makes of a record is a record.
LEMMA RecordOps ==
    ASSUME NEW r \in JobRecord
    PROVE  /\ Claimed(r) \in JobRecord
           /\ Completed(r) \in JobRecord
           /\ Failed(r) \in JobRecord
           /\ Dead(r) \in JobRecord
BY DEF JobRecord, Status, StartedAt, Claimed, Completed, Failed, Dead

\* So is the record of a job nobody submitted.
LEMMA NoRecordType == NoRecord \in JobRecord
BY DEF NoRecord, JobRecord, Status, StartedAt

\* Types hold at the start ...
LEMMA InitType == Init => TypeOK
BY MaxFaultsAssumption, NoneAssumption
DEF Init, TypeOK, JobRecord, NoRecord, Status, StartedAt, PC, Phase

\* ... and every step keeps them.
LEMMA NextType == TypeOK /\ [Next]_vars => TypeOK'
<1> SUFFICES ASSUME TypeOK, [Next]_vars PROVE TypeOK'
  OBVIOUS
<1> USE NoneAssumption, RetryLimitsAssumption, MaxFaultsAssumption
    DEF TypeOK, vars, redis, process, worker, GoIdle, MoveTo, GotoWith, Update,
        MoveIndex, EnqueueLater, PC, Phase
<1>1. ASSUME NEW j \in Jobs, NEW m \in RetryLimits, Submit(j, m) PROVE TypeOK'
  BY <1>1 DEF Submit, Submitted, JobRecord, Status, StartedAt
<1>2. ASSUME NEW j \in Jobs, BecomeDue(j) PROVE TypeOK'
  BY <1>2 DEF BecomeDue
<1>3. ASSUME NEW p \in Pollers, NEW j \in Jobs, Poll(p, j) PROVE TypeOK'
  BY <1>3 DEF Poll, IsMin
<1>4. ASSUME NEW p \in Pollers, Send(p) PROVE TypeOK'
  BY <1>4 DEF Send
<1>5. ASSUME NEW p \in Pollers, PollError(p) PROVE TypeOK'
  BY <1>5 DEF PollError
<1>6. ASSUME NEW p \in Pollers, PollerReturn(p) PROVE TypeOK'
  BY <1>6 DEF PollerReturn
<1>7. ASSUME NEW p \in Pollers, SendOnClosed(p) PROVE TypeOK'
  BY <1>7 DEF SendOnClosed, ResetProcess, NoRecord, JobRecord, Status, StartedAt
<1>8. ASSUME NEW w \in Workers, Receive(w) PROVE TypeOK'
  BY <1>8 DEF Receive
<1>9. ASSUME NEW w \in Workers, ClaimRead(w) PROVE TypeOK'
  <2>1. at[w] \in Jobs /\ job[at[w]] \in JobRecord
    BY <1>9 DEF ClaimRead
  <2>2. CASE Claimable(job[at[w]])
    BY <1>9, <2>1, <2>2 DEF ClaimRead
  <2>3. CASE ~Claimable(job[at[w]])
    BY <1>9, <2>3, NoRecordType DEF ClaimRead
  <2>. QED
    BY <2>2, <2>3
<1>10. ASSUME NEW w \in Workers, ClaimWrite(w) PROVE TypeOK'
  BY <1>10, RecordOps DEF ClaimWrite
<1>11. ASSUME NEW w \in Workers, ClaimIndex(w) PROVE TypeOK'
  BY <1>11, RecordOps DEF ClaimIndex, JobRecord, Status
<1>12. ASSUME NEW w \in Workers, HandlerOk(w) PROVE TypeOK'
  <2>1. at[w] \in Jobs /\ job[at[w]] \in JobRecord
    BY <1>12 DEF HandlerOk
  <2>2. CASE CanComplete(job[at[w]])
    BY <1>12, <2>1, <2>2 DEF HandlerOk
  <2>3. CASE ~CanComplete(job[at[w]])
    BY <1>12, <2>3, NoRecordType DEF HandlerOk
  <2>. QED
    BY <2>2, <2>3
<1>13. ASSUME NEW w \in Workers, CompleteWrite(w) PROVE TypeOK'
  BY <1>13, RecordOps DEF CompleteWrite
<1>14. ASSUME NEW w \in Workers, CompleteIndex(w) PROVE TypeOK'
  BY <1>14 DEF CompleteIndex, NoRecord, JobRecord, Status, StartedAt
<1>15. ASSUME NEW w \in Workers, HandlerErr(w) PROVE TypeOK'
  BY <1>15 DEF HandlerErr
<1>16. ASSUME NEW w \in Workers, RetryWrite(w) PROVE TypeOK'
  BY <1>16, RecordOps DEF RetryWrite
<1>17. ASSUME NEW w \in Workers, RetryIndex(w) PROVE TypeOK'
  BY <1>17 DEF RetryIndex, Status
<1>18. ASSUME NEW w \in Workers, RetryEnqueue(w) PROVE TypeOK'
  BY <1>18 DEF RetryEnqueue, NoRecord, JobRecord, Status, StartedAt
<1>19. ASSUME NEW w \in Workers, BuryWrite(w) PROVE TypeOK'
  BY <1>19, RecordOps DEF BuryWrite
<1>20. ASSUME NEW w \in Workers, BuryIndex(w) PROVE TypeOK'
  BY <1>20 DEF BuryIndex, NoRecord, JobRecord, Status, StartedAt
<1>21. ASSUME NEW w \in Workers, RedisError(w) PROVE TypeOK'
  BY <1>21 DEF RedisError, NoRecord, JobRecord, Status, StartedAt
<1>22. ASSUME NEW w \in Workers, WorkerReturn(w) PROVE TypeOK'
  BY <1>22 DEF WorkerReturn
<1>23. ASSUME Stop PROVE TypeOK'
  BY <1>23 DEF Stop
<1>24. ASSUME CloseJobCh PROVE TypeOK'
  BY <1>24 DEF CloseJobCh
<1>25. ASSUME CloseDone PROVE TypeOK'
  BY <1>25 DEF CloseDone
<1>26. ASSUME Crash PROVE TypeOK'
  BY <1>26 DEF Crash, ResetProcess, NoRecord, JobRecord, Status, StartedAt
<1>27. ASSUME Restart PROVE TypeOK'
  BY <1>27 DEF Restart, ResetProcess, NoRecord, JobRecord, Status, StartedAt
<1>28. CASE UNCHANGED vars
  BY <1>28
<1>. QED
  BY <1>1, <1>2, <1>3, <1>4, <1>5, <1>6, <1>7, <1>8, <1>9, <1>10, <1>11,
     <1>12, <1>13, <1>14, <1>15, <1>16, <1>17, <1>18, <1>19, <1>20, <1>21,
     <1>22, <1>23, <1>24, <1>25, <1>26, <1>27, <1>28
  DEF Next, JobStep, PollerStep, WorkerStep, WorkerRun, ProcessStep

-----------------------------------------------------------------------------
\* Nothing is in custody at the start.
LEMMA InitCustody == Init => SingleCustody /\ AbsentIsNowhere /\ CopyIsFresh /\ AttemptsFit
BY NoneAssumption
DEF Init, SingleCustody, AbsentIsNowhere, CopyIsFresh, AttemptsFit, InPoll, InChan,
    AtWorker, NoRecord

\* A step moves a job id from one place to another and copies it nowhere.
LEMMA NextCustody == IInv /\ [Next]_vars => SingleCustody'
<1> SUFFICES ASSUME IInv, [Next]_vars PROVE SingleCustody'
  OBVIOUS
<1> USE NoneAssumption
    DEF IInv, TypeOK, SingleCustody, InPoll, InChan, AtWorker, vars, redis, process,
        worker, GoIdle, MoveTo, GotoWith
<1>1. ASSUME NEW j \in Jobs, NEW m \in RetryLimits, Submit(j, m) PROVE SingleCustody'
  BY <1>1 DEF Submit, Submitted, AbsentIsNowhere, NoRecord
<1>2. ASSUME NEW j \in Jobs, BecomeDue(j) PROVE SingleCustody'
  BY <1>2 DEF BecomeDue
<1>3. ASSUME NEW p \in Pollers, NEW j \in Jobs, Poll(p, j) PROVE SingleCustody'
  BY <1>3 DEF Poll, IsMin
<1>4. ASSUME NEW p \in Pollers, Send(p) PROVE SingleCustody'
  BY <1>4 DEF Send
<1>5. ASSUME NEW p \in Pollers, PollError(p) PROVE SingleCustody'
  BY <1>5 DEF PollError
<1>6. ASSUME NEW p \in Pollers, PollerReturn(p) PROVE SingleCustody'
  BY <1>6 DEF PollerReturn
<1>7. ASSUME NEW p \in Pollers, SendOnClosed(p) PROVE SingleCustody'
  BY <1>7 DEF SendOnClosed, ResetProcess
<1>8. ASSUME NEW w \in Workers, Receive(w) PROVE SingleCustody'
  BY <1>8 DEF Receive
<1>9. ASSUME NEW w \in Workers, ClaimRead(w) PROVE SingleCustody'
  BY <1>9 DEF ClaimRead
<1>10. ASSUME NEW w \in Workers, ClaimWrite(w) PROVE SingleCustody'
  BY <1>10 DEF ClaimWrite
<1>11. ASSUME NEW w \in Workers, ClaimIndex(w) PROVE SingleCustody'
  BY <1>11 DEF ClaimIndex
<1>12. ASSUME NEW w \in Workers, HandlerOk(w) PROVE SingleCustody'
  BY <1>12 DEF HandlerOk
<1>13. ASSUME NEW w \in Workers, CompleteWrite(w) PROVE SingleCustody'
  BY <1>13 DEF CompleteWrite
<1>14. ASSUME NEW w \in Workers, CompleteIndex(w) PROVE SingleCustody'
  BY <1>14 DEF CompleteIndex
<1>15. ASSUME NEW w \in Workers, HandlerErr(w) PROVE SingleCustody'
  BY <1>15 DEF HandlerErr
<1>16. ASSUME NEW w \in Workers, RetryWrite(w) PROVE SingleCustody'
  BY <1>16 DEF RetryWrite
<1>17. ASSUME NEW w \in Workers, RetryIndex(w) PROVE SingleCustody'
  BY <1>17 DEF RetryIndex
<1>18. ASSUME NEW w \in Workers, RetryEnqueue(w) PROVE SingleCustody'
  BY <1>18 DEF RetryEnqueue, EnqueueLater
<1>19. ASSUME NEW w \in Workers, BuryWrite(w) PROVE SingleCustody'
  BY <1>19 DEF BuryWrite
<1>20. ASSUME NEW w \in Workers, BuryIndex(w) PROVE SingleCustody'
  BY <1>20 DEF BuryIndex
<1>21. ASSUME NEW w \in Workers, RedisError(w) PROVE SingleCustody'
  BY <1>21 DEF RedisError
<1>22. ASSUME NEW w \in Workers, WorkerReturn(w) PROVE SingleCustody'
  BY <1>22 DEF WorkerReturn
<1>23. ASSUME Stop PROVE SingleCustody'
  BY <1>23 DEF Stop
<1>24. ASSUME CloseJobCh PROVE SingleCustody'
  BY <1>24 DEF CloseJobCh
<1>25. ASSUME CloseDone PROVE SingleCustody'
  BY <1>25 DEF CloseDone
<1>26. ASSUME Crash PROVE SingleCustody'
  BY <1>26 DEF Crash, ResetProcess
<1>27. ASSUME Restart PROVE SingleCustody'
  BY <1>27 DEF Restart, ResetProcess
<1>28. CASE UNCHANGED vars
  BY <1>28
<1>. QED
  BY <1>1, <1>2, <1>3, <1>4, <1>5, <1>6, <1>7, <1>8, <1>9, <1>10, <1>11,
     <1>12, <1>13, <1>14, <1>15, <1>16, <1>17, <1>18, <1>19, <1>20, <1>21,
     <1>22, <1>23, <1>24, <1>25, <1>26, <1>27, <1>28
  DEF Next, JobStep, PollerStep, WorkerStep, WorkerRun, ProcessStep

\* Only a submission takes a job out of "absent", and it records it as pending.
LEMMA NextAbsent == IInv /\ [Next]_vars => AbsentIsNowhere'
<1> SUFFICES ASSUME IInv, [Next]_vars PROVE AbsentIsNowhere'
  OBVIOUS
<1> USE NoneAssumption, RetryLimitsAssumption
    DEF IInv, AbsentIsNowhere, CopyIsFresh, Fresh, InPoll, InChan, AtWorker, TypeOK, JobRecord,
        vars, redis, process, worker, GoIdle,
        MoveTo, GotoWith, Update, MoveIndex
<1>1. ASSUME NEW j \in Jobs, NEW m \in RetryLimits, Submit(j, m) PROVE AbsentIsNowhere'
  BY <1>1 DEF Submit, Submitted
<1>2. ASSUME NEW j \in Jobs, BecomeDue(j) PROVE AbsentIsNowhere'
  BY <1>2 DEF BecomeDue
<1>3. ASSUME NEW p \in Pollers, NEW j \in Jobs, Poll(p, j) PROVE AbsentIsNowhere'
  BY <1>3 DEF Poll, IsMin
<1>4. ASSUME NEW p \in Pollers, Send(p) PROVE AbsentIsNowhere'
  BY <1>4 DEF Send
<1>5. ASSUME NEW p \in Pollers, PollError(p) PROVE AbsentIsNowhere'
  BY <1>5 DEF PollError
<1>6. ASSUME NEW p \in Pollers, PollerReturn(p) PROVE AbsentIsNowhere'
  BY <1>6 DEF PollerReturn
<1>7. ASSUME NEW p \in Pollers, SendOnClosed(p) PROVE AbsentIsNowhere'
  BY <1>7 DEF SendOnClosed, ResetProcess
<1>8. ASSUME NEW w \in Workers, Receive(w) PROVE AbsentIsNowhere'
  BY <1>8 DEF Receive
<1>9. ASSUME NEW w \in Workers, ClaimRead(w) PROVE AbsentIsNowhere'
  BY <1>9 DEF ClaimRead
<1>10. ASSUME NEW w \in Workers, ClaimWrite(w) PROVE AbsentIsNowhere'
  BY <1>10 DEF ClaimWrite, Claimed
<1>11. ASSUME NEW w \in Workers, ClaimIndex(w) PROVE AbsentIsNowhere'
  BY <1>11 DEF ClaimIndex
<1>12. ASSUME NEW w \in Workers, HandlerOk(w) PROVE AbsentIsNowhere'
  BY <1>12 DEF HandlerOk
<1>13. ASSUME NEW w \in Workers, CompleteWrite(w) PROVE AbsentIsNowhere'
  BY <1>13 DEF CompleteWrite, Completed
<1>14. ASSUME NEW w \in Workers, CompleteIndex(w) PROVE AbsentIsNowhere'
  BY <1>14 DEF CompleteIndex
<1>15. ASSUME NEW w \in Workers, HandlerErr(w) PROVE AbsentIsNowhere'
  BY <1>15 DEF HandlerErr
<1>16. ASSUME NEW w \in Workers, RetryWrite(w) PROVE AbsentIsNowhere'
  BY <1>16 DEF RetryWrite, Failed
<1>17. ASSUME NEW w \in Workers, RetryIndex(w) PROVE AbsentIsNowhere'
  BY <1>17 DEF RetryIndex
<1>18. ASSUME NEW w \in Workers, RetryEnqueue(w) PROVE AbsentIsNowhere'
  BY <1>18 DEF RetryEnqueue, EnqueueLater
<1>19. ASSUME NEW w \in Workers, BuryWrite(w) PROVE AbsentIsNowhere'
  BY <1>19 DEF BuryWrite, Dead
<1>20. ASSUME NEW w \in Workers, BuryIndex(w) PROVE AbsentIsNowhere'
  BY <1>20 DEF BuryIndex
<1>21. ASSUME NEW w \in Workers, RedisError(w) PROVE AbsentIsNowhere'
  BY <1>21 DEF RedisError
<1>22. ASSUME NEW w \in Workers, WorkerReturn(w) PROVE AbsentIsNowhere'
  BY <1>22 DEF WorkerReturn
<1>23. ASSUME Stop PROVE AbsentIsNowhere'
  BY <1>23 DEF Stop
<1>24. ASSUME CloseJobCh PROVE AbsentIsNowhere'
  BY <1>24 DEF CloseJobCh
<1>25. ASSUME CloseDone PROVE AbsentIsNowhere'
  BY <1>25 DEF CloseDone
<1>26. ASSUME Crash PROVE AbsentIsNowhere'
  BY <1>26 DEF Crash, ResetProcess
<1>27. ASSUME Restart PROVE AbsentIsNowhere'
  BY <1>27 DEF Restart, ResetProcess
<1>28. CASE UNCHANGED vars
  BY <1>28
<1>. QED
  BY <1>1, <1>2, <1>3, <1>4, <1>5, <1>6, <1>7, <1>8, <1>9, <1>10, <1>11,
     <1>12, <1>13, <1>14, <1>15, <1>16, <1>17, <1>18, <1>19, <1>20, <1>21,
     <1>22, <1>23, <1>24, <1>25, <1>26, <1>27, <1>28
  DEF Next, JobStep, PollerStep, WorkerStep, WorkerRun, ProcessStep

\* A record is only written by the worker that has the job in custody, so the
\* copies of the others stay what is stored.
LEMMA NextFresh == IInv /\ [Next]_vars => CopyIsFresh'
<1> SUFFICES ASSUME IInv, [Next]_vars PROVE CopyIsFresh'
  OBVIOUS
<1> USE NoneAssumption, RetryLimitsAssumption
    DEF IInv, SingleCustody, CopyIsFresh, Fresh, TypeOK, JobRecord, vars, redis, process, worker,
        GoIdle,
        MoveTo, GotoWith, Update, MoveIndex
<1>1. ASSUME NEW j \in Jobs, NEW m \in RetryLimits, Submit(j, m) PROVE CopyIsFresh'
  BY <1>1 DEF Submit, Submitted, NoRecord, AtWorker, AbsentIsNowhere
<1>2. ASSUME NEW j \in Jobs, BecomeDue(j) PROVE CopyIsFresh'
  BY <1>2 DEF BecomeDue
<1>3. ASSUME NEW p \in Pollers, NEW j \in Jobs, Poll(p, j) PROVE CopyIsFresh'
  BY <1>3 DEF Poll
<1>4. ASSUME NEW p \in Pollers, Send(p) PROVE CopyIsFresh'
  BY <1>4 DEF Send
<1>5. ASSUME NEW p \in Pollers, PollError(p) PROVE CopyIsFresh'
  BY <1>5 DEF PollError
<1>6. ASSUME NEW p \in Pollers, PollerReturn(p) PROVE CopyIsFresh'
  BY <1>6 DEF PollerReturn
<1>7. ASSUME NEW p \in Pollers, SendOnClosed(p) PROVE CopyIsFresh'
  BY <1>7 DEF SendOnClosed, ResetProcess
<1>8. ASSUME NEW w \in Workers, Receive(w) PROVE CopyIsFresh'
  BY <1>8 DEF Receive
<1>9. ASSUME NEW w \in Workers, ClaimRead(w) PROVE CopyIsFresh'
  <2>1. CASE Claimable(job[at[w]])
    BY SMTT(20), <1>9, <2>1 DEF ClaimRead
  <2>2. CASE ~Claimable(job[at[w]])
    BY <1>9, <2>2 DEF ClaimRead
  <2>. QED
    BY <2>1, <2>2
<1>10. ASSUME NEW w \in Workers, ClaimWrite(w) PROVE CopyIsFresh'
  BY <1>10 DEF ClaimWrite, Claimed, Claimable
<1>11. ASSUME NEW w \in Workers, ClaimIndex(w) PROVE CopyIsFresh'
  BY <1>11 DEF ClaimIndex, Claimed
<1>12. ASSUME NEW w \in Workers, HandlerOk(w) PROVE CopyIsFresh'
  <2>1. CASE CanComplete(job[at[w]])
    BY <1>12, <2>1 DEF HandlerOk, CanComplete
  <2>2. CASE ~CanComplete(job[at[w]])
    BY SMTT(20), <1>12, <2>2 DEF HandlerOk
  <2>. QED
    BY <2>1, <2>2
<1>13. ASSUME NEW w \in Workers, CompleteWrite(w) PROVE CopyIsFresh'
  BY <1>13 DEF CompleteWrite, Completed
<1>14. ASSUME NEW w \in Workers, CompleteIndex(w) PROVE CopyIsFresh'
  BY <1>14 DEF CompleteIndex
<1>15. ASSUME NEW w \in Workers, HandlerErr(w) PROVE CopyIsFresh'
  BY <1>15 DEF HandlerErr
<1>16. ASSUME NEW w \in Workers, RetryWrite(w) PROVE CopyIsFresh'
  BY <1>16 DEF RetryWrite, Failed
<1>17. ASSUME NEW w \in Workers, RetryIndex(w) PROVE CopyIsFresh'
  BY <1>17 DEF RetryIndex
<1>18. ASSUME NEW w \in Workers, RetryEnqueue(w) PROVE CopyIsFresh'
  BY <1>18 DEF RetryEnqueue
<1>19. ASSUME NEW w \in Workers, BuryWrite(w) PROVE CopyIsFresh'
  BY <1>19 DEF BuryWrite, Dead
<1>20. ASSUME NEW w \in Workers, BuryIndex(w) PROVE CopyIsFresh'
  BY <1>20 DEF BuryIndex
<1>21. ASSUME NEW w \in Workers, RedisError(w) PROVE CopyIsFresh'
  BY <1>21 DEF RedisError
<1>22. ASSUME NEW w \in Workers, WorkerReturn(w) PROVE CopyIsFresh'
  BY <1>22 DEF WorkerReturn
<1>23. ASSUME Stop PROVE CopyIsFresh'
  BY <1>23 DEF Stop
<1>24. ASSUME CloseJobCh PROVE CopyIsFresh'
  BY <1>24 DEF CloseJobCh
<1>25. ASSUME CloseDone PROVE CopyIsFresh'
  BY <1>25 DEF CloseDone
<1>26. ASSUME Crash PROVE CopyIsFresh'
  BY <1>26 DEF Crash, ResetProcess
<1>27. ASSUME Restart PROVE CopyIsFresh'
  BY <1>27 DEF Restart, ResetProcess
<1>28. CASE UNCHANGED vars
  BY <1>28
<1>. QED
  BY <1>1, <1>2, <1>3, <1>4, <1>5, <1>6, <1>7, <1>8, <1>9, <1>10, <1>11,
     <1>12, <1>13, <1>14, <1>15, <1>16, <1>17, <1>18, <1>19, <1>20, <1>21,
     <1>22, <1>23, <1>24, <1>25, <1>26, <1>27, <1>28
  DEF Next, JobStep, PollerStep, WorkerStep, WorkerRun, ProcessStep

\* The five writes keep the attempt counter within its limit.
LEMMA NextAttempts == IInv /\ [Next]_vars => AttemptsFit'
<1> SUFFICES ASSUME IInv, [Next]_vars PROVE AttemptsFit'
  OBVIOUS
<1> USE NoneAssumption, RetryLimitsAssumption
    DEF IInv, AttemptsFit, CopyIsFresh, Fresh, TypeOK, JobRecord, vars, redis, process, worker,
        GoIdle,
        MoveTo, GotoWith, Update, MoveIndex
<1>1. ASSUME NEW j \in Jobs, NEW m \in RetryLimits, Submit(j, m) PROVE AttemptsFit'
  BY <1>1 DEF Submit, Submitted
<1>2. ASSUME NEW j \in Jobs, BecomeDue(j) PROVE AttemptsFit'
  BY <1>2 DEF BecomeDue
<1>3. ASSUME NEW p \in Pollers, NEW j \in Jobs, Poll(p, j) PROVE AttemptsFit'
  BY <1>3 DEF Poll
<1>4. ASSUME NEW p \in Pollers, Send(p) PROVE AttemptsFit'
  BY <1>4 DEF Send
<1>5. ASSUME NEW p \in Pollers, PollError(p) PROVE AttemptsFit'
  BY <1>5 DEF PollError
<1>6. ASSUME NEW p \in Pollers, PollerReturn(p) PROVE AttemptsFit'
  BY <1>6 DEF PollerReturn
<1>7. ASSUME NEW p \in Pollers, SendOnClosed(p) PROVE AttemptsFit'
  BY <1>7 DEF SendOnClosed, ResetProcess
<1>8. ASSUME NEW w \in Workers, Receive(w) PROVE AttemptsFit'
  BY <1>8 DEF Receive
<1>9. ASSUME NEW w \in Workers, ClaimRead(w) PROVE AttemptsFit'
  BY <1>9 DEF ClaimRead
<1>10. ASSUME NEW w \in Workers, ClaimWrite(w) PROVE AttemptsFit'
  BY <1>10 DEF ClaimWrite, Claimed, Claimable
<1>11. ASSUME NEW w \in Workers, ClaimIndex(w) PROVE AttemptsFit'
  BY <1>11 DEF ClaimIndex
<1>12. ASSUME NEW w \in Workers, HandlerOk(w) PROVE AttemptsFit'
  BY <1>12 DEF HandlerOk
<1>13. ASSUME NEW w \in Workers, CompleteWrite(w) PROVE AttemptsFit'
  BY <1>13 DEF CompleteWrite, Completed
<1>14. ASSUME NEW w \in Workers, CompleteIndex(w) PROVE AttemptsFit'
  BY <1>14 DEF CompleteIndex
<1>15. ASSUME NEW w \in Workers, HandlerErr(w) PROVE AttemptsFit'
  BY <1>15 DEF HandlerErr
<1>16. ASSUME NEW w \in Workers, RetryWrite(w) PROVE AttemptsFit'
  BY <1>16 DEF RetryWrite, Failed
<1>17. ASSUME NEW w \in Workers, RetryIndex(w) PROVE AttemptsFit'
  BY <1>17 DEF RetryIndex
<1>18. ASSUME NEW w \in Workers, RetryEnqueue(w) PROVE AttemptsFit'
  BY <1>18 DEF RetryEnqueue, EnqueueLater
<1>19. ASSUME NEW w \in Workers, BuryWrite(w) PROVE AttemptsFit'
  BY <1>19 DEF BuryWrite, Dead
<1>20. ASSUME NEW w \in Workers, BuryIndex(w) PROVE AttemptsFit'
  BY <1>20 DEF BuryIndex
<1>21. ASSUME NEW w \in Workers, RedisError(w) PROVE AttemptsFit'
  BY <1>21 DEF RedisError
<1>22. ASSUME NEW w \in Workers, WorkerReturn(w) PROVE AttemptsFit'
  BY <1>22 DEF WorkerReturn
<1>23. ASSUME Stop PROVE AttemptsFit'
  BY <1>23 DEF Stop
<1>24. ASSUME CloseJobCh PROVE AttemptsFit'
  BY <1>24 DEF CloseJobCh
<1>25. ASSUME CloseDone PROVE AttemptsFit'
  BY <1>25 DEF CloseDone
<1>26. ASSUME Crash PROVE AttemptsFit'
  BY <1>26 DEF Crash, ResetProcess
<1>27. ASSUME Restart PROVE AttemptsFit'
  BY <1>27 DEF Restart, ResetProcess
<1>28. CASE UNCHANGED vars
  BY <1>28
<1>. QED
  BY <1>1, <1>2, <1>3, <1>4, <1>5, <1>6, <1>7, <1>8, <1>9, <1>10, <1>11,
     <1>12, <1>13, <1>14, <1>15, <1>16, <1>17, <1>18, <1>19, <1>20, <1>21,
     <1>22, <1>23, <1>24, <1>25, <1>26, <1>27, <1>28
  DEF Next, JobStep, PollerStep, WorkerStep, WorkerRun, ProcessStep

-----------------------------------------------------------------------------
(* What a step does to the records *)

\* Only five steps write a record, and each writes it from the status the
\* lifecycle expects; every other step leaves the records alone.
LEMMA RecordSteps ==
    ASSUME IInv, [Next]_vars
    PROVE  \/ UNCHANGED job
           \/ \E j \in Jobs, m \in RetryLimits :
                job[j] = NoRecord /\ Update(j, Submitted(m))
           \/ \E j \in Jobs : Claimable(job[j]) /\ Update(j, Claimed(job[j]))
           \/ \E j \in Jobs :
                job[j].st = "processing" /\ Update(j, Completed(job[j]))
           \/ \E j \in Jobs :
                /\ job[j].st = "processing" /\ job[j].att < job[j].max
                /\ Update(j, Failed(job[j]))
           \/ \E j \in Jobs :
                /\ job[j].st = "processing" /\ job[j].att >= job[j].max
                /\ Update(j, Dead(job[j]))
<1> USE DEF IInv, TypeOK, CopyIsFresh, Fresh
<1>1. ASSUME NEW j \in Jobs, NEW m \in RetryLimits, Submit(j, m)
      PROVE  job[j] = NoRecord /\ Update(j, Submitted(m))
  BY <1>1 DEF Submit
<1>2. ASSUME NEW w \in Workers, ClaimWrite(w)
      PROVE  \E j \in Jobs : Claimable(job[j]) /\ Update(j, Claimed(job[j]))
  <2>1. at[w] \in Jobs /\ rec[w] = job[at[w]] /\ Claimable(job[at[w]])
    BY <1>2 DEF ClaimWrite
  <2>. QED
    BY <1>2, <2>1 DEF ClaimWrite
<1>3. ASSUME NEW w \in Workers, CompleteWrite(w)
      PROVE  \E j \in Jobs :
                job[j].st = "processing" /\ Update(j, Completed(job[j]))
  <2>1. at[w] \in Jobs /\ rec[w] = job[at[w]] /\ rec[w].st = "processing"
    BY <1>3 DEF CompleteWrite
  <2>. QED
    BY <1>3, <2>1 DEF CompleteWrite
<1>4. ASSUME NEW w \in Workers, RetryWrite(w)
      PROVE  \E j \in Jobs :
                /\ job[j].st = "processing" /\ job[j].att < job[j].max
                /\ Update(j, Failed(job[j]))
  <2>1. at[w] \in Jobs /\ rec[w] = job[at[w]] /\ rec[w].st = "processing"
    BY <1>4 DEF RetryWrite
  <2>. QED
    BY <1>4, <2>1 DEF RetryWrite
<1>5. ASSUME NEW w \in Workers, BuryWrite(w)
      PROVE  \E j \in Jobs :
                /\ job[j].st = "processing" /\ job[j].att >= job[j].max
                /\ Update(j, Dead(job[j]))
  <2>1. /\ at[w] \in Jobs /\ rec[w] = job[at[w]] /\ rec[w].st = "processing"
        /\ rec[w].att >= rec[w].max
    BY <1>5 DEF BuryWrite
  <2>. QED
    BY <1>5, <2>1 DEF BuryWrite
<1> DEFINE Quiet ==
      \/ \E j \in Jobs : BecomeDue(j) \/ \E p \in Pollers : Poll(p, j)
      \/ \E p \in Pollers :
            Send(p) \/ PollError(p) \/ PollerReturn(p) \/ SendOnClosed(p)
      \/ \E w \in Workers :
            \/ Receive(w) \/ ClaimRead(w) \/ ClaimIndex(w) \/ HandlerOk(w)
            \/ CompleteIndex(w) \/ HandlerErr(w) \/ RetryIndex(w)
            \/ RetryEnqueue(w) \/ BuryIndex(w) \/ RedisError(w) \/ WorkerReturn(w)
      \/ ProcessStep
      \/ UNCHANGED vars
<1>6. ASSUME Quiet PROVE UNCHANGED job
  BY <1>6 DEF Quiet, BecomeDue, Poll, Send, PollError, PollerReturn,
         SendOnClosed, Receive, ClaimRead, ClaimIndex, HandlerOk,
         CompleteIndex, HandlerErr, RetryIndex, RetryEnqueue, BuryIndex,
         RedisError, WorkerReturn, Stop, CloseJobCh, CloseDone, Crash,
         Restart, redis, process, worker, ProcessStep, vars
<1>. QED
  BY <1>1, <1>2, <1>3, <1>4, <1>5, <1>6
  DEF Next, JobStep, PollerStep, WorkerStep, WorkerRun

-----------------------------------------------------------------------------
(* Redis tells one story *)

\* As long as nothing went wrong the process is up, so no goroutine returns and
\* nothing is reset: these are the steps that are left.
LEMMA CalmSteps ==
    ASSUME IInv, IndexIsBehind, [Next]_vars, jobFaults' = 0
    PROVE  /\ jobFaults = 0
           /\ \/ \E j \in Jobs, m \in RetryLimits : Submit(j, m)
              \/ \E j \in Jobs : BecomeDue(j)
              \/ \E p \in Pollers, j \in Jobs : Poll(p, j)
              \/ \E p \in Pollers : Send(p)
              \/ \E w \in Workers : WorkerRun(w)
              \/ UNCHANGED vars
<1> USE DEF IInv, TypeOK, IndexIsBehind
<1>1. jobFaults \in Nat /\ jobFaults + 1 # 0
  BY MaxFaultsAssumption
<1>2. ASSUME NEW p \in Pollers, PollError(p) \/ PollerReturn(p) \/ SendOnClosed(p)
      PROVE  FALSE
  BY <1>1, <1>2 DEF PollError, PollerReturn, SendOnClosed
<1>3. ASSUME NEW w \in Workers, RedisError(w) \/ WorkerReturn(w)
      PROVE  FALSE
  BY <1>1, <1>3 DEF RedisError, WorkerReturn
<1>4. ASSUME ProcessStep PROVE FALSE
  BY <1>1, <1>4 DEF ProcessStep, Stop, CloseJobCh, CloseDone, Crash, Restart
<1>5. ASSUME NEW j \in Jobs, JobStep(j)
      PROVE  (\E m \in RetryLimits : Submit(j, m)) \/ BecomeDue(j)
  BY <1>5 DEF JobStep
<1>6. ASSUME NEW p \in Pollers, PollerStep(p)
      PROVE  (\E j \in Jobs : Poll(p, j)) \/ Send(p)
  BY <1>2, <1>6 DEF PollerStep
<1>7. ASSUME NEW w \in Workers, WorkerStep(w) PROVE WorkerRun(w)
  BY <1>3, <1>7 DEF WorkerStep
<1>8. \/ \E j \in Jobs, m \in RetryLimits : Submit(j, m)
      \/ \E j \in Jobs : BecomeDue(j)
      \/ \E p \in Pollers, j \in Jobs : Poll(p, j)
      \/ \E p \in Pollers : Send(p)
      \/ \E w \in Workers : WorkerRun(w)
      \/ UNCHANGED vars
  BY <1>4, <1>5, <1>6, <1>7 DEF Next
<1>9. jobFaults' = jobFaults
  <2>1. ASSUME NEW w \in Workers, WorkerRun(w) PROVE jobFaults' = jobFaults
    BY <2>1 DEF WorkerRun, Receive, ClaimRead, ClaimWrite, ClaimIndex, HandlerOk,
       CompleteWrite, CompleteIndex, HandlerErr, RetryWrite, RetryIndex, RetryEnqueue,
       BuryWrite, BuryIndex
  <2>. QED
    BY <1>8, <2>1 DEF Submit, BecomeDue, Poll, Send, vars
<1>. QED
  BY <1>8, <1>9

\* The process stays up as long as nothing went wrong.
LEMMA CalmIsUp ==
    ASSUME IInv, IndexIsBehind, [Next]_vars, jobFaults' = 0
    PROVE  phase' = "up"
<1>1. jobFaults = 0 /\ phase = "up"
  BY CalmSteps DEF IndexIsBehind
<1>2. ASSUME NEW w \in Workers, WorkerRun(w) PROVE phase' = phase
  BY <1>2 DEF WorkerRun, Receive, ClaimRead, ClaimWrite, ClaimIndex, HandlerOk,
     CompleteWrite, CompleteIndex, HandlerErr, RetryWrite, RetryIndex, RetryEnqueue,
     BuryWrite, BuryIndex
<1>. QED
  BY <1>1, <1>2, CalmSteps DEF Submit, BecomeDue, Poll, Send, vars, process

\* A worker in the middle of its writes has the job for itself, so the record
\* stays what it wrote, whatever the others do.
LEMMA NextWritten == IInv /\ WriteIsStored /\ [Next]_vars => WriteIsStored'
<1> SUFFICES ASSUME IInv, WriteIsStored, [Next]_vars PROVE WriteIsStored'
  OBVIOUS
<1> USE NoneAssumption
    DEF IInv, SingleCustody, CopyIsFresh, Fresh, WriteIsStored, TypeOK, JobRecord,
        vars, redis, process, worker, GoIdle, MoveTo, GotoWith, Update, MoveIndex
<1>1. ASSUME NEW j \in Jobs, NEW m \in RetryLimits, Submit(j, m) PROVE WriteIsStored'
  BY <1>1 DEF Submit, Submitted, NoRecord, AtWorker, AbsentIsNowhere
<1>2. ASSUME NEW j \in Jobs, BecomeDue(j) PROVE WriteIsStored'
  BY <1>2 DEF BecomeDue
<1>3. ASSUME NEW p \in Pollers, NEW j \in Jobs, Poll(p, j) PROVE WriteIsStored'
  BY <1>3 DEF Poll
<1>4. ASSUME NEW p \in Pollers, Send(p) PROVE WriteIsStored'
  BY <1>4 DEF Send
<1>5. ASSUME NEW p \in Pollers, PollError(p) PROVE WriteIsStored'
  BY <1>5 DEF PollError
<1>6. ASSUME NEW p \in Pollers, PollerReturn(p) PROVE WriteIsStored'
  BY <1>6 DEF PollerReturn
<1>7. ASSUME NEW p \in Pollers, SendOnClosed(p) PROVE WriteIsStored'
  BY <1>7 DEF SendOnClosed, ResetProcess
<1>8. ASSUME NEW w \in Workers, Receive(w) PROVE WriteIsStored'
  BY <1>8 DEF Receive
<1>9. ASSUME NEW w \in Workers, ClaimRead(w) PROVE WriteIsStored'
  BY <1>9 DEF ClaimRead
<1>10. ASSUME NEW w \in Workers, ClaimWrite(w) PROVE WriteIsStored'
  BY <1>10 DEF ClaimWrite, Claimed, Claimable
<1>11. ASSUME NEW w \in Workers, ClaimIndex(w) PROVE WriteIsStored'
  BY <1>11 DEF ClaimIndex
<1>12. ASSUME NEW w \in Workers, HandlerOk(w) PROVE WriteIsStored'
  BY <1>12 DEF HandlerOk
<1>13. ASSUME NEW w \in Workers, CompleteWrite(w) PROVE WriteIsStored'
  BY <1>13 DEF CompleteWrite, Completed
<1>14. ASSUME NEW w \in Workers, CompleteIndex(w) PROVE WriteIsStored'
  BY <1>14 DEF CompleteIndex
<1>15. ASSUME NEW w \in Workers, HandlerErr(w) PROVE WriteIsStored'
  BY <1>15 DEF HandlerErr
<1>16. ASSUME NEW w \in Workers, RetryWrite(w) PROVE WriteIsStored'
  BY <1>16 DEF RetryWrite, Failed
<1>17. ASSUME NEW w \in Workers, RetryIndex(w) PROVE WriteIsStored'
  BY <1>17 DEF RetryIndex
<1>18. ASSUME NEW w \in Workers, RetryEnqueue(w) PROVE WriteIsStored'
  BY <1>18 DEF RetryEnqueue
<1>19. ASSUME NEW w \in Workers, BuryWrite(w) PROVE WriteIsStored'
  BY <1>19 DEF BuryWrite, Dead
<1>20. ASSUME NEW w \in Workers, BuryIndex(w) PROVE WriteIsStored'
  BY <1>20 DEF BuryIndex
<1>21. ASSUME NEW w \in Workers, RedisError(w) PROVE WriteIsStored'
  BY <1>21 DEF RedisError
<1>22. ASSUME NEW w \in Workers, WorkerReturn(w) PROVE WriteIsStored'
  BY <1>22 DEF WorkerReturn
<1>23. ASSUME Stop PROVE WriteIsStored'
  BY <1>23 DEF Stop
<1>24. ASSUME CloseJobCh PROVE WriteIsStored'
  BY <1>24 DEF CloseJobCh
<1>25. ASSUME CloseDone PROVE WriteIsStored'
  BY <1>25 DEF CloseDone
<1>26. ASSUME Crash PROVE WriteIsStored'
  BY <1>26 DEF Crash, ResetProcess
<1>27. ASSUME Restart PROVE WriteIsStored'
  BY <1>27 DEF Restart, ResetProcess
<1>28. CASE UNCHANGED vars
  BY <1>28
<1>. QED
  BY <1>1, <1>2, <1>3, <1>4, <1>5, <1>6, <1>7, <1>8, <1>9, <1>10, <1>11,
     <1>12, <1>13, <1>14, <1>15, <1>16, <1>17, <1>18, <1>19, <1>20, <1>21,
     <1>22, <1>23, <1>24, <1>25, <1>26, <1>27, <1>28
  DEF Next, JobStep, PollerStep, WorkerStep, WorkerRun, ProcessStep

\* A job that nobody takes away stays on its way.
LEMMA StaysOnItsWay ==
    ASSUME NEW j \in Jobs, OnItsWay(j), queue \subseteq queue', poll' = poll, jobCh' = jobCh,
           \A w \in Workers : at[w] = j => at'[w] = j
    PROVE  OnItsWay(j)'
<1>1. CASE j \in queue
  BY <1>1 DEF OnItsWay
<1>2. CASE InPoll(j)
  BY <1>2 DEF OnItsWay, InPoll
<1>3. CASE InChan(j)
  BY <1>3 DEF OnItsWay, InChan
<1>4. CASE AtWorker(j)
  BY <1>4 DEF OnItsWay, AtWorker
<1>. QED
  BY <1>1, <1>2, <1>3, <1>4 DEF OnItsWay

\* A job on its way is handed on, and a job a worker lets go of is back on the
\* queue or can no longer be claimed.
LEMMA NextFound ==
    ASSUME StoresInv, [Next]_vars, jobFaults' = 0
    PROVE  NothingLost'
<1> SUFFICES ASSUME NEW k \in Jobs, Claimable(job'[k]) PROVE OnItsWay(k)'
  BY DEF NothingLost
<1>0. /\ jobFaults = 0 /\ TypeOK /\ CopyIsFresh /\ WriteIsStored
      /\ Claimable(job[k]) => OnItsWay(k)
  BY CalmSteps DEF StoresInv, IInv, NothingLost
<1>1. ASSUME NEW j \in Jobs, NEW m \in RetryLimits, Submit(j, m) PROVE OnItsWay(k)'
  <2>1. CASE k = j
    BY <1>1, <2>1 DEF Submit, OnItsWay
  <2>2. CASE k # j
    <3>1. job'[k] = job[k]
      BY <1>0, <1>1, <2>2 DEF Submit, Update, TypeOK
    <3>. QED
      BY <1>0, <1>1, <3>1, StaysOnItsWay DEF Submit, process, worker
  <2>. QED
    BY <2>1, <2>2
<1>2. ASSUME NEW j \in Jobs, BecomeDue(j) PROVE OnItsWay(k)'
  BY <1>0, <1>2, StaysOnItsWay DEF BecomeDue, process, worker
<1>3. ASSUME NEW p \in Pollers, NEW j \in Jobs, Poll(p, j) PROVE OnItsWay(k)'
  <2>1. job' = job /\ at' = at /\ jobCh' = jobCh /\ OnItsWay(k)
    BY <1>0, <1>3 DEF Poll, worker
  <2>2. CASE k = j
    <3>1. poll'[p] = k
      BY <1>0, <1>3, <2>2 DEF Poll, TypeOK
    <3>. QED
      BY <3>1 DEF OnItsWay, InPoll
  <2>3. CASE k # j
    <3>1. InPoll(k) => InPoll(k)'
      <4>1. \A q \in Pollers : poll[q] = k => q # p /\ poll'[q] = k
        BY <1>0, <1>3, NoneAssumption DEF Poll, TypeOK
      <4>. QED
        BY <4>1 DEF InPoll
    <3>2. k \in queue => k \in queue'
      BY <1>3, <2>3 DEF Poll
    <3>. QED
      BY <2>1, <3>1, <3>2 DEF OnItsWay, InChan, AtWorker
  <2>. QED
    BY <2>2, <2>3
<1>4. ASSUME NEW p \in Pollers, Send(p) PROVE OnItsWay(k)'
  <2>1. job' = job /\ at' = at /\ queue' = queue /\ OnItsWay(k)
    BY <1>0, <1>4 DEF Send, worker, redis
  <2>2. /\ jobCh' = Append(jobCh, poll[p]) /\ Len(jobCh') = Len(jobCh) + 1
        /\ Len(jobCh) \in Nat /\ poll[p] \in Jobs
        /\ jobCh'[Len(jobCh) + 1] = poll[p]
        /\ \A i \in 1..Len(jobCh) : jobCh'[i] = jobCh[i]
    BY <1>0, <1>4 DEF Send, TypeOK
  <2>3. InChan(k) => InChan(k)'
    BY <2>2 DEF InChan
  <2>4. InPoll(k) => InPoll(k)' \/ InChan(k)'
    <3>1. CASE poll[p] = k
      BY <2>2, <3>1 DEF InChan
    <3>2. CASE poll[p] # k
      <4>1. \A q \in Pollers : poll[q] = k => poll'[q] = k
        BY <1>0, <1>4, <3>2 DEF Send, TypeOK
      <4>. QED
        BY <4>1 DEF InPoll
    <3>. QED
      BY <3>1, <3>2
  <2>. QED
    BY <2>1, <2>3, <2>4 DEF OnItsWay, AtWorker
<1>5. ASSUME NEW w \in Workers, WorkerRun(w) PROVE OnItsWay(k)'
  <2>1. ASSUME Receive(w) PROVE OnItsWay(k)'
    <3>1. job' = job /\ poll' = poll /\ queue' = queue /\ OnItsWay(k)
      BY <1>0, <2>1 DEF Receive, redis
    <3>2. /\ jobCh # <<>> /\ jobCh' = Tail(jobCh) /\ jobCh \in Seq(Jobs)
          /\ at[w] = None /\ at'[w] = Head(jobCh)
          /\ \A v \in Workers \ {w} : at'[v] = at[v]
      BY <1>0, <2>1 DEF Receive, TypeOK
    <3>3. InChan(k) => InChan(k)' \/ AtWorker(k)'
      <4> SUFFICES ASSUME NEW i \in 1..Len(jobCh), jobCh[i] = k
                   PROVE  InChan(k)' \/ AtWorker(k)'
        BY DEF InChan
      <4>1. CASE i = 1
        BY <3>2, <4>1 DEF AtWorker
      <4>2. CASE i # 1
        <5>1. /\ i - 1 \in 1..Len(Tail(jobCh))
              /\ Tail(jobCh)[i - 1] = k
          BY <3>2, <4>2
        <5>. QED
          BY <3>2, <5>1 DEF InChan
      <4>. QED
        BY <4>1, <4>2
    <3>4. AtWorker(k) => AtWorker(k)'
      BY <3>2, NoneAssumption DEF AtWorker
    <3>. QED
      BY <3>1, <3>3, <3>4 DEF OnItsWay, InPoll
  <2>2. ASSUME ~Receive(w), at' = at \/ k # at[w] PROVE OnItsWay(k)'
    <3>1. /\ poll' = poll /\ jobCh' = jobCh /\ queue \subseteq queue'
          /\ \A j \in Jobs : j # at[w] => job'[j] = job[j]
          /\ \A v \in Workers : v # w => at'[v] = at[v]
          /\ pc[w] \in PC \ {"idle"} /\ at[w] \in Jobs
      BY <1>0, <1>5, <2>2
      DEF WorkerRun, TypeOK, PC, ClaimRead, ClaimWrite, ClaimIndex, HandlerOk, CompleteWrite,
          CompleteIndex, HandlerErr, RetryWrite, RetryIndex, RetryEnqueue, BuryWrite,
          BuryIndex, EnqueueLater, redis, GoIdle, MoveTo, GotoWith, Update
    <3>2. CASE k # at[w]
      <4>1. \A v \in Workers : at[v] = k => at'[v] = k
        BY <3>1, <3>2
      <4>. QED
        BY <1>0, <3>1, <3>2, <4>1, StaysOnItsWay
    <3>3. CASE k = at[w]
      BY <2>2, <3>3 DEF OnItsWay, AtWorker
    <3>. QED
      BY <3>2, <3>3
  <2>3. ASSUME k = at[w], at' # at, ~Receive(w) PROVE OnItsWay(k)'
    <3>1. ASSUME ClaimRead(w) PROVE FALSE
      BY <1>0, <2>3, <3>1 DEF ClaimRead, GotoWith, redis
    <3>2. ASSUME HandlerOk(w) PROVE FALSE
      BY <1>0, <2>3, <3>2 DEF HandlerOk, GotoWith, CanComplete, CopyIsFresh, Fresh
    <3>3. ASSUME CompleteIndex(w) PROVE FALSE
      BY <1>0, <2>3, <3>3 DEF CompleteIndex, WriteIsStored, Claimable
    <3>4. ASSUME BuryIndex(w) PROVE FALSE
      BY <1>0, <2>3, <3>4 DEF BuryIndex, WriteIsStored, Claimable
    <3>5. ASSUME RetryEnqueue(w) PROVE OnItsWay(k)'
      BY <2>3, <3>5 DEF RetryEnqueue, EnqueueLater, OnItsWay
    <3>6. ASSUME \/ ClaimWrite(w) \/ ClaimIndex(w) \/ CompleteWrite(w) \/ HandlerErr(w)
                 \/ RetryWrite(w) \/ RetryIndex(w) \/ BuryWrite(w)
          PROVE  FALSE
      BY <2>3, <3>6 DEF ClaimWrite, ClaimIndex, CompleteWrite, HandlerErr, RetryWrite,
         RetryIndex, BuryWrite, MoveTo, GotoWith
    <3>. QED
      BY <1>5, <2>3, <3>1, <3>2, <3>3, <3>4, <3>5, <3>6 DEF WorkerRun
  <2>. QED
    BY <2>1, <2>2, <2>3
<1>6. CASE UNCHANGED vars
  BY <1>0, <1>6, StaysOnItsWay DEF vars, redis, process, worker
<1>. QED
  BY <1>1, <1>2, <1>3, <1>4, <1>5, <1>6, CalmSteps DEF StoresInv

\* SREM and SADD of one job.
LEMMA MoveIndexMoves ==
    ASSUME NEW j \in Jobs, NEW from \in Status, NEW to \in Status \ {"absent"},
           InSet(j, from), MoveIndex(j, from, to)
    PROVE  /\ InSet(j, to)'
           /\ \A k \in Jobs \ {j}, s \in Status : InSet(k, s) => InSet(k, s)'
BY DEF InSet, MoveIndex, Status

\* A worker changes the record, the sets and the goroutine of its own job only.
LEMMA OthersKeep ==
    ASSUME StoresInv, jobFaults = 0, NEW w \in Workers, WorkerRun(w)
    PROVE  /\ \A v \in Workers \ {w} :
                pc'[v] = pc[v] /\ at'[v] = at[v] /\ rec'[v] = rec[v]
           /\ \A k \in Jobs \ {at[w]} :
                /\ job'[k] = job[k]
                /\ \A s \in Status : InSet(k, s) => InSet(k, s)'
           /\ pc[w] = "idle" => pc'[w] = "got"
           /\ pc[w] # "idle" => at'[w] \in {at[w], None}
<1> USE DEF StoresInv, IInv, TypeOK, PC, GoIdle, MoveTo, GotoWith, Update, redis
<1>1. CASE Receive(w)
  BY <1>1 DEF Receive, InSet
<1>2. CASE ClaimRead(w)
  BY <1>2 DEF ClaimRead, InSet
<1>3. CASE ClaimWrite(w)
  BY <1>3 DEF ClaimWrite, InSet
<1>4. CASE ClaimIndex(w)
  BY <1>4 DEF ClaimIndex, InSet, MoveIndex
<1>5. CASE HandlerOk(w)
  BY <1>5 DEF HandlerOk, InSet
<1>6. CASE CompleteWrite(w)
  BY <1>6 DEF CompleteWrite, InSet
<1>7. CASE CompleteIndex(w)
  BY <1>7 DEF CompleteIndex, InSet, MoveIndex
<1>8. CASE HandlerErr(w)
  BY <1>8 DEF HandlerErr, InSet
<1>9. CASE RetryWrite(w)
  BY <1>9 DEF RetryWrite, InSet
<1>10. CASE RetryIndex(w)
  BY <1>10 DEF RetryIndex, InSet, MoveIndex
<1>11. CASE RetryEnqueue(w)
  BY <1>11 DEF RetryEnqueue, InSet
<1>12. CASE BuryWrite(w)
  BY <1>12 DEF BuryWrite, InSet
<1>13. CASE BuryIndex(w)
  BY <1>13 DEF BuryIndex, InSet, MoveIndex
<1>. QED
  BY <1>1, <1>2, <1>3, <1>4, <1>5, <1>6, <1>7, <1>8, <1>9, <1>10, <1>11, <1>12,
     <1>13 DEF WorkerRun

\* The sets follow the record of the worker's own job by one step: a write leaves
\* them behind, and the SREM and SADD that follow take the job out of the one set
\* it is in and put it into the set of its record.
LEMMA OwnFollows ==
    ASSUME StoresInv, jobFaults = 0, NEW w \in Workers, WorkerRun(w),
           NEW j \in Jobs, at[w] = j
    PROVE  /\ Moving(w)' => InSet(j, SetBefore(w))'
           /\ ~Moving(w)' => InSet(j, job[j].st)'
<1>0. /\ ~Moving(w) => InSet(j, job[j].st)
      /\ Moving(w) => InSet(j, SetBefore(w))
      /\ pc[w] # "idle" /\ at[w] \in Jobs
      /\ TypeOK /\ CopyIsFresh /\ WriteIsStored
  BY NoneAssumption
  DEF StoresInv, IInv, TypeOK, SingleCustody, IndexAgrees, IndexIsBehind
<1>1. ASSUME idx' = idx, job' = job, ~Moving(w), ~Moving(w)'
      PROVE  InSet(j, job[j].st)'
  BY <1>0, <1>1 DEF InSet
<1>2. ASSUME idx' = idx, ~Moving(w), job[j].st = SetBefore(w)'
      PROVE  InSet(j, SetBefore(w))'
  BY <1>0, <1>2 DEF InSet
<1>3. ASSUME NEW to \in Status \ {"absent"}, Moving(w), SetBefore(w) \in Status,
             MoveIndex(j, SetBefore(w), to), job'[j].st = to
      PROVE  InSet(j, job[j].st)'
  BY <1>0, <1>3, MoveIndexMoves DEF InSet
<1> USE DEF TypeOK, CopyIsFresh, Fresh, WriteIsStored, Moving, SetBefore, GoIdle, MoveTo,
        GotoWith, Update, redis
<1>4. CASE Receive(w)
  BY <1>0, <1>4 DEF Receive
<1>5. CASE ClaimRead(w)
  BY <1>0, <1>1, <1>5 DEF ClaimRead
<1>6. CASE ClaimWrite(w)
  BY <1>0, <1>2, <1>6 DEF ClaimWrite
<1>7. CASE ClaimIndex(w)
  BY <1>0, <1>3, <1>7 DEF ClaimIndex, Claimed, JobRecord, Status
<1>8. CASE HandlerOk(w)
  BY <1>0, <1>1, <1>8 DEF HandlerOk
<1>9. CASE CompleteWrite(w)
  BY <1>0, <1>2, <1>9 DEF CompleteWrite
<1>10. CASE CompleteIndex(w)
  BY <1>0, <1>3, <1>10 DEF CompleteIndex, Status
<1>11. CASE HandlerErr(w)
  BY <1>0, <1>1, <1>11 DEF HandlerErr
<1>12. CASE RetryWrite(w)
  BY <1>0, <1>2, <1>12 DEF RetryWrite
<1>13. CASE RetryIndex(w)
  BY <1>0, <1>3, <1>13 DEF RetryIndex, Status
<1>14. CASE RetryEnqueue(w)
  BY <1>0, <1>1, <1>14 DEF RetryEnqueue
<1>15. CASE BuryWrite(w)
  BY <1>0, <1>2, <1>15 DEF BuryWrite
<1>16. CASE BuryIndex(w)
  BY <1>0, <1>3, <1>16 DEF BuryIndex, Status
<1>. QED
  BY <1>4, <1>5, <1>6, <1>7, <1>8, <1>9, <1>10, <1>11, <1>12, <1>13, <1>14, <1>15,
     <1>16 DEF WorkerRun

\* So a job that is being moved is in the set it was in before the write, ...
LEMMA NextBehind ==
    ASSUME StoresInv, [Next]_vars, jobFaults' = 0
    PROVE  IndexIsBehind'
<1> SUFFICES ASSUME NEW v \in Workers, Moving(v)' PROVE InSet(at[v], SetBefore(v))'
  BY CalmIsUp DEF IndexIsBehind, StoresInv
<1>0. /\ jobFaults = 0 /\ TypeOK /\ SingleCustody /\ AbsentIsNowhere
      /\ Moving(v) => InSet(at[v], SetBefore(v))
      /\ at'[v] \in Jobs
  BY CalmSteps, NextType DEF StoresInv, IInv, IndexIsBehind, Moving, TypeOK
<1>1. ASSUME UNCHANGED worker, UNCHANGED idx PROVE InSet(at[v], SetBefore(v))'
  BY <1>0, <1>1 DEF worker, InSet, SetBefore, Moving
<1>2. ASSUME NEW j \in Jobs, NEW m \in RetryLimits, Submit(j, m)
      PROVE  InSet(at[v], SetBefore(v))'
  <2>1. UNCHANGED worker /\ at[v] # j /\ Moving(v) /\ \A s \in Status : j # at[v]
    BY <1>0, <1>2 DEF Submit, process, worker, AbsentIsNowhere, AtWorker, NoRecord, Moving
  <2>2. \A s \in Status : at[v] \in idx'[s] <=> at[v] \in idx[s]
    BY <1>0, <1>2, <2>1 DEF Submit, TypeOK
  <2>. QED
    BY <1>0, <2>1, <2>2 DEF InSet, SetBefore, worker
<1>3. ASSUME NEW w \in Workers, WorkerRun(w) PROVE InSet(at[v], SetBefore(v))'
  <2>1. CASE v = w
    <3>1. pc[w] # "idle" /\ at'[w] = at[w] /\ at[w] \in Jobs
      BY <1>0, <1>3, <2>1, OthersKeep, NoneAssumption DEF Moving
    <3>. QED
      BY <1>0, <1>3, <2>1, <3>1, OwnFollows
  <2>2. CASE v # w
    <3>1. pc'[v] = pc[v] /\ at'[v] = at[v] /\ rec'[v] = rec[v]
      BY <1>0, <1>3, <2>2, OthersKeep
    <3>2. at[v] \in Jobs \ {at[w]} /\ Moving(v) /\ SetBefore(v) \in Status
      BY <1>0, <2>2, <3>1, NoneAssumption
      DEF SingleCustody, Moving, SetBefore, TypeOK, JobRecord, Status
    <3>3. InSet(at[v], SetBefore(v)) => \A s \in Status :
            s = SetBefore(v) => \A t \in Status : at[v] \in idx'[t] <=> (t = s /\ t # "absent")
      BY <1>0, <1>3, <3>2, OthersKeep DEF InSet
    <3>. QED
      BY <1>0, <3>1, <3>2, <3>3 DEF InSet, SetBefore
  <2>. QED
    BY <2>1, <2>2
<1>. QED
  BY <1>1, <1>2, <1>3, CalmSteps
  DEF StoresInv, BecomeDue, Poll, Send, vars, redis, process

\* ... and every other job is in the set of its record.
LEMMA NextIndex ==
    ASSUME StoresInv, [Next]_vars, jobFaults' = 0
    PROVE  IndexAgrees'
<1> SUFFICES ASSUME NEW k \in Jobs, \A v \in Workers : at'[v] = k => ~Moving(v)'
             PROVE  InSet(k, job[k].st)'
  BY DEF IndexAgrees
<1>0. /\ jobFaults = 0 /\ TypeOK /\ AbsentIsNowhere
      /\ (\A v \in Workers : at[v] = k => ~Moving(v)) => InSet(k, job[k].st)
      /\ job[k].st \in Status
  BY CalmSteps DEF StoresInv, IInv, IndexAgrees, TypeOK, JobRecord
<1>1. ASSUME UNCHANGED worker, UNCHANGED idx, UNCHANGED job PROVE InSet(k, job[k].st)'
  BY <1>0, <1>1 DEF worker, InSet, Moving
<1>2. ASSUME NEW j \in Jobs, NEW m \in RetryLimits, Submit(j, m) PROVE InSet(k, job[k].st)'
  <2>1. InSet(k, job[k].st)
    BY <1>0, <1>2 DEF Submit, process, worker, Moving
  <2>2. CASE k = j
    BY <1>0, <1>2, <2>1, <2>2 DEF Submit, Update, Submitted, NoRecord, InSet, TypeOK, Status
  <2>3. CASE k # j
    BY <1>0, <1>2, <2>1, <2>3 DEF Submit, Update, InSet, TypeOK, Status
  <2>. QED
    BY <2>2, <2>3
<1>3. ASSUME NEW w \in Workers, WorkerRun(w) PROVE InSet(k, job[k].st)'
  <2>1. CASE at[w] = k
    <3>1. ~Moving(w)'
      <4>1. CASE at'[w] = k
        BY <4>1
      <4>2. CASE at'[w] # k
        <5>1. at'[w] = None /\ TypeOK'
          BY <1>0, <1>3, <2>1, <4>2, OthersKeep, NextType, NoneAssumption DEF TypeOK
        <5>. QED
          BY <5>1 DEF TypeOK, Moving
      <4>. QED
        BY <4>1, <4>2
    <3>. QED
      BY <1>0, <1>3, <2>1, <3>1, OwnFollows
  <2>2. CASE at[w] # k
    <3>1. \A v \in Workers : at[v] = k => ~Moving(v)
      BY <1>0, <1>3, <2>2, OthersKeep DEF Moving
    <3>2. job'[k] = job[k] /\ (InSet(k, job[k].st) => \A s \in Status : s = job[k].st => InSet(k, s)')
      BY <1>0, <1>3, <2>2, OthersKeep
    <3>. QED
      BY <1>0, <3>1, <3>2 DEF InSet
  <2>. QED
    BY <2>1, <2>2
<1>. QED
  BY <1>1, <1>2, <1>3, CalmSteps
  DEF StoresInv, BecomeDue, Poll, Send, vars, redis, process

-----------------------------------------------------------------------------
(* Theorems *)

\* Every reachable state is well typed: in particular the worker's copies and
\* the status sets always hold records and ids the repository could have stored.
THEOREM TypeCorrect == Spec => []TypeOK
<1>1. Init => TypeOK
  BY InitType
<1>2. TypeOK /\ [Next]_vars => TypeOK'
  BY NextType
<1>. QED
  BY <1>1, <1>2, PTL DEF Spec

\* The inductive invariant, from the lemmas above.
LEMMA Invariance == Spec => []IInv
<1>1. Init => IInv
  BY InitType, InitCustody DEF IInv
<1>2. IInv /\ [Next]_vars => IInv'
  BY NextType, NextCustody, NextAbsent, NextFresh, NextAttempts DEF IInv
<1>. QED
  BY <1>1, <1>2, PTL DEF Spec

\* A job id is never in two places of the pipeline (queue, poller, channel,
\* worker), whatever the number of goroutines and however they interleave.
THEOREM CustodyIsSingle == Spec => []SingleCustody
<1>1. IInv => SingleCustody
  BY DEF IInv
<1>. QED
  BY <1>1, Invariance, PTL

\* No two workers run the handler of one job at the same time.
THEOREM ExecutionIsSingle == Spec => []SingleExecution
<1>1. IInv => SingleExecution
  BY DEF IInv, TypeOK, SingleCustody, SingleExecution
<1>. QED
  BY <1>1, Invariance, PTL

\* The pipeline buries no job that was given more than one attempt.
THEOREM DeadLettersAreSingleAttempts == Spec => []NoDeadLetter
<1>1. IInv => NoDeadLetter
  BY DEF IInv, AttemptsFit, NoDeadLetter
<1>. QED
  BY <1>1, Invariance, PTL

\* A completed job is never written again.
THEOREM CompletedStays == Spec => CompletedIsFinal
<1>1. IInv /\ [Next]_vars =>
        [\A j \in Jobs : job[j].st = "completed" => job'[j] = job[j]]_vars
  <2> SUFFICES ASSUME IInv, [Next]_vars, NEW j \in Jobs, job[j].st = "completed"
               PROVE  job'[j] = job[j]
    OBVIOUS
  <2>. QED
    BY RecordSteps DEF IInv, TypeOK, Update, Claimable, NoRecord
<1>. QED
  BY <1>1, Invariance, PTL DEF Spec, CompletedIsFinal

\* The pipeline moves each job as the table of domain/job.go allows, one attempt at
\* a time: every write of a record is a transition of CanTransitionTo, or, where
\* SetFailed gives a job up, the two that lead from "processing" to "dead" at once.
THEOREM LifecycleIsImplemented == Spec => ImplementsLifecycle
<1>1. Init => Life!Init
  BY DEF Init, Life!Init, NoRecord
<1>2. IInv /\ [Next]_vars => [Life!Next]_(Life!lifeVars)
  <2> SUFFICES ASSUME IInv, [Next]_vars
               PROVE  Life!Next \/ UNCHANGED Life!lifeVars
    OBVIOUS
  <2> USE DEF IInv, TypeOK, Update
  <2>1. CASE UNCHANGED job
    BY <2>1 DEF Life!lifeVars
  <2>2. ASSUME NEW j \in Jobs, NEW m \in RetryLimits,
               job[j] = NoRecord, Update(j, Submitted(m))
        PROVE  Life!Submit(j, m)
    <3>1. job' = [job EXCEPT ![j] = Submitted(m)]
      BY <2>2
    <3>2. [k \in Jobs |-> job'[k].st] = [[k \in Jobs |-> job[k].st] EXCEPT ![j] = "pending"]
      BY <3>1 DEF Submitted
    <3>3. [k \in Jobs |-> job'[k].att] = [[k \in Jobs |-> job[k].att] EXCEPT ![j] = 1]
      BY <3>1 DEF Submitted
    <3>4. [k \in Jobs |-> job'[k].max] = [[k \in Jobs |-> job[k].max] EXCEPT ![j] = m]
      BY <3>1 DEF Submitted
    <3>5. job[j].st = "absent"
      BY <2>2 DEF NoRecord
    <3>. QED
      BY <3>2, <3>3, <3>4, <3>5 DEF Life!Submit
  <2>3. ASSUME NEW j \in Jobs, Claimable(job[j]), Update(j, Claimed(job[j]))
        PROVE  Life!Start(j)
    BY <2>3 DEF Life!Start, Life!Transition, Life!CanTransitionTo, Claimable, Claimed
  <2>4. ASSUME NEW j \in Jobs, job[j].st = "processing", Update(j, Completed(job[j]))
        PROVE  Life!Complete(j)
    BY <2>4 DEF Life!Complete, Life!Transition, Life!CanTransitionTo, Completed, JobRecord
  <2>5. ASSUME NEW j \in Jobs, job[j].st = "processing", job[j].att < job[j].max,
               Update(j, Failed(job[j]))
        PROVE  Life!Fail(j)
    BY <2>5 DEF Life!Fail, Life!AttemptFails, Life!Transition, Life!CanTransitionTo, Failed
  <2>6. ASSUME NEW j \in Jobs, job[j].st = "processing", job[j].att >= job[j].max,
               Update(j, Dead(job[j]))
        PROVE  Life!Bury(j)
    BY <2>6 DEF Life!Bury, Life!AttemptFails, Life!TwoTransitions, Life!CanTransitionTo, Dead
  <2>. QED
    BY <2>1, <2>2, <2>3, <2>4, <2>5, <2>6, RecordSteps DEF Life!Next
<1>. QED
  BY <1>1, <1>2, Invariance, PTL DEF Spec, ImplementsLifecycle, Life!Spec

\* Every claimable job is on its way to a worker and the status sets say what the
\* records say, as long as no error, crash or shutdown interrupted the round trips:
\* for any number of jobs, pollers and workers, and any interleaving of them.
THEOREM StoresAgreeAlways == Spec => []StoresAgree
<1>1. Init => StoresInv
  BY InitType, InitCustody
  DEF Init, StoresInv, IInv, WriteIsStored, IndexIsBehind, Moving, NothingLost, IndexAgrees,
      Claimable, NoRecord, InSet
<1>2. StoresInv /\ [Next]_vars => StoresInv'
  <2> SUFFICES ASSUME StoresInv, [Next]_vars PROVE StoresInv'
    OBVIOUS
  <2>1. IInv' /\ WriteIsStored'
    BY NextType, NextCustody, NextAbsent, NextFresh, NextAttempts, NextWritten
    DEF StoresInv, IInv
  <2>2. CASE jobFaults' = 0
    BY <2>1, <2>2, NextFound, NextBehind, NextIndex DEF StoresInv
  <2>3. CASE jobFaults' # 0
    BY <2>1, <2>3 DEF StoresInv, IndexIsBehind, NothingLost, IndexAgrees
  <2>. QED
    BY <2>2, <2>3
<1>3. StoresInv => StoresAgree
  BY DEF StoresInv, StoresAgree
<1>. QED
  BY <1>1, <1>2, <1>3, PTL DEF Spec
-----------------------------------------------------------------------------
(* The reaper and the requests *)

\* What Cancel, Resubmit, ResetStuckJob and time make of a record is a record.
LEMMA OverwrittenRecords ==
    ASSUME NEW r \in JobRecord
    PROVE  /\ [r EXCEPT !.st = "dead"] \in JobRecord
           /\ [r EXCEPT !.st = "pending", !.att = 0] \in JobRecord
           /\ [r EXCEPT !.st = "pending", !.att = @ + 1] \in JobRecord
           /\ [r EXCEPT !.started = "old"] \in JobRecord
<1>1. [r EXCEPT !.st = "dead"] \in JobRecord
  BY DEF JobRecord, Status
<1>2. [r EXCEPT !.st = "pending", !.att = 0] \in JobRecord
  BY DEF JobRecord, Status
<1>3. r.att + 1 \in Nat
  BY DEF JobRecord
<1>4. \A n \in Nat : [r EXCEPT !.st = "pending", !.att = n] \in JobRecord
  BY DEF JobRecord, Status
<1>5. [r EXCEPT !.started = "old"] \in JobRecord
  BY DEF JobRecord, StartedAt
<1> QED BY <1>1, <1>2, <1>3, <1>4, <1>5

\* The types of the queue hold while the others write its records, ...
LEMMA RecordWritesKeepTypes ==
    ASSUME TypeOK, UNCHANGED <<process>>, job' \in [Jobs -> JobRecord],
           idx' \in [Status -> SUBSET Jobs], queue' \in SUBSET Jobs, due' \in SUBSET queue',
           jobFaults' \in 0..MaxJobFaults
    PROVE  TypeOK'
BY DEF TypeOK, process, worker

\* ... and so do those of the others.
LEMMA RecoveryTypes ==
    ASSUME RecoveryTypeOK, RecoveryNext
    PROVE  RecoveryTypeOK'
<1>1. /\ TypeOK
      /\ job \in [Jobs -> JobRecord] /\ idx \in [Status -> SUBSET Jobs]
      /\ queue \in SUBSET Jobs /\ due \in SUBSET queue /\ jobFaults \in 0..MaxJobFaults
      /\ rpc \in {"idle", "look", "reset", "index", "enqueue"}
      /\ todo \in SUBSET Jobs
      /\ stuck \in [Jobs -> JobRecord]
      /\ rat \in Jobs \cup {None}
      /\ rat = None <=> rpc \notin {"index", "enqueue"}
      /\ cpc \in [Clients -> {"idle", "cancel", "fetch", "resubmit", "enqueue"}]
      /\ cat \in [Clients -> Jobs \cup {None}]
      /\ \A c \in Clients : cat[c] = None <=> cpc[c] = "idle"
      /\ crec \in [Clients -> JobRecord]
      /\ resets \in 0..MaxResets
      /\ requests \in 0..MaxCalls
  BY DEF RecoveryTypeOK, TypeOK
<1>2. ASSUME TypeOK', UNCHANGED recoveryVars PROVE RecoveryTypeOK'
  BY <1>1, <1>2 DEF RecoveryTypeOK, recoveryVars, reaper, clients
<1>3. CASE QueueStep
  <2>1. TypeOK'
    BY <1>1, <1>3, NextType DEF QueueStep
  <2>2. ResetRecovery \/ UNCHANGED recoveryVars
    BY <1>3 DEF QueueStep
  <2>3. CASE ResetRecovery
    BY <1>1, <2>1, <2>3, NoRecordType DEF ResetRecovery, RecoveryTypeOK
  <2> QED BY <1>2, <2>1, <2>2, <2>3
<1>4. ASSUME NEW j \in Jobs, Age(j) PROVE RecoveryTypeOK'
  <2>1. [job[j] EXCEPT !.started = "old"] \in JobRecord
    BY <1>1, OverwrittenRecords
  <2>2. job' \in [Jobs -> JobRecord]
    BY <1>1, <1>4, <2>1 DEF Age, Update
  <2> QED BY <1>1, <1>2, <1>4, <2>2, RecordWritesKeepTypes DEF Age
<1>5. CASE ReapScan
  BY <1>1, <1>5, <1>2, NoneAssumption
  DEF ReapScan, vars, TypeOK, redis, process, worker, clients, RecoveryTypeOK, Status
<1>6. ASSUME NEW j \in Jobs, ReapLook(j) PROVE RecoveryTypeOK'
  <2>1. TypeOK'
    BY <1>1, <1>6 DEF ReapLook, vars, redis, process, worker, TypeOK
  <2>2. [stuck EXCEPT ![j] = job[j]] \in [Jobs -> JobRecord]
    BY <1>1
  <2> QED BY <1>1, <1>6, <2>1, <2>2 DEF ReapLook, Looking, clients, RecoveryTypeOK
<1>7. ASSUME NEW j \in Jobs, ReapReset(j) PROVE RecoveryTypeOK'
  <2>1. [stuck[j] EXCEPT !.st = "pending", !.att = @ + 1] \in JobRecord
    BY <1>1, OverwrittenRecords
  <2>2. job' \in [Jobs -> JobRecord]
    BY <1>1, <1>7, <2>1 DEF ReapReset, Update
  <2>3. TypeOK'
    BY <1>1, <1>7, <2>2, RecordWritesKeepTypes DEF ReapReset
  <2>4. stuck' \in [Jobs -> JobRecord] /\ resets' \in 0..MaxResets
    BY <1>1, <1>7, NoRecordType, BoundsAssumption DEF ReapReset
  <2> QED
    BY <1>1, <1>7, <2>3, <2>4, NoneAssumption DEF ReapReset, clients, RecoveryTypeOK
<1>8. CASE ReapIndex
  <2>1. idx' \in [Status -> SUBSET Jobs]
    BY <1>1, <1>8, NoneAssumption DEF ReapIndex, MoveIndex
  <2>2. TypeOK'
    BY <1>1, <1>8, <2>1, RecordWritesKeepTypes DEF ReapIndex
  <2> QED BY <1>1, <1>8, <2>2 DEF ReapIndex, clients, RecoveryTypeOK
<1>9. CASE ReapEnqueue
  <2>1. queue' \in SUBSET Jobs /\ due' \in SUBSET queue'
    BY <1>1, <1>9, NoneAssumption DEF ReapEnqueue, EnqueueLater
  <2>2. TypeOK'
    BY <1>1, <1>9, <2>1, RecordWritesKeepTypes DEF ReapEnqueue
  <2> QED BY <1>1, <1>9, <2>2 DEF ReapEnqueue, NextStuck, clients, RecoveryTypeOK
<1>10. CASE ReapError
  <2>1. TypeOK'
    BY <1>1, <1>10, MaxFaultsAssumption, RecordWritesKeepTypes DEF ReapError, redis
  <2>2. /\ todo' \in SUBSET Jobs /\ stuck' \in [Jobs -> JobRecord]
        /\ rpc' \in {"idle", "look", "reset"} /\ rat' = None
        /\ UNCHANGED <<clients, resets, requests>>
    BY <1>1, <1>10, NoRecordType DEF ReapError, Looking, NextStuck
  <2> QED BY <1>1, <2>1, <2>2 DEF clients, RecoveryTypeOK
<1>11. ASSUME NEW c \in Clients, RequestStep(c) PROVE RecoveryTypeOK'
  <2>1. ASSUME NEW j \in Jobs, HandleCancel(c, j) \/ HandleResubmit(c, j)
        PROVE  RecoveryTypeOK'
    <3>1. /\ TypeOK' /\ UNCHANGED <<reaper, resets>>
      BY <1>1, <2>1
      DEF HandleCancel, HandleResubmit, StartRequest, vars, redis, process, worker, TypeOK
    <3>2. /\ cpc' \in [Clients -> {"idle", "cancel", "fetch", "resubmit", "enqueue"}]
          /\ cat' \in [Clients -> Jobs \cup {None}] /\ crec' \in [Clients -> JobRecord]
          /\ requests' \in 0..MaxCalls
          /\ \A d \in Clients : cat'[d] = None <=> cpc'[d] = "idle"
      BY <1>1, <2>1, BoundsAssumption, NoneAssumption
      DEF HandleCancel, HandleResubmit, StartRequest
    <3> QED BY <1>1, <3>1, <3>2 DEF reaper, RecoveryTypeOK
  <2>2. CASE CancelWrite(c)
    <3>1. cat[c] \in Jobs /\ [crec[c] EXCEPT !.st = "dead"] \in JobRecord
      BY <1>1, <2>2, OverwrittenRecords DEF CancelWrite
    <3>2. job' \in [Jobs -> JobRecord]
      BY <1>1, <2>2, <3>1 DEF CancelWrite, Update
    <3>3. TypeOK'
      BY <1>1, <2>2, <3>2, RecordWritesKeepTypes DEF CancelWrite
    <3> QED BY <1>1, <2>2, <3>3, NoRecordType DEF CancelWrite, reaper, RecoveryTypeOK
  <2>3. CASE CancelFetch(c)
    BY <1>1, <2>3, NoRecordType
    DEF CancelFetch, EndRequest, vars, redis, process, worker, TypeOK, reaper, RecoveryTypeOK
  <2>4. CASE ResubmitWrite(c)
    <3>1. cat[c] \in Jobs /\ [crec[c] EXCEPT !.st = "pending", !.att = 0] \in JobRecord
      BY <1>1, <2>4, OverwrittenRecords DEF ResubmitWrite
    <3>2. job' \in [Jobs -> JobRecord]
      BY <1>1, <2>4, <3>1 DEF ResubmitWrite, Update
    <3>3. TypeOK'
      BY <1>1, <2>4, <3>2, RecordWritesKeepTypes DEF ResubmitWrite
    <3> QED BY <1>1, <2>4, <3>3 DEF ResubmitWrite, reaper, RecoveryTypeOK
  <2>5. CASE ResubmitEnqueue(c)
    <3>1. queue' \in SUBSET Jobs /\ due' \in SUBSET queue'
      BY <1>1, <2>5 DEF ResubmitEnqueue, EnqueueLater
    <3>2. TypeOK'
      BY <1>1, <2>5, <3>1, RecordWritesKeepTypes DEF ResubmitEnqueue
    <3> QED
      BY <1>1, <2>5, <3>2, NoRecordType DEF ResubmitEnqueue, EndRequest, reaper, RecoveryTypeOK
  <2>6. CASE RequestError(c)
    <3>1. TypeOK'
      BY <1>1, <2>6, MaxFaultsAssumption, RecordWritesKeepTypes DEF RequestError, redis
    <3> QED
      BY <1>1, <2>6, <3>1, NoRecordType DEF RequestError, EndRequest, reaper, RecoveryTypeOK
  <2> QED BY <1>11, <2>1, <2>2, <2>3, <2>4, <2>5, <2>6 DEF RequestStep
<1> QED
  BY <1>3, <1>4, <1>5, <1>6, <1>7, <1>8, <1>9, <1>10, <1>11
  DEF RecoveryNext, ReaperNext, ReaperStep

\* A job whose record is claimable is seen as long as nobody takes it away.
LEMMA StaysSeen ==
    ASSUME NEW k \in Jobs, WillBeSeen(k), queue \subseteq queue', poll' = poll, jobCh' = jobCh,
           \A w \in Workers :
                at[w] = k /\ pc[w] \in {"got", "claim", "failed", "enqueue"}
                    => at'[w] = k /\ pc'[w] \in {"got", "claim", "failed", "enqueue"},
           \A c \in Clients : cpc[c] = "enqueue" /\ cat[c] = k
                => k \in queue' \/ (cpc'[c] = "enqueue" /\ cat'[c] = k),
           rat = k => k \in queue' \/ rat' = k
    PROVE  WillBeSeen(k)'
<1>1. CASE k \in queue
  BY <1>1 DEF WillBeSeen
<1>2. CASE InPoll(k) \/ InChan(k)
  BY <1>2 DEF WillBeSeen, InPoll, InChan
<1>3. CASE \E w \in Workers : at[w] = k /\ pc[w] \in {"got", "claim", "failed", "enqueue"}
  BY <1>3 DEF WillBeSeen
<1>4. CASE \E c \in Clients : cpc[c] = "enqueue" /\ cat[c] = k
  BY <1>4 DEF WillBeSeen
<1>5. CASE rat = k
  BY <1>5 DEF WillBeSeen
<1> QED BY <1>1, <1>2, <1>3, <1>4, <1>5 DEF WillBeSeen

\* The pipeline hands a claimable job on until a worker claims it.
LEMMA QueueStepsSee ==
    ASSUME TypeOK, NEW k \in Jobs, UNCHANGED <<cpc, cat, rat>>,
           Claimable(job[k]) => WillBeSeen(k), Claimable(job'[k]),
           \/ \E j \in Jobs, m \in RetryLimits : Submit(j, m)
           \/ \E j \in Jobs : BecomeDue(j)
           \/ \E p \in Pollers, j \in Jobs : Poll(p, j)
           \/ \E p \in Pollers : Send(p)
           \/ \E w \in Workers : WorkerRun(w)
    PROVE  WillBeSeen(k)'
<1> DEFINE Seeing == {"got", "claim", "failed", "enqueue"}
           Held(w) == at[w] = k /\ pc[w] \in Seeing
<1>1. ASSUME NEW j \in Jobs, NEW m \in RetryLimits, Submit(j, m) PROVE WillBeSeen(k)'
  <2>1. CASE k = j
    BY <1>1, <2>1 DEF Submit, WillBeSeen
  <2>2. CASE k # j
    <3>1. job'[k] = job[k]
      BY <1>1, <2>2 DEF Submit, Update, TypeOK
    <3> QED BY <1>1, <3>1, StaysSeen DEF Submit, process, worker
  <2> QED BY <2>1, <2>2
<1>2. ASSUME NEW j \in Jobs, BecomeDue(j) PROVE WillBeSeen(k)'
  BY <1>2, StaysSeen DEF BecomeDue, process, worker
<1>3. ASSUME NEW p \in Pollers, NEW j \in Jobs, Poll(p, j) PROVE WillBeSeen(k)'
  <2>1. UNCHANGED <<job, at, pc, jobCh>> /\ WillBeSeen(k)
    BY <1>3 DEF Poll, worker
  <2>2. CASE k = j
    <3>1. poll'[p] = k
      BY <1>3, <2>2 DEF Poll, TypeOK
    <3> QED BY <3>1 DEF WillBeSeen, InPoll
  <2>3. CASE k # j
    <3>1. InPoll(k) => InPoll(k)'
      <4>1. \A q \in Pollers : poll[q] = k => q # p /\ poll'[q] = k
        BY <1>3, NoneAssumption DEF Poll, TypeOK
      <4> QED BY <4>1 DEF InPoll
    <3>2. k \in queue => k \in queue'
      BY <1>3, <2>3 DEF Poll
    <3> QED BY <2>1, <3>1, <3>2 DEF WillBeSeen, InChan
  <2> QED BY <2>2, <2>3
<1>4. ASSUME NEW p \in Pollers, Send(p) PROVE WillBeSeen(k)'
  <2>1. UNCHANGED <<job, at, pc, queue>> /\ WillBeSeen(k)
    BY <1>4 DEF Send, worker, redis
  <2>2. /\ jobCh' = Append(jobCh, poll[p]) /\ Len(jobCh') = Len(jobCh) + 1
        /\ Len(jobCh) \in Nat /\ poll[p] \in Jobs
        /\ jobCh'[Len(jobCh) + 1] = poll[p]
        /\ \A i \in 1..Len(jobCh) : jobCh'[i] = jobCh[i]
    BY <1>4 DEF Send, TypeOK
  <2>3. InChan(k) => InChan(k)'
    BY <2>2 DEF InChan
  <2>4. InPoll(k) => InPoll(k)' \/ InChan(k)'
    <3>1. CASE poll[p] = k
      BY <2>2, <3>1 DEF InChan
    <3>2. CASE poll[p] # k
      <4>1. \A q \in Pollers : poll[q] = k => poll'[q] = k
        BY <1>4, <3>2 DEF Send, TypeOK
      <4> QED BY <4>1 DEF InPoll
    <3> QED BY <3>1, <3>2
  <2> QED BY <2>1, <2>3, <2>4 DEF WillBeSeen
<1>5. ASSUME NEW w \in Workers, Receive(w) PROVE WillBeSeen(k)'
  <2>1. UNCHANGED <<job, poll, queue>> /\ WillBeSeen(k)
    BY <1>5 DEF Receive, redis
  <2>2. /\ jobCh # <<>> /\ jobCh' = Tail(jobCh) /\ jobCh \in Seq(Jobs)
        /\ pc[w] = "idle" /\ at'[w] = Head(jobCh) /\ pc'[w] = "got"
        /\ \A v \in Workers \ {w} : at'[v] = at[v] /\ pc'[v] = pc[v]
    BY <1>5 DEF Receive, TypeOK
  <2>3. InChan(k) => InChan(k)' \/ (at'[w] = k /\ pc'[w] = "got")
    <3> SUFFICES ASSUME NEW i \in 1..Len(jobCh), jobCh[i] = k
                 PROVE  InChan(k)' \/ (at'[w] = k /\ pc'[w] = "got")
      BY DEF InChan
    <3>1. CASE i = 1
      BY <2>2, <3>1
    <3>2. CASE i # 1
      <4>1. i - 1 \in 1..Len(Tail(jobCh)) /\ Tail(jobCh)[i - 1] = k
        BY <2>2, <3>2
      <4> QED BY <2>2, <4>1 DEF InChan
    <3> QED BY <3>1, <3>2
  <2>4. \A v \in Workers : Held(v) => at'[v] = k /\ pc'[v] \in Seeing
    BY <2>2
  <2> QED BY <2>1, <2>3, <2>4 DEF WillBeSeen, InPoll
<1>6. ASSUME NEW w \in Workers, WorkerRun(w), ~Receive(w) PROVE WillBeSeen(k)'
  <2>1. /\ poll' = poll /\ jobCh' = jobCh /\ queue \subseteq queue'
        /\ pc[w] \in PC \ {"idle"} /\ at[w] \in Jobs
        /\ \A j \in Jobs : j # at[w] => job'[j] = job[j]
    BY <1>6
    DEF WorkerRun, TypeOK, PC, ClaimRead, ClaimWrite, ClaimIndex, HandlerOk, CompleteWrite,
        CompleteIndex, HandlerErr, RetryWrite, RetryIndex, RetryEnqueue, BuryWrite,
        BuryIndex, EnqueueLater, redis, GoIdle, MoveTo, GotoWith, Update
  <2>2. \A v \in Workers : v # w => at'[v] = at[v] /\ pc'[v] = pc[v]
    BY <1>6
    DEF WorkerRun, TypeOK, PC, ClaimRead, ClaimWrite, ClaimIndex, HandlerOk, CompleteWrite,
        CompleteIndex, HandlerErr, RetryWrite, RetryIndex, RetryEnqueue, BuryWrite,
        BuryIndex, GoIdle, MoveTo, GotoWith
  <2>3. CASE k # at[w]
    <3>1. \A v \in Workers : Held(v) => at'[v] = k /\ pc'[v] \in Seeing
      BY <2>2, <2>3
    <3>2. WillBeSeen(k)
      BY <2>1, <2>3
    <3> QED BY <2>1, <3>1, <3>2, StaysSeen
  <2>4. CASE k = at[w]
    <3>1. CASE ClaimRead(w)
      BY <2>4, <3>1 DEF ClaimRead, GotoWith, redis, WillBeSeen, TypeOK
    <3>2. CASE ClaimWrite(w) \/ CompleteWrite(w) \/ BuryWrite(w)
      <4>1. ~Claimable(job'[k])
        BY <2>4, <3>2
        DEF ClaimWrite, CompleteWrite, BuryWrite, Update, TypeOK, Claimable, Claimed, Completed,
            Dead, JobRecord
      <4> QED BY <4>1
    <3>3. CASE RetryWrite(w) \/ RetryIndex(w)
      <4>1. at'[w] = k /\ pc'[w] \in Seeing
        BY <2>1, <2>4, <3>3 DEF RetryWrite, RetryIndex, MoveTo, TypeOK
      <4> QED BY <4>1 DEF WillBeSeen
    <3>4. CASE RetryEnqueue(w)
      BY <2>4, <3>4 DEF RetryEnqueue, EnqueueLater, WillBeSeen
    <3>5. CASE \/ ClaimIndex(w) \/ HandlerOk(w) \/ CompleteIndex(w) \/ HandlerErr(w)
               \/ BuryIndex(w)
      <4>1. job' = job /\ pc[w] \notin Seeing
        BY <3>5 DEF ClaimIndex, HandlerOk, CompleteIndex, HandlerErr, BuryIndex, redis
      <4>2. WillBeSeen(k)
        BY <4>1
      <4>3. \A v \in Workers : Held(v) => at'[v] = k /\ pc'[v] \in Seeing
        BY <2>2, <4>1
      <4> QED BY <2>1, <4>2, <4>3, StaysSeen
    <3> QED BY <1>6, <3>1, <3>2, <3>3, <3>4, <3>5 DEF WorkerRun
  <2> QED BY <2>3, <2>4
<1> QED BY <1>1, <1>2, <1>3, <1>4, <1>5, <1>6

\* So do the reaper and the requests: whoever makes a record claimable queues it next.
LEMMA OverwritesSee ==
    ASSUME RecoveryTypeOK, NEW k \in Jobs, jobFaults' = 0,
           Claimable(job[k]) => WillBeSeen(k), Claimable(job'[k]),
           \/ \E j \in Jobs : Age(j)
           \/ ReaperStep
           \/ ReapError
           \/ \E c \in Clients : RequestStep(c)
    PROVE  WillBeSeen(k)'
<1>1. /\ job \in [Jobs -> JobRecord] /\ jobFaults \in Nat /\ jobFaults + 1 # 0
      /\ rat = None <=> rpc \notin {"index", "enqueue"}
      /\ cpc \in [Clients -> {"idle", "cancel", "fetch", "resubmit", "enqueue"}]
      /\ \A c \in Clients : cat[c] = None <=> cpc[c] = "idle"
      /\ cat \in [Clients -> Jobs \cup {None}]
  BY MaxFaultsAssumption DEF RecoveryTypeOK, TypeOK
<1>2. ASSUME NEW j \in Jobs, Age(j) PROVE WillBeSeen(k)'
  <2>1. Claimable(job[k])
    BY <1>1, <1>2 DEF Age, Update, Claimable, JobRecord
  <2> QED BY <1>2, <2>1, StaysSeen DEF Age, process, worker, recoveryVars, reaper, clients
<1>3. CASE ReapScan \/ \E j \in Jobs : ReapLook(j)
  <2>1. UNCHANGED <<vars, rat, clients>>
    BY <1>3 DEF ReapScan, ReapLook
  <2> QED BY <2>1, StaysSeen DEF vars, redis, process, worker, clients
<1>4. ASSUME NEW j \in Jobs, ReapReset(j) PROVE WillBeSeen(k)'
  <2>1. CASE k = j
    BY <1>4, <2>1 DEF ReapReset, WillBeSeen
  <2>2. CASE k # j
    <3>1. job'[k] = job[k] /\ rat # k
      BY <1>1, <1>4, <2>2, NoneAssumption DEF ReapReset, Update
    <3> QED BY <1>4, <3>1, StaysSeen DEF ReapReset, process, worker, clients
  <2> QED BY <2>1, <2>2
<1>5. CASE ReapIndex
  BY <1>5, StaysSeen DEF ReapIndex, process, worker, clients
<1>6. CASE ReapEnqueue
  BY <1>6, StaysSeen
  DEF ReapEnqueue, EnqueueLater, NextStuck, process, worker, clients
<1>7. CASE ReapError
  BY <1>1, <1>7 DEF ReapError
<1>8. ASSUME NEW c \in Clients, RequestStep(c) PROVE WillBeSeen(k)'
  <2>1. ASSUME NEW j \in Jobs, HandleCancel(c, j) \/ HandleResubmit(c, j)
        PROVE  WillBeSeen(k)'
    <3>1. /\ UNCHANGED <<vars, reaper>> /\ cpc[c] = "idle"
          /\ \A d \in Clients \ {c} : cpc'[d] = cpc[d] /\ cat'[d] = cat[d]
      BY <1>1, <2>1 DEF HandleCancel, HandleResubmit, StartRequest
    <3> QED BY <3>1, StaysSeen DEF vars, redis, process, worker, reaper
  <2>2. CASE CancelWrite(c)
    <3>1. /\ UNCHANGED <<process, queue, reaper, cat>> /\ cpc[c] = "cancel"
          /\ \A d \in Clients \ {c} : cpc'[d] = cpc[d]
      BY <1>1, <2>2 DEF CancelWrite
    <3>2. job'[k] = job[k]
      BY <1>1, <2>2 DEF CancelWrite, Update, Claimable
    <3> QED BY <3>1, <3>2, StaysSeen DEF process, worker, reaper
  <2>3. CASE CancelFetch(c)
    <3>1. /\ UNCHANGED <<vars, reaper>> /\ cpc[c] = "fetch"
          /\ \A d \in Clients \ {c} : cpc'[d] = cpc[d] /\ cat'[d] = cat[d]
      BY <1>1, <2>3 DEF CancelFetch, EndRequest
    <3> QED BY <3>1, StaysSeen DEF vars, redis, process, worker, reaper
  <2>4. CASE ResubmitWrite(c)
    <3>1. /\ UNCHANGED <<process, queue, reaper, cat>> /\ cpc[c] = "resubmit"
          /\ cpc'[c] = "enqueue" /\ \A d \in Clients \ {c} : cpc'[d] = cpc[d]
      BY <1>1, <2>4 DEF ResubmitWrite
    <3>2. CASE k = cat[c]
      BY <3>1, <3>2 DEF WillBeSeen
    <3>3. CASE k # cat[c]
      <4>1. job'[k] = job[k]
        BY <1>1, <2>4, <3>3 DEF ResubmitWrite, Update
      <4> QED BY <3>1, <4>1, StaysSeen DEF process, worker, reaper
    <3> QED BY <3>2, <3>3
  <2>5. CASE ResubmitEnqueue(c)
    <3>1. /\ UNCHANGED <<job, process, reaper>> /\ queue' = queue \cup {cat[c]}
          /\ \A d \in Clients \ {c} : cpc'[d] = cpc[d] /\ cat'[d] = cat[d]
      BY <1>1, <2>5 DEF ResubmitEnqueue, EnqueueLater, EndRequest
    <3> QED BY <3>1, StaysSeen DEF process, worker, reaper
  <2>6. CASE RequestError(c)
    BY <1>1, <2>6 DEF RequestError
  <2> QED BY <1>8, <2>1, <2>2, <2>3, <2>4, <2>5, <2>6 DEF RequestStep
<1> QED BY <1>2, <1>3, <1>4, <1>5, <1>6, <1>7, <1>8 DEF ReaperStep

\* Until a fault happens the pipeline takes no step that ends a process or a goroutine.
LEMMA UndisturbedSteps ==
    ASSUME TypeOK, Undisturbed, Next, jobFaults' = 0
    PROVE  /\ jobFaults = 0 /\ phase' = "up" /\ returned' = {} /\ phase' = phase
           /\ \/ \E j \in Jobs, m \in RetryLimits : Submit(j, m)
              \/ \E j \in Jobs : BecomeDue(j)
              \/ \E p \in Pollers, j \in Jobs : Poll(p, j)
              \/ \E p \in Pollers : Send(p)
              \/ \E w \in Workers : WorkerRun(w)
<1>1. jobFaults \in Nat /\ jobFaults + 1 # 0
  BY MaxFaultsAssumption DEF TypeOK
<1>2. ASSUME NEW w \in Workers, WorkerRun(w) PROVE UNCHANGED <<phase, returned, jobFaults>>
  BY <1>2
  DEF WorkerRun, Receive, ClaimRead, ClaimWrite, ClaimIndex, HandlerOk, CompleteWrite,
      CompleteIndex, HandlerErr, RetryWrite, RetryIndex, RetryEnqueue, BuryWrite, BuryIndex
<1>3. ASSUME \/ \E j \in Jobs, m \in RetryLimits : Submit(j, m)
             \/ \E j \in Jobs : BecomeDue(j)
             \/ \E p \in Pollers, j \in Jobs : Poll(p, j)
             \/ \E p \in Pollers : Send(p)
      PROVE  UNCHANGED <<phase, returned, jobFaults>>
  BY <1>3 DEF Submit, BecomeDue, Poll, Send, process
<1>4. ASSUME NEW p \in Pollers, PollError(p) \/ PollerReturn(p) \/ SendOnClosed(p) PROVE FALSE
  BY <1>1, <1>4 DEF PollError, PollerReturn, SendOnClosed, Undisturbed
<1>5. ASSUME NEW w \in Workers, RedisError(w) \/ WorkerReturn(w) PROVE FALSE
  BY <1>1, <1>5 DEF RedisError, WorkerReturn, Undisturbed
<1>6. ASSUME ProcessStep PROVE FALSE
  BY <1>1, <1>6 DEF ProcessStep, Stop, CloseJobCh, CloseDone, Crash, Restart, Undisturbed
<1>7. \/ \E j \in Jobs, m \in RetryLimits : Submit(j, m)
      \/ \E j \in Jobs : BecomeDue(j)
      \/ \E p \in Pollers, j \in Jobs : Poll(p, j)
      \/ \E p \in Pollers : Send(p)
      \/ \E w \in Workers : WorkerRun(w)
  BY <1>4, <1>5, <1>6 DEF Next, JobStep, PollerStep, WorkerStep
<1> QED BY <1>2, <1>3, <1>7 DEF Undisturbed

\* Whatever requests, slow workers and the reaper overwrite, a job that may be claimed
\* is on its way to a worker until a fault happens, and no stranger is shown a job: for
\* any number of jobs, workers and requests (job_reaper.go, job.go, job_worker.go).
THEOREM ClaimableJobsAlwaysTravel == RecoverySpec => []ClaimableJobsTravel
<1>1. RecoveryInit => RecoveryInv
  <2> SUFFICES ASSUME RecoveryInit PROVE RecoveryInv
    OBVIOUS
  <2>1. TypeOK
    BY InitType DEF RecoveryInit
  <2>2. RecoveryTypeOK
    BY <2>1, NoRecordType, BoundsAssumption DEF RecoveryInit, RecoveryTypeOK
  <2>3. Undisturbed /\ StrangersAskInVain
    BY StrangersAssumption DEF RecoveryInit, Init, Undisturbed, StrangersAskInVain
  <2>4. \A j \in Jobs : ~Claimable(job[j])
    BY DEF RecoveryInit, Init, Claimable, NoRecord
  <2> QED BY <2>2, <2>3, <2>4 DEF RecoveryInv
<1>2. RecoveryInv /\ [RecoveryNext]_allVars => RecoveryInv'
  <2>1. ASSUME RecoveryInv, RecoveryNext PROVE RecoveryInv'
    <3>1. /\ RecoveryTypeOK /\ TypeOK /\ Undisturbed /\ StrangersAskInVain
          /\ jobFaults = 0 => \A j \in Jobs : Claimable(job[j]) => WillBeSeen(j)
      BY <2>1 DEF RecoveryInv, RecoveryTypeOK
    <3>2. RecoveryTypeOK'
      BY <2>1, <3>1, RecoveryTypes
    <3>3. StrangersAskInVain'
      <4>1. ASSUME NEW c \in Clients, RequestStep(c) PROVE StrangersAskInVain'
        BY <3>1, <4>1, StrangersAssumption
        DEF RequestStep, HandleCancel, HandleResubmit, StartRequest, CancelWrite, CancelFetch,
            ResubmitWrite, ResubmitEnqueue, RequestError, EndRequest, Cancel, Resubmit, Owns,
            StrangersAskInVain, RecoveryTypeOK
      <4>2. CASE QueueStep
        BY <3>1, <4>2, StrangersAssumption
        DEF QueueStep, ResetRecovery, recoveryVars, clients, StrangersAskInVain
      <4>3. CASE ReaperStep \/ ReapError \/ \E j \in Jobs : Age(j)
        <5>1. UNCHANGED cpc
          BY <4>3
          DEF ReaperStep, ReapScan, ReapLook, ReapReset, ReapIndex, ReapEnqueue, ReapError,
              NextStuck, Age, recoveryVars, clients
        <5> QED BY <3>1, <5>1 DEF StrangersAskInVain
      <4> QED BY <2>1, <4>1, <4>2, <4>3 DEF RecoveryNext, ReaperNext
    <3>4. CASE jobFaults' # 0
      BY <3>2, <3>3, <3>4 DEF RecoveryInv, Undisturbed
    <3>5. CASE jobFaults' = 0
      <4>1. CASE QueueStep
        <5>1. UNCHANGED <<cpc, cat, rat>>
          BY <3>1, <3>5, <4>1, UndisturbedSteps
          DEF QueueStep, recoveryVars, reaper, clients
        <5>2. ASSUME NEW k \in Jobs, Claimable(job'[k]) PROVE WillBeSeen(k)'
          BY <3>1, <3>5, <4>1, <5>1, <5>2, UndisturbedSteps, QueueStepsSee DEF QueueStep
        <5>3. Undisturbed'
          BY <3>1, <3>5, <4>1, UndisturbedSteps DEF QueueStep, Undisturbed
        <5> QED BY <3>2, <3>3, <5>2, <5>3 DEF RecoveryInv
      <4>2. CASE (\E j \in Jobs : Age(j)) \/ ReaperStep \/ ReapError
                 \/ (\E c \in Clients : RequestStep(c))
        <5>1. /\ UNCHANGED <<phase, returned>>
              /\ jobFaults' = jobFaults \/ jobFaults' = jobFaults + 1
          BY <4>2
          DEF ReaperStep, ReapScan, ReapLook, ReapReset, ReapIndex, ReapEnqueue, ReapError, Age,
              RequestStep, HandleCancel, HandleResubmit, StartRequest, CancelWrite, CancelFetch,
              ResubmitWrite, ResubmitEnqueue, RequestError, vars, process
        <5>2. jobFaults = 0
          BY <3>1, <3>5, <5>1, MaxFaultsAssumption DEF TypeOK
        <5>3. ASSUME NEW k \in Jobs, Claimable(job'[k]) PROVE WillBeSeen(k)'
          BY <3>1, <3>5, <4>2, <5>2, <5>3, OverwritesSee
        <5>4. Undisturbed'
          BY <3>1, <5>1, <5>2 DEF Undisturbed
        <5> QED BY <3>2, <3>3, <5>3, <5>4 DEF RecoveryInv
      <4> QED BY <2>1, <4>1, <4>2 DEF RecoveryNext, ReaperNext
    <3> QED BY <3>4, <3>5
  <2>2. ASSUME RecoveryInv, UNCHANGED allVars PROVE RecoveryInv'
    BY <2>2
    DEF RecoveryInv, RecoveryTypeOK, TypeOK, Undisturbed, StrangersAskInVain, WillBeSeen, InPoll,
        InChan, allVars, recoveryVars, reaper, clients, vars, redis, process, worker
  <2> QED BY <2>1, <2>2
<1>3. RecoveryInv => ClaimableJobsTravel
  <2> SUFFICES ASSUME RecoveryInv PROVE ClaimableJobsTravel
    OBVIOUS
  <2>1. RecoveryTypeOK /\ StrangersAskInVain /\ job \in [Jobs -> JobRecord]
    BY DEF RecoveryInv, RecoveryTypeOK, TypeOK
  <2>2. JobsAreShownToTheirOwner
    <3>1. \A j \in Jobs : job[j].st \in Status
      BY <2>1 DEF JobRecord
    <3>2. \A j \in Jobs : Claimable(job[j]) =>
            job[j] # NoRecord /\ job[j].st \in {"pending", "failed"}
      BY DEF Claimable, NoRecord
    <3> QED
      BY <2>1, <3>1, <3>2
      DEF JobsAreShownToTheirOwner, StrangersAskInVain, HandleGetByID, HandleList,
          ListJobsByUser, Owns
  <2>3. \A j \in Jobs : WillBeSeen(j) =>
            \/ j \in queue \/ InPoll(j) \/ InChan(j) \/ AtWorker(j)
            \/ \E c \in Clients : cpc[c] = "enqueue" /\ cat[c] = j
            \/ rat = j
    BY DEF WillBeSeen, AtWorker
  <2> QED BY <2>1, <2>2, <2>3 DEF RecoveryInv, ClaimableJobsTravel
<1> QED BY <1>1, <1>2, <1>3, PTL DEF RecoverySpec
=============================================================================
