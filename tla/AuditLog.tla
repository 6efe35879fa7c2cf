-------------------------------- MODULE AuditLog --------------------------------
(***************************************************************************)
(* The audit log: internal/service/audit.go and the middleware that feeds  *)
(* it (internal/http/middleware/audit.go).                                 *)
(*                                                                         *)
(* After a writing request the middleware starts a goroutine that puts an  *)
(* entry into a bounded channel, or drops it when the channel is full.     *)
(* One worker takes the entries out and inserts them.  Shutdown closes a   *)
(* channel and returns; the worker empties the buffer and ends.  Entries   *)
(* are numbered in the order of the requests.                              *)
(***************************************************************************)
EXTENDS Naturals, Sequences, FiniteSets, SequencesExt

CONSTANTS
    BufferSize,
    MaxEntries,         \* bound on the requests
    MaxInsertFaults     \* bound on the inserts that fail

ASSUME AuditAssumption == {BufferSize, MaxEntries, MaxInsertFaults} \subseteq Nat

VARIABLES
    answered,   \* requests answered so far
    spawned,    \* entries whose goroutine has not run yet
    logChan,    \* the channel
    accepted,   \* history: the entries in the order they entered it
    inserted,   \* the table
    failed,     \* history: entries whose insert failed
    late,       \* history: entries accepted once the service was closed
    done,       \* Shutdown was called
    worker      \* "running", "draining" or "ended"

auditVars == <<answered, spawned, logChan, accepted, inserted, failed, late, done, worker>>

Entries == 1..MaxEntries

AuditTypeOK ==
    /\ answered \in 0..MaxEntries
    /\ spawned \subseteq Entries
    /\ logChan \in Seq(Entries) /\ Len(logChan) <= BufferSize
    /\ accepted \in Seq(Entries) /\ inserted \in Seq(Entries)
    /\ failed \subseteq Entries /\ late \subseteq Entries
    /\ done \in BOOLEAN
    /\ worker \in {"running", "draining", "ended"}

AuditInit ==
    /\ answered = 0
    /\ spawned = {}
    /\ logChan = <<>> /\ accepted = <<>> /\ inserted = <<>>
    /\ failed = {} /\ late = {}
    /\ done = FALSE
    /\ worker = "running"

-----------------------------------------------------------------------------

\* A POST, PUT, PATCH or DELETE that is not skipped has been handled; the
\* entry holds what was asked and answered.
Audit ==
    /\ answered < MaxEntries
    /\ answered' = answered + 1
    /\ spawned' = spawned \cup {answered + 1}
    /\ UNCHANGED <<logChan, accepted, inserted, failed, late, done, worker>>

\* The send of the select, or its default.
LogAction(e) ==
    /\ e \in spawned
    /\ spawned' = spawned \ {e}
    /\ IF Len(logChan) < BufferSize
       THEN /\ logChan' = Append(logChan, e)
            /\ accepted' = Append(accepted, e)
            /\ late' = IF done THEN late \cup {e} ELSE late
       ELSE UNCHANGED <<logChan, accepted, late>>
    /\ UNCHANGED <<answered, inserted, failed, done, worker>>

\* An insert, of which an error is only logged.
Insert ==
    \/ inserted' = Append(inserted, Head(logChan)) /\ UNCHANGED failed
    \/ /\ Cardinality(failed) < MaxInsertFaults
       /\ failed' = failed \cup {Head(logChan)}
       /\ UNCHANGED inserted

\* The first case of the select, taken whenever there is an entry, or the
\* loop of the second.
ProcessLog ==
    /\ worker \in {"running", "draining"}
    /\ logChan # <<>>
    /\ logChan' = Tail(logChan)
    /\ Insert
    /\ UNCHANGED <<answered, spawned, accepted, late, done, worker>>

\* The second case.
Drain ==
    /\ worker = "running"
    /\ done
    /\ worker' = "draining"
    /\ UNCHANGED <<answered, spawned, logChan, accepted, inserted, failed, late, done>>

\* Mutant of Drained: return at once.
DrainedAtOnce == TRUE

Drained == logChan = <<>>

EndWorker ==
    /\ worker = "draining"
    /\ Drained
    /\ worker' = "ended"
    /\ UNCHANGED <<answered, spawned, logChan, accepted, inserted, failed, late, done>>

Shutdown ==
    /\ ~done
    /\ done' = TRUE
    /\ UNCHANGED <<answered, spawned, logChan, accepted, inserted, failed, late, worker>>

AuditNext ==
    \/ Audit \/ ProcessLog \/ Drain \/ EndWorker \/ Shutdown
    \/ \E e \in Entries : LogAction(e)

AuditSpec == AuditInit /\ [][AuditNext]_auditVars

-----------------------------------------------------------------------------
(* Properties *)

\* How far the worker has come.
Taken == Len(accepted) - Len(logChan)

\* Each row is an entry taken, the rows are in the order of the entries, and an entry
\* taken has a row unless its insert failed.
RowsAreAt(place) ==
    /\ \A i \in DOMAIN inserted : inserted[i] = accepted[place[i]]
    /\ \A i, j \in DOMAIN inserted : i < j => place[i] < place[j]
    /\ \A k \in 1..Taken : accepted[k] \in failed <=> \A i \in DOMAIN inserted : place[i] # k

\* What the table holds, and the rows whose insert failed, are the entries
\* in the order in which the channel accepted them, as far as the worker has
\* come, and the channel holds the others; what the ended worker leaves behind
\* was accepted after Shutdown.
AcceptedIsWritten ==
    /\ Len(logChan) <= Len(accepted)
    /\ \A i \in DOMAIN logChan : logChan[i] = accepted[Taken + i]
    /\ \E place \in [DOMAIN inserted -> 1..Taken] : RowsAreAt(place)
    /\ worker = "ended" => ToSet(logChan) \subseteq late

-----------------------------------------------------------------------------
(* The inductive invariant *)

\* An entry is one request's, and its goroutine sends it once.
EntriesAreSentOnce ==
    /\ spawned \subseteq 1..answered
    /\ ToSet(accepted) \subseteq (1..answered) \ spawned
    /\ \A k, l \in DOMAIN accepted : accepted[k] = accepted[l] => k = l

\* An insert that failed was of an entry the worker took.
FailedWereTaken == \A e \in failed : \E k \in 1..Taken : accepted[k] = e

\* The worker does not end before Shutdown.
EndsWhenDone == worker # "running" => done

AuditInv ==
    /\ AuditTypeOK
    /\ EntriesAreSentOnce
    /\ FailedWereTaken
    /\ AcceptedIsWritten
    /\ EndsWhenDone

=============================================================================
