------------------------------ MODULE Idempotency ------------------------------
(***************************************************************************)
(* Idempotency keys: internal/http/middleware/idempotency.go with its      *)
(* service, handler and repository.                                        *)
(*                                                                         *)
(* The operations are the paths to which one user sends one method with    *)
(* one and the same key.  A request takes a lock in Redis with SETNX, runs *)
(* the handler, and a goroutine stores the response after it was sent: the *)
(* lock as completed, the response in Redis, a row in PostgreSQL.  A later *)
(* request finds the lock completed and gets the stored response again.    *)
(* The lock lives for the guard time, longer or shorter than the handler;  *)
(* an error of Redis lets the request pass.                                *)
(*                                                                         *)
(* The goroutine reads the path out of the echo context (line 236), which  *)
(* went back to its pool with the response: by then it may be the path of  *)
(* a request that has taken the context over.                              *)
(***************************************************************************)
EXTENDS Requests

CONSTANTS
    Ops,            \* the operations that share the key
    MaxLapses       \* bound on the locks that expire

ASSUME LapsesAssumption == MaxLapses \in Nat

VARIABLES
    lock,       \* Redis: the lock of each operation
    record,     \* Redis: its stored response
    row,        \* PostgreSQL: its active row
    executions, \* history: how often the handler ran
    lapses,     \* history: locks that expired
    replays     \* history: responses given again

idempotencyVars == <<lock, record, row, executions, lapses, replays>>

\* What the handler answered and what of it was captured: all of it; a body
\* beyond max_cached_response_size; or the status 200 and nothing, when the
\* body was beyond that by 1 KB, or the handler returned an error, which is
\* written only after the middleware.
Captures == {"whole", "long", "nothing"}
Response == [of : Ops, number : 1..MaxRequests, captured : Captures]
Nothing == [captured |-> "none"]
Body(resp) == resp.captured = "whole"

NoRow == [status |-> "none"]
Row == [status : {"processing", "completed"}, response : Response]

KeyedRequest ==
    [pc : {"getlock", "getrecord", "findrow", "setnx", "execute"}, op : Ops]
    \cup [pc : {"storelock", "storerecord", "createrow", "updaterow"}, op : Ops,
          path : Ops, response : Response]

IdempotencyTypeOK ==
    /\ lock \in [Ops -> {"free", "processing", "completed"}]
    /\ record \in [Ops -> Response \cup {Nothing}]
    /\ row \in [Ops -> Row \cup {NoRow}]
    /\ executions \in [Ops -> 0..MaxRequests]
    /\ lapses \in [Ops -> 0..MaxLapses]
    /\ replays \subseteq [asked : Ops, given : Response]
    /\ RequestsAre(KeyedRequest)

IdempotencyInit ==
    /\ lock = [o \in Ops |-> "free"]
    /\ record = [o \in Ops |-> Nothing]
    /\ row = [o \in Ops |-> NoRow]
    /\ executions = [o \in Ops |-> 0]
    /\ lapses = [o \in Ops |-> 0]
    /\ replays = {}

-----------------------------------------------------------------------------
(* A request with a key *)

\* Only POST, PUT and PATCH of a known user with a key that matches the
\* pattern; any other request passes through.
HandleKeyed(r, o) ==
    /\ Begin(r, [pc |-> "getlock", op |-> o])
    /\ UNCHANGED idempotencyVars

GetLock(r) ==
    LET found == lock[req[r].op]
    IN  /\ At(r, "getlock")
        /\ \/ found = "processing" /\ Finish(r)
           \/ found = "completed" /\ Goto(r, "getrecord")
           \/ found = "free" /\ Goto(r, "setnx")
        /\ UNCHANGED idempotencyVars

Replay(r, resp) ==
    /\ replays' = replays \cup {[asked |-> req[r].op, given |-> resp]}
    /\ Finish(r)
    /\ UNCHANGED <<lock, record, row, executions, lapses>>

ReplayFromRedis(r) ==
    LET found == record[req[r].op]
    IN  /\ At(r, "getrecord")
        /\ IF found # Nothing THEN Replay(r, found)
           ELSE Goto(r, "findrow") /\ UNCHANGED idempotencyVars

\* Not found, or still processing: 409.
ReplayFromDB(r) ==
    LET found == row[req[r].op]
    IN  /\ At(r, "findrow")
        /\ IF found.status = "completed" THEN Replay(r, found.response)
           ELSE Finish(r) /\ UNCHANGED idempotencyVars

\* Mutant of Acquired: SET instead of SETNX.
AcquiredAlways(o) == TRUE

Acquired(o) == lock[o] = "free"

SetNX(r) ==
    LET o == req[r].op
    IN  /\ At(r, "setnx")
        /\ IF Acquired(o)
           THEN /\ lock' = [lock EXCEPT ![o] = "processing"]
                /\ Goto(r, "execute")
           ELSE Finish(r) /\ UNCHANGED lock
        /\ UNCHANGED <<record, row, executions, lapses, replays>>

\* Redis fails at one of the three commands: on, without a record or a lock.
RedisFails(r) ==
    /\ \/ At(r, "getlock") /\ Stumble(r, [req[r] EXCEPT !.pc = "setnx"])
       \/ At(r, "getrecord") /\ Stumble(r, [req[r] EXCEPT !.pc = "findrow"])
       \/ At(r, "setnx") /\ Stumble(r, [req[r] EXCEPT !.pc = "execute"])
    /\ UNCHANGED idempotencyVars

Execute(r) ==
    LET o == req[r].op
        nth == executions[o] + 1
    IN  /\ At(r, "execute")
        /\ executions' = [executions EXCEPT ![o] = nth]
        /\ \E c \in Captures :
            Become(r, [pc |-> "storelock", op |-> o, path |-> o,
                       response |-> [of |-> o, number |-> nth, captured |-> c]])
        /\ UNCHANGED <<lock, record, row, lapses, replays>>

-----------------------------------------------------------------------------
(* The goroutine that stores the response *)

Storing == {"storelock", "storerecord", "createrow", "updaterow"}

\* Whose path the goroutine finds in the context.
PathRead(r) ==
    {req[r].op} \cup {req[s].op : s \in {t \in Others(r) : req[t].pc \notin Storing \cup {"idle"}}}

\* The arguments of storeResult, and its first command.
StoreLock(r) ==
    /\ At(r, "storelock")
    /\ lock' = [lock EXCEPT ![req[r].op] = "completed"]
    /\ \E p \in PathRead(r) : Become(r, [req[r] EXCEPT !.pc = "storerecord", !.path = p])
    /\ UNCHANGED <<record, row, executions, lapses, replays>>

\* A body that is too long is not stored in Redis.
StoreRecord(r) ==
    LET resp == req[r].response
    IN  /\ At(r, "storerecord")
        /\ record' = IF resp.captured = "long" THEN record
                     ELSE [record EXCEPT ![req[r].op] = resp]
        /\ Goto(r, "createrow")
        /\ UNCHANGED <<lock, row, executions, lapses, replays>>

\* Either SET fails and the goroutine goes on.
StoreFails(r) ==
    /\ \/ /\ At(r, "storelock")
          /\ \E p \in PathRead(r) : Stumble(r, [req[r] EXCEPT !.pc = "storerecord", !.path = p])
       \/ At(r, "storerecord") /\ Stumble(r, [req[r] EXCEPT !.pc = "createrow"])
    /\ UNCHANGED idempotencyVars

\* The index admits one active row of a user, a key, a method and a path.
CreateRow(r) ==
    LET q == req[r]
    IN  /\ At(r, "createrow")
        /\ IF row[q.path] = NoRow
           THEN /\ row' = [row EXCEPT ![q.path] =
                              [status |-> "processing", response |-> q.response]]
                /\ Goto(r, "updaterow")
           ELSE Finish(r) /\ UNCHANGED row
        /\ UNCHANGED <<lock, record, executions, lapses, replays>>

\* By the id of the row just created; too long a body becomes empty.
UpdateRow(r) ==
    LET q == req[r]
    IN  /\ At(r, "updaterow")
        /\ row' = IF row[q.path].status # "none" /\ row[q.path].response = q.response
                  THEN [row EXCEPT ![q.path].status = "completed"]
                  ELSE row
        /\ Finish(r)
        /\ UNCHANGED <<lock, record, executions, lapses, replays>>

-----------------------------------------------------------------------------
(* Time, the reaper and the owner *)

\* The guard time of a lock has passed since it was last set.
LockLapses(o) ==
    /\ lock[o] # "free"
    /\ lapses[o] < MaxLapses
    /\ lock' = [lock EXCEPT ![o] = "free"]
    /\ lapses' = [lapses EXCEPT ![o] = @ + 1]
    /\ UNCHANGED <<record, row, executions, replays, requestVars>>

\* Redis evicts a response, or its time to live has passed.
RecordLapses(o) ==
    /\ record[o] # Nothing
    /\ record' = [record EXCEPT ![o] = Nothing]
    /\ UNCHANGED <<lock, row, executions, lapses, replays, requestVars>>

\* The reaper or an administrator's clean-up, past expiry and retention.
CleanupRow(o) ==
    /\ row[o] # NoRow
    /\ row' = [row EXCEPT ![o] = NoRow]
    /\ UNCHANGED <<lock, record, executions, lapses, replays, requestVars>>

\* The owner of a row, or a member of its organization, deletes it, whatever
\* its status.
DeleteRecord(o) ==
    /\ row[o] # NoRow
    /\ row' = [row EXCEPT ![o] = NoRow]
    /\ UNCHANGED <<lock, record, executions, lapses, replays, requestVars>>

-----------------------------------------------------------------------------

IdempotencyNext ==
    \/ \E r \in Slots :
        \/ \E o \in Ops : HandleKeyed(r, o)
        \/ GetLock(r) \/ ReplayFromRedis(r) \/ ReplayFromDB(r) \/ SetNX(r) \/ RedisFails(r)
        \/ Execute(r)
        \/ StoreLock(r) \/ StoreRecord(r) \/ StoreFails(r) \/ CreateRow(r) \/ UpdateRow(r)
        \/ Abort(r) /\ UNCHANGED idempotencyVars
    \/ \E o \in Ops : LockLapses(o) \/ RecordLapses(o) \/ CleanupRow(o) \/ DeleteRecord(o)

-----------------------------------------------------------------------------
(* Properties *)

\* An operation is executed a second time only because a lock of its own
\* expired or a command failed: however requests with one key are
\* interleaved with each other and with the goroutines that store, the
\* handler runs once per lock.
ExecutionsAccounted == \A o \in Ops : executions[o] <= 1 + lapses[o] + faults

\* Why: a lock that is free may be taken once more, and whoever is about to execute
\* has taken one or met a failure; and an execution is one of the requests begun.
Coming(o) ==
    {r \in Slots : req[r].pc \in {"getlock", "getrecord", "findrow", "setnx", "execute"}
                    /\ req[r].op = o}
Executing(o) == {r \in Slots : At(r, "execute") /\ req[r].op = o}

LockIsTakenOnce(o) ==
    /\ IsFiniteSet(Coming(o)) /\ executions[o] + Cardinality(Coming(o)) <= begun
    /\ executions[o] + Cardinality(Executing(o)) + (IF lock[o] = "free" THEN 1 ELSE 0)
        <= 1 + lapses[o] + faults

IdempotencyInv == IdempotencyTypeOK /\ \A o \in Ops : LockIsTakenOnce(o)

\* specs/019-idempotency-keys/spec.md:78: a replayed response, with a body
\* that was stored, is one of the operation that was asked for.
ReplayIsFaithful == \A p \in replays : Body(p.given) => p.given.of = p.asked

IdempotencySpec ==
    IdempotencyInit /\ RequestsInit /\ [][IdempotencyNext]_<<idempotencyVars, requestVars>>

=============================================================================
