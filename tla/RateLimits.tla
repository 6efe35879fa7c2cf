------------------------------ MODULE RateLimits ------------------------------
(***************************************************************************)
(* The rate limiters, for one client.                                      *)
(*                                                                         *)
(* The limiters of the API (internal/http/middleware/rate_limit.go) and of *)
(* the log-in pages (auth_rate_limit.go) keep a number in Redis: GET, then *)
(* SET with the time to live of a whole window.  Those of the webhooks and *)
(* of export and import (internal/service/webhook_rate_limiter.go,         *)
(* data_portability_rate_limiter.go) keep one entry per request that was   *)
(* let through: ZCARD, then ZADD.  Neither pair is atomic, and an error of *)
(* Redis lets the request through.                                         *)
(***************************************************************************)
EXTENDS Requests

CONSTANTS
    Limit,          \* requests per window
    RecordLimit,    \* imported records per window
    MaxBatch        \* bound on the records of one import

ASSUME LimitsAssumption == {Limit, RecordLimit, MaxBatch} \subseteq Nat \ {0}

Limiters == {"api", "auth"}

VARIABLES
    counter,    \* the number under the key of each limiter; 0: no key
    passed,     \* history: requests let through since the key was made
    overlapped, \* history: two requests overlapped since then
    window,     \* the entries of the last window
    batches     \* the sizes of the imports of the last window, by import

limitVars == <<counter, passed, overlapped, window, batches>>

Entry == 1..MaxRequests
LimitRequest ==
    [pc : {"get"}, key : Limiters] \cup [pc : {"set"}, key : Limiters, count : 0..MaxRequests]
    \cup [pc : {"zcard", "zadd"}, id : Entry]
    \cup [pc : {"zrange", "zaddbatch"}, id : Entry, size : 1..MaxBatch]

RateLimitsTypeOK ==
    /\ counter \in [Limiters -> 0..MaxRequests]
    /\ passed \in [Limiters -> 0..MaxRequests]
    /\ overlapped \in [Limiters -> BOOLEAN]
    /\ window \subseteq Entry
    /\ batches \in [Entry -> 0..MaxBatch]
    /\ RequestsAre(LimitRequest)

RateLimitsInit ==
    /\ counter = [k \in Limiters |-> 0]
    /\ passed = [k \in Limiters |-> 0]
    /\ overlapped = [k \in Limiters |-> FALSE]
    /\ window = {}
    /\ batches = [e \in Entry |-> 0]

-----------------------------------------------------------------------------
(* A number that is read and written *)

OnKey(r, k) == ~At(r, "idle") /\ "key" \in DOMAIN req[r] /\ req[r].key = k

Middleware(r, k) ==
    /\ Begin(r, [pc |-> "get", key |-> k])
    /\ overlapped' = [overlapped EXCEPT ![k] = @ \/ \E s \in Others(r) : OnKey(s, k)]
    /\ UNCHANGED <<counter, passed, window, batches>>

Pass(k) == passed' = [passed EXCEPT ![k] = @ + 1]

\* Mutant of Exceeded: the request that reaches the limit counts as below it.
ExceededAfter(k, count) == count > Limit

\* The limiter of the API compares the number it has read ...
Exceeded(k, count) == k = "api" /\ count >= Limit

GetCount(r) ==
    LET k == req[r].key
    IN  /\ At(r, "get")
        /\ IF Exceeded(k, counter[k]) THEN Finish(r)
           ELSE Become(r, [pc |-> "set", key |-> k, count |-> counter[k]])
        /\ UNCHANGED limitVars

\* ... and passes the request when the key cannot be read; that of the
\* log-in pages then starts over with 1.
GetFails(r) ==
    LET k == req[r].key
    IN  /\ At(r, "get")
        /\ IF k = "api" THEN Pass(k) /\ Stumble(r, Idle)
           ELSE Stumble(r, [pc |-> "set", key |-> k, count |-> 0]) /\ UNCHANGED passed
        /\ UNCHANGED <<counter, overlapped, window, batches>>

\* The limiter of the log-in pages compares the number it has written, so
\* that a request it refuses renews the window as well.
SetCount(r) ==
    LET k == req[r].key
        count == req[r].count + 1
    IN  /\ At(r, "set")
        /\ counter' = [counter EXCEPT ![k] = count]
        /\ IF k = "auth" /\ count > Limit THEN UNCHANGED passed ELSE Pass(k)
        /\ Finish(r)
        /\ UNCHANGED <<overlapped, window, batches>>

SetFails(r) ==
    /\ At(r, "set")
    /\ Pass(req[r].key)
    /\ Stumble(r, Idle)
    /\ UNCHANGED <<counter, overlapped, window, batches>>

\* A window without a SET: the key expires.
CounterExpires(k) ==
    /\ counter[k] > 0
    /\ counter' = [counter EXCEPT ![k] = 0]
    /\ passed' = [passed EXCEPT ![k] = 0]
    /\ overlapped' = [overlapped EXCEPT ![k] = \E r \in Slots : OnKey(r, k)]
    /\ UNCHANGED <<window, batches, requestVars>>

-----------------------------------------------------------------------------
(* Entries that are counted and added *)

Allow(r) ==
    /\ Begin(r, [pc |-> "zcard", id |-> begun + 1])
    /\ UNCHANGED limitVars

CountEntries(r) ==
    /\ At(r, "zcard")
    /\ IF Cardinality(window) >= Limit THEN Finish(r) ELSE Goto(r, "zadd")
    /\ UNCHANGED limitVars

\* Allowed, and the entry added with its own name.
AddEntry(r) ==
    /\ At(r, "zadd")
    /\ window' = window \cup {req[r].id}
    /\ Finish(r)
    /\ UNCHANGED <<counter, passed, overlapped, batches>>

\* ZREMRANGEBYSCORE of the next call: the oldest entry has left the window.
EntryExpires(e) ==
    /\ e \in window /\ \A other \in window : e <= other
    /\ window' = window \ {e}
    /\ UNCHANGED <<counter, passed, overlapped, batches, requestVars>>

BatchTotal ==
    LET total[e \in 0..MaxRequests] == IF e = 0 THEN 0 ELSE total[e - 1] + batches[e]
    IN  total[MaxRequests]

AllowRecords(r, size) ==
    /\ Begin(r, [pc |-> "zrange", id |-> begun + 1, size |-> size])
    /\ UNCHANGED limitVars

SumBatches(r) ==
    /\ At(r, "zrange")
    /\ IF BatchTotal + req[r].size > RecordLimit THEN Finish(r) ELSE Goto(r, "zaddbatch")
    /\ UNCHANGED limitVars

AddBatch(r) ==
    /\ At(r, "zaddbatch")
    /\ batches' = [batches EXCEPT ![req[r].id] = req[r].size]
    /\ Finish(r)
    /\ UNCHANGED <<counter, passed, overlapped, window>>

BatchExpires(e) ==
    /\ batches[e] > 0 /\ \A other \in 1..(e - 1) : batches[other] = 0
    /\ batches' = [batches EXCEPT ![e] = 0]
    /\ UNCHANGED <<counter, passed, overlapped, window, requestVars>>

\* Counting fails and the call is allowed without an entry, or the entry is
\* not added: no error is looked at.
EntryFails(r) ==
    /\ At(r, "zcard") \/ At(r, "zadd") \/ At(r, "zrange") \/ At(r, "zaddbatch")
    /\ Stumble(r, Idle)
    /\ UNCHANGED limitVars

-----------------------------------------------------------------------------

RateLimitsNext ==
    \/ \E r \in Slots :
        \/ \E k \in Limiters : Middleware(r, k)
        \/ GetCount(r) \/ GetFails(r) \/ SetCount(r) \/ SetFails(r)
        \/ Allow(r) \/ CountEntries(r) \/ AddEntry(r) \/ EntryFails(r)
        \/ \E size \in 1..MaxBatch : AllowRecords(r, size)
        \/ SumBatches(r) \/ AddBatch(r)
    \/ \E k \in Limiters : CounterExpires(k)
    \/ \E e \in Entry : EntryExpires(e) \/ BatchExpires(e)

-----------------------------------------------------------------------------
(* Properties *)

\* What the pairs of commands still promise.  While no two requests of the
\* client overlap, the counter of the API lets Limit of them through and one
\* more for each error, that of the log-in pages Limit more for each error;
\* and a window exceeds its limit by less than the calls that can overlap.
LimitsHold ==
    /\ overlapped["api"] \/ passed["api"] <= Limit + faults
    /\ overlapped["auth"] \/ passed["auth"] <= Limit * (1 + faults)
    /\ Cardinality(window) < Limit + Cardinality(Slots)
    /\ BatchTotal <= RecordLimit + MaxBatch * (Cardinality(Slots) - 1)

=============================================================================
