------------------------------ MODULE EmailQueue ------------------------------
(***************************************************************************)
(* Emails on their way out: internal/service/email.go and email_worker.go  *)
(* over the table email_queue.                                             *)
(*                                                                         *)
(* The workers poll the table; the Redis queue of email_queue_redis.go is  *)
(* built but nothing puts an email on it.  A sender is a call of Send (the *)
(* email job) or SendTransactional, which makes a row of its own and does  *)
(* not queue.  One statement is one step.  A message that cannot be        *)
(* rendered, or has no body, is one the provider refuses.                  *)
(***************************************************************************)
EXTENDS Naturals, FiniteSets

CONSTANTS
    Emails,         \* rows of email_queue
    Mailers,        \* goroutines of the email workers
    Senders,        \* calls of Send and SendTransactional in progress
    NoEmail,
    RetryMax,       \* max_attempts of every row
    MaxEmailFaults       \* bound on database errors, stops and crashes

ASSUME EmailBoundsAssumption == RetryMax \in Nat \ {0} /\ MaxEmailFaults \in Nat
ASSUME NoEmailAssumption == IsFiniteSet(Emails) /\ NoEmail \notin Emails
ASSUME ActorsAssumption == Mailers \cap Senders = {}

VARIABLES
    mail,       \* the table
    actor,      \* workers and senders
    emailRunning,    \* the context of the workers is not cancelled
    handed,   \* history: how often the provider took the email
    unclear,    \* history: emails it took and reported an error for
    emailFaults

emailVars == <<mail, actor, emailRunning, handed, unclear, emailFaults>>

Actors == Mailers \cup Senders

-----------------------------------------------------------------------------

\* "no" numbers the rows in the order of created_at.
EmailRow == [st : {"none", "queued", "processing", "sent", "failed", "delivered", "bounced"},
        attempts : 0..(RetryMax + 1), no : 0..Cardinality(Emails)]

Actor == [pc : {"idle", "claim", "send", "sent", "count", "check", "fail"},
          e : Emails \cup {NoEmail}]

Free == [pc |-> "idle", e |-> NoEmail]

EmailTypeOK ==
    /\ mail \in [Emails -> EmailRow]
    /\ actor \in [Actors -> Actor]
    /\ \A a \in Actors : actor[a].pc = "idle" <=> actor[a].e = NoEmail
    /\ emailRunning \in BOOLEAN
    /\ handed \in [Emails -> Nat]
    /\ unclear \in SUBSET Emails
    /\ emailFaults \in 0..MaxEmailFaults

EmailInit ==
    /\ mail = [e \in Emails |-> [st |-> "none", attempts |-> 0, no |-> 0]]
    /\ actor = [a \in Actors |-> Free]
    /\ emailRunning = TRUE
    /\ handed = [e \in Emails |-> 0]
    /\ unclear = {}
    /\ emailFaults = 0

-----------------------------------------------------------------------------

EmailExists(e) == mail[e].st # "none"
Waiting(e) == mail[e].st = "queued" /\ mail[e].attempts < RetryMax

ActorAt(a, label) == actor[a].pc = label
ActorGoto(a, label) == actor' = [actor EXCEPT ![a].pc = label]

LetGo(a) == actor' = [actor EXCEPT ![a] = Free]

SetStatus(e, st) == mail' = [mail EXCEPT ![e].st = st]
History == <<handed, unclear>>

\* Statements of a worker run under a context that Stop cancels.
CanQuery(a) == a \in Mailers => emailRunning

InsertEmail(e, st) ==
    /\ ~EmailExists(e)
    /\ mail' = [mail EXCEPT ![e] =
                  [st |-> st, attempts |-> 0,
                   no |-> 1 + Cardinality({d \in Emails : EmailExists(d)})]]

QueueEmail(e) ==
    /\ InsertEmail(e, "queued")
    /\ UNCHANGED <<actor, emailRunning, History, emailFaults>>

SendDirect(s, e) ==
    /\ ActorAt(s, "idle")
    /\ InsertEmail(e, "processing")
    /\ actor' = [actor EXCEPT ![s] = [pc |-> "send", e |-> e]]
    /\ UNCHANGED <<emailRunning, History, emailFaults>>

\* Mutant of GetNextBatch: the oldest row, if it waits.
GetOldest(w) ==
    /\ ActorAt(w, "idle") /\ emailRunning
    /\ \E e \in Emails :
         /\ Waiting(e)
         /\ \A d \in Emails : EmailExists(d) => mail[e].no <= mail[d].no
         /\ actor' = [actor EXCEPT ![w] = [pc |-> "claim", e |-> e]]
    /\ UNCHANGED <<mail, emailRunning, History, emailFaults>>

\* The oldest of those that wait.
GetNextBatch(w) ==
    /\ ActorAt(w, "idle") /\ emailRunning
    /\ \E e \in Emails :
         /\ Waiting(e)
         /\ \A d \in Emails : Waiting(d) => mail[e].no <= mail[d].no
         /\ actor' = [actor EXCEPT ![w] = [pc |-> "claim", e |-> e]]
    /\ UNCHANGED <<mail, emailRunning, History, emailFaults>>

\* Mutant of MarkProcessing: whatever has become of the row.
ClaimAny(w) ==
    /\ ActorAt(w, "claim") /\ emailRunning
    /\ SetStatus(actor[w].e, "processing")
    /\ ActorGoto(w, "send")
    /\ UNCHANGED <<emailRunning, History, emailFaults>>

\* Another worker may have taken it since.
MarkProcessing(w) ==
    /\ ActorAt(w, "claim") /\ emailRunning
    /\ IF mail[actor[w].e].st = "queued"
       THEN SetStatus(actor[w].e, "processing") /\ ActorGoto(w, "send")
       ELSE LetGo(w) /\ UNCHANGED mail
    /\ UNCHANGED <<emailRunning, History, emailFaults>>

OnError(a) == IF a \in Mailers THEN "count" ELSE "fail"

\* The provider takes the email, refuses it, or takes it and the answer is lost.
ProviderSend(a) ==
    LET e == actor[a].e
        Take == handed' = [handed EXCEPT ![e] = @ + 1]
    IN  /\ ActorAt(a, "send")
        /\ \/ Take /\ ActorGoto(a, "sent") /\ UNCHANGED unclear
           \/ ActorGoto(a, OnError(a)) /\ UNCHANGED History
           \/ Take /\ unclear' = unclear \cup {e} /\ ActorGoto(a, OnError(a))
        /\ UNCHANGED <<mail, emailRunning, emailFaults>>

MarkSent(a) ==
    /\ ActorAt(a, "sent") /\ CanQuery(a)
    /\ SetStatus(actor[a].e, "sent")
    /\ LetGo(a)
    /\ UNCHANGED <<emailRunning, History, emailFaults>>

-----------------------------------------------------------------------------
(* handleSendError *)

\* Mutant of IncrementAttempts: nothing is counted.
IncrementNothing(w) ==
    /\ ActorAt(w, "count") /\ emailRunning
    /\ ActorGoto(w, "check")
    /\ UNCHANGED <<mail, emailRunning, History, emailFaults>>

IncrementAttempts(w) ==
    /\ ActorAt(w, "count") /\ emailRunning
    /\ mail' = [mail EXCEPT ![actor[w].e].attempts = @ + 1]
    /\ ActorGoto(w, "check")
    /\ UNCHANGED <<emailRunning, History, emailFaults>>

\* An email that may be tried again is left as it is.
CanRetry(w) ==
    /\ ActorAt(w, "check") /\ emailRunning
    /\ IF mail[actor[w].e].attempts < RetryMax THEN LetGo(w) ELSE ActorGoto(w, "fail")
    /\ UNCHANGED <<mail, emailRunning, History, emailFaults>>

MarkFailed(a) ==
    /\ ActorAt(a, "fail") /\ CanQuery(a)
    /\ mail' = [mail EXCEPT ![actor[a].e].st = "failed", ![actor[a].e].attempts = @ + 1]
    /\ LetGo(a)
    /\ UNCHANGED <<emailRunning, History, emailFaults>>

-----------------------------------------------------------------------------
(* Provider webhooks: message_id is taken for the id of the row *)

RecordDelivery(e) ==
    /\ EmailExists(e)
    /\ SetStatus(e, "delivered")
    /\ UNCHANGED <<actor, emailRunning, History, emailFaults>>

RecordBounce(e) ==
    /\ EmailExists(e)
    /\ SetStatus(e, "bounced")
    /\ UNCHANGED <<actor, emailRunning, History, emailFaults>>

-----------------------------------------------------------------------------
(* Errors, stops and crashes *)

Fault == emailFaults < MaxEmailFaults /\ emailFaults' = emailFaults + 1

\* Mutant of AfterError: a failed MarkSent counts as a failed send.
AfterErrorRetry(label) ==
    IF label = "sent" THEN "count"
    ELSE IF label = "count" THEN "check" ELSE IF label = "check" THEN "fail" ELSE "idle"

\* Where an actor goes on when a statement fails.
AfterError(label) ==
    IF label = "count" THEN "check" ELSE IF label = "check" THEN "fail" ELSE "idle"

QueryFails(a) ==
    /\ actor[a].pc \in {"claim", "sent", "count", "check", "fail"}
    /\ IF CanQuery(a) THEN Fault ELSE UNCHANGED emailFaults
    /\ IF AfterError(actor[a].pc) = "idle" THEN LetGo(a) ELSE ActorGoto(a, AfterError(actor[a].pc))
    /\ UNCHANGED <<mail, emailRunning, History>>

StopWorkers ==
    /\ emailRunning
    /\ Fault
    /\ emailRunning' = FALSE
    /\ UNCHANGED <<mail, actor, History>>

\* Stop waits for the workers, but not for long: the process ends ...
StartWorkers ==
    /\ ~emailRunning
    /\ emailRunning' = TRUE
    /\ actor' = [a \in Actors |-> Free]
    /\ UNCHANGED <<mail, History, emailFaults>>

\* ... or has ended already.
CrashWorkers ==
    /\ Fault
    /\ emailRunning' = TRUE
    /\ actor' = [a \in Actors |-> Free]
    /\ UNCHANGED <<mail, History>>

-----------------------------------------------------------------------------

Worker(w) ==
    \/ GetNextBatch(w) \/ MarkProcessing(w) \/ ProviderSend(w) \/ MarkSent(w)
    \/ IncrementAttempts(w) \/ CanRetry(w) \/ MarkFailed(w)

EmailNext ==
    \/ \E w \in Mailers : Worker(w)
    \/ \E s \in Senders : ProviderSend(s) \/ MarkSent(s) \/ MarkFailed(s)
    \/ \E s \in Senders, e \in Emails : SendDirect(s, e)
    \/ \E a \in Actors : QueryFails(a)
    \/ \E e \in Emails : QueueEmail(e) \/ RecordDelivery(e) \/ RecordBounce(e)
    \/ StopWorkers \/ StartWorkers \/ CrashWorkers

\* A worker that runs gets on, the mail server answers or hangs up, and a
\* process that was stopped is started again.
EmailFairness == WF_emailVars(StartWorkers) /\ \A w \in Mailers : WF_emailVars(Worker(w))

EmailSpec == EmailInit /\ [][EmailNext]_emailVars /\ EmailFairness

-----------------------------------------------------------------------------
(* Properties *)

\* No email is handed to the provider twice, whatever fails and whoever polls
\* the same row.
SentOnce == \A e \in Emails : handed[e] <= 1

\* The status never claims what did not happen: a queued email was not sent, one
\* that is recorded as sent was, and one recorded as failed was not unless the
\* provider itself said so.
StatusIsHonest ==
    /\ \A e \in Emails :
        /\ mail[e].st \in {"none", "queued"} => handed[e] = 0
        /\ mail[e].st = "sent" => handed[e] = 1
        /\ mail[e].st = "failed" => handed[e] = 0 \/ e \in unclear

\* No email that GetNextBatch may select waits for ever.
QueuedIsTaken == \A e \in Emails : []<>~Waiting(e)

\* What becomes of an email, as the provider saw it and as the row says: SentOnce and
\* StatusIsHonest.  (That it is sent after all when its send failed is not said: nobody
\* takes up again what CanRetry has left in processing.)
EmailsAccounted == SentOnce /\ StatusIsHonest

\* Why: from its claim to the last word on it an email is with one actor, ...
Carries(a) == actor[a].pc \notin {"idle", "claim"}
OneCarrier ==
    \A a, b \in Actors : Carries(a) /\ Carries(b) /\ actor[a].e = actor[b].e => a = b

\* ... who knows what the provider has said of it and finds its row as he left it, but
\* for a notice of the provider, ...
Knows(a) ==
    LET e == actor[a].e
    IN  /\ mail[e].st \in {"processing", "delivered", "bounced"} /\ mail[e].attempts <= 1
        /\ actor[a].pc \in {"send", "sent", "count"} => mail[e].attempts = 0
        /\ ActorAt(a, "send") => handed[e] = 0
        /\ ActorAt(a, "sent") => handed[e] = 1
        /\ actor[a].pc \in {"count", "check", "fail"} =>
            handed[e] = 0 \/ (handed[e] = 1 /\ e \in unclear)
        /\ ActorAt(a, "check") /\ emailFaults = 0 => mail[e].attempts = 1

CarriersKnow == \A a \in Actors : Carries(a) => Knows(a)

\* ... and a row whose email nobody carries was never taken up, is settled, or was left
\* for another attempt.
RowIsAccounted(e) ==
    /\ handed[e] <= 1 /\ mail[e].attempts <= 2
    /\ mail[e].st \in {"none", "queued"} => handed[e] = 0 /\ mail[e].attempts = 0
    /\ mail[e].st = "sent" => handed[e] = 1
    /\ mail[e].st = "failed" => handed[e] = 0 \/ e \in unclear
    /\ emailFaults = 0 /\ mail[e].st = "processing" =>
        \/ mail[e].attempts \in 1..(RetryMax - 1)
        \/ \E a \in Actors : Carries(a) /\ actor[a].e = e

StopsAreFaults == ~emailRunning => emailFaults > 0

EmailInv ==
    /\ EmailTypeOK
    /\ OneCarrier
    /\ CarriersKnow
    /\ \A e \in Emails : RowIsAccounted(e)
    /\ StopsAreFaults
=============================================================================
