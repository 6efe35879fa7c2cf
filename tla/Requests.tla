------------------------------- MODULE Requests -------------------------------
(***************************************************************************)
(* What the requests to the API have in common.  A request is served by    *)
(* one goroutine that runs the statements of a handler, its service and    *)
(* its repositories one after the other, beside any other request.  A slot *)
(* holds a request in progress: the statement it has come to and what it   *)
(* has read.  The components that EXTEND this module say what a statement  *)
(* does to their rows.                                                     *)
(***************************************************************************)
EXTENDS Naturals, FiniteSets

CONSTANTS
    Slots,          \* slots for requests in progress
    MaxRequests,    \* bound on the requests begun
    MaxFaults       \* bound on the statements that fail

ASSUME RequestBoundsAssumption == MaxRequests \in Nat /\ MaxFaults \in Nat

VARIABLES
    req,        \* the request in each slot
    begun,      \* requests begun
    faults      \* statements failed

requestVars == <<req, begun, faults>>

Idle == [pc |-> "idle"]

RequestsInit ==
    /\ req = [r \in Slots |-> Idle]
    /\ begun = 0
    /\ faults = 0

\* The requests have one of the given forms.
RequestsAre(Forms) ==
    /\ req \in [Slots -> Forms \cup {Idle}]
    /\ begun \in 0..MaxRequests
    /\ faults \in 0..MaxFaults

At(r, label) == req[r].pc = label
Others(r) == Slots \ {r}
Quiet == \A r \in Slots : req[r] = Idle

\* A handler has bound and validated its input, and knows who asks.
Begin(r, q) ==
    /\ At(r, "idle")
    /\ begun < MaxRequests
    /\ begun' = begun + 1
    /\ req' = [req EXCEPT ![r] = q]
    /\ UNCHANGED faults

\* A request of a single statement.
Serve ==
    /\ begun < MaxRequests
    /\ begun' = begun + 1
    /\ UNCHANGED <<req, faults>>

\* On to another statement, with what has been read, or to the response.
Become(r, q) == req' = [req EXCEPT ![r] = q] /\ UNCHANGED <<begun, faults>>
Goto(r, label) == Become(r, [req[r] EXCEPT !.pc = label])
Finish(r) == Become(r, Idle)

\* A statement fails and the code goes on.
Stumble(r, q) ==
    /\ faults < MaxFaults
    /\ faults' = faults + 1
    /\ req' = [req EXCEPT ![r] = q]
    /\ UNCHANGED begun

\* A statement fails and the error is returned, the client has gone and the
\* context of the next statement is cancelled, or the process dies.
Abort(r) ==
    /\ ~At(r, "idle")
    /\ Stumble(r, Idle)

\* What is to be done and was not is with a request that owes it, or failed.
Accounted(done, due, owing, failed) ==
    /\ IsFiniteSet(owing)
    /\ done + Cardinality(owing) <= due
    /\ failed = 0 => done + Cardinality(owing) = due

=============================================================================
