------------------------------- MODULE MCQueues -------------------------------
(***************************************************************************)
(* The queues in Redis and the event bus for TLC, one question per         *)
(* behaviour: "scope" says which, and the others stay as they are, so that *)
(* none of their fair steps is ever possible.                              *)
(*   jobs        the background job queue, over errors, stops and crashes  *)
(*   deliveries  the webhook deliveries alone, over errors, restarts and   *)
(*               replays                                                   *)
(*   bus         the event bus that dispatches deliveries and is shut      *)
(*               down: what the workers make of a delivery says nothing of *)
(*               it, they rest                                             *)
(* No symmetry: the run checks liveness.                                   *)
(***************************************************************************)
EXTENDS JobQueue, WebhookSystem

CONSTANT MaxSystemFaults   \* bound on errors and restarts in the scope "bus"

VARIABLE scope

QueuesInit == Init /\ SystemInit /\ scope \in {"jobs", "deliveries", "bus"}

QueuesNext ==
    /\ \/ /\ scope = "jobs"
          /\ Next
          /\ UNCHANGED systemVars
       \/ /\ scope = "deliveries"
          /\ DeliveryNext
          /\ UNCHANGED <<vars, busVars>>
       \/ /\ scope = "bus"
          /\ SystemNext
          /\ faults' <= MaxSystemFaults
          /\ UNCHANGED <<vars, workers, reaper, asked>>
    /\ UNCHANGED scope

\* A step of the deliveries that is bound to come.
Settling(A) == scope = "deliveries" /\ A /\ UNCHANGED busVars

QueuesSpec ==
    /\ QueuesInit
    /\ [][QueuesNext]_<<vars, systemVars, scope>>
    /\ Fairness
    /\ WF_systemVars(BusStep /\ UNCHANGED hookVars)
    /\ WF_systemVars(HandleNothing \/ HandleCreate \/ HandleEnqueue)
    /\ WF_systemVars(Settling(DispatchEnqueue))
    /\ \A d \in Deliveries : /\ WF_systemVars(Settling(BecomeReady(d)))
                             /\ WF_systemVars(Settling(Age(d)))
    /\ \A c \in Couriers : WF_systemVars(Settling(CourierRun(c)))
    /\ WF_systemVars(Settling(ReaperRun))

\* Where the workers work, whether or not the endpoint answers, and over any
\* change of the webhook, a queued delivery comes to an end, if no fault and no
\* replay intervenes; and one whose worker died is found, whatever fails.
DeliveriesSettle == (scope = "deliveries" => EveryDeliverySettles) /\ StuckIsRecovered
===============================================================================
