---------------------------- MODULE WebhookSystem ----------------------------
(***************************************************************************)
(* The event bus and the webhook deliveries together: a handler of the bus *)
(* is WebhookService.DispatchEvent (SubscribeToEventBus), which creates a  *)
(* delivery for the event and queues it while the bus waits.  An event the *)
(* webhook subscribed to has the id of its delivery.                       *)
(***************************************************************************)
EXTENDS EventBus, WebhookDelivery

ASSUME SubscribedAssumption == Deliveries \subseteq Events

systemVars == <<busVars, hookVars>>

SystemInit == BusInit /\ DeliveryInit

\* DispatchEvent returns without having queued anything ...
HandleNothing ==
    /\ \/ cur \notin Deliveries /\ UNCHANGED hookVars
       \/ /\ cur \in Deliveries
          /\ row[cur].st = "none"
          /\ DispatchNothing \/ DispatchLimited(cur)
    /\ HandlersDone

\* ... or writes the row ...
HandleCreate ==
    /\ Alive
    /\ cur \in Deliveries
    /\ DispatchCreate(cur)
    /\ UNCHANGED busVars

\* ... and then queues it.
HandleEnqueue ==
    /\ DispatchEnqueue \/ DispatchError
    /\ HandlersDone

\* The bus on its own: requests publish, dispatch receives, main shuts down.
BusAlone ==
    /\ \/ \E e \in Events : PublishCheck(e) \/ PublishSend(e)
       \/ BusStep
       \/ Cancel
       \/ StopServer
    /\ UNCHANGED hookVars

\* In order or not, the end of the process cuts its workers off, and another
\* process works on the same queue.
EndProcess == (Exit \/ Kill) /\ CutOff

SystemNext ==
    \/ BusAlone
    \/ HandleNothing \/ HandleCreate \/ HandleEnqueue
    \/ DeliveryStep /\ UNCHANGED busVars
    \/ EndProcess

SystemSpec == SystemInit /\ [][SystemNext]_systemVars

-----------------------------------------------------------------------------
(* Properties *)

\* An event that Publish accepted has left its mark in webhook_deliveries by the
\* time the bus is stopped, even if the process is being shut down, unless the
\* webhook was switched off, a write failed or the process was killed.
EventsAreRecorded ==
    \A e \in Deliveries :
        ((e \in Elements(ch) \/ cur = e) /\ e \notin racing)
            ~> (row[e].st # "none" \/ hook # "active" \/ faults > 0)

\* No event and no mark of one is lost on the way from Publish to the row:
\* AcceptedIsHandled and EventsAreRecorded.
EventsArrive == AcceptedIsHandled /\ EventsAreRecorded
=============================================================================
