------------------------------ MODULE EventBus ------------------------------
(***************************************************************************)
(* The in-process event bus of internal/domain/webhook_events.go, and the  *)
(* order in which cmd/api/main.go shuts the process down: the context of   *)
(* the bus is cancelled first, the HTTP server drains its requests next,   *)
(* and only then is the bus stopped.                                       *)
(*                                                                         *)
(* Every event has a publisher of its own, a goroutine that calls Publish  *)
(* once.  Publish looks at the context and at the channel in two steps.    *)
(***************************************************************************)
EXTENDS Naturals, Sequences

CONSTANTS
    Events,
    NoEvent,
    Buffer      \* capacity of the channel

ASSUME BufferAssumption == Buffer \in Nat \ {0}
ASSUME NoEventAssumption == NoEvent \notin Events

VARIABLES
    pub,        \* where the publisher of each event is
    ch,         \* the channel
    cur,        \* the event the handlers are being called with
    disp,       \* the dispatch goroutine: running, draining, returned
    stage,      \* of main: serving, cancelled, drained (HTTP), exited, or
                \* killed (a crash, or a Stop that timed out)
    sent,       \* history: events in the order of their sends
    handled,    \* history: events in the order their handlers returned
    racing      \* history: publishers between their two steps at the cancel

busVars == <<pub, ch, cur, disp, stage, sent, handled, racing>>

BusTypeOK ==
    /\ pub \in [Events -> {"new", "checked", "accepted", "refused"}]
    /\ ch \in Seq(Events)
    /\ Len(ch) <= Buffer
    /\ cur \in Events \cup {NoEvent}
    /\ disp \in {"running", "draining", "returned"}
    /\ stage \in {"serving", "cancelled", "drained", "exited", "killed"}
    /\ sent \in Seq(Events)
    /\ handled \in Seq(Events)
    /\ racing \in SUBSET Events

BusInit ==
    /\ pub = [e \in Events |-> "new"]
    /\ ch = <<>>
    /\ cur = NoEvent
    /\ disp = "running"
    /\ stage = "serving"
    /\ sent = <<>>
    /\ handled = <<>>
    /\ racing = {}

Cancelled == stage # "serving"
Alive == stage \notin {"exited", "killed"}

-----------------------------------------------------------------------------
(* Publish *)

\* The first select: a cancelled context refuses the event.
PublishCheck(e) ==
    /\ Alive
    /\ pub[e] = "new"
    /\ pub' = [pub EXCEPT ![e] = IF Cancelled THEN "refused" ELSE "checked"]
    /\ UNCHANGED <<ch, cur, disp, stage, sent, handled, racing>>

\* The second select: a full channel refuses it.
PublishSend(e) ==
    /\ Alive
    /\ pub[e] = "checked"
    /\ IF Len(ch) < Buffer
         THEN /\ ch' = Append(ch, e)
              /\ sent' = Append(sent, e)
              /\ pub' = [pub EXCEPT ![e] = "accepted"]
         ELSE /\ pub' = [pub EXCEPT ![e] = "refused"]
              /\ UNCHANGED <<ch, sent>>
    /\ UNCHANGED <<cur, disp, stage, handled, racing>>

-----------------------------------------------------------------------------
(* dispatch *)

\* Mutant of Receive: the event stays in the channel.
ReceivePeek ==
    /\ Alive
    /\ disp # "returned"
    /\ cur = NoEvent
    /\ ch # <<>>
    /\ cur' = Head(ch)
    /\ UNCHANGED <<pub, ch, disp, stage, sent, handled, racing>>

\* Either loop receives; the select of the first may prefer the channel to a
\* context that is done.
ReceiveEvent ==
    /\ Alive
    /\ disp # "returned"
    /\ cur = NoEvent
    /\ ch # <<>>
    /\ cur' = Head(ch)
    /\ ch' = Tail(ch)
    /\ UNCHANGED <<pub, disp, stage, sent, handled, racing>>

\* Every handler returned, or panicked and was recovered.
HandlersDone ==
    /\ Alive
    /\ cur # NoEvent
    /\ handled' = Append(handled, cur)
    /\ cur' = NoEvent
    /\ UNCHANGED <<pub, ch, disp, stage, sent, racing>>

\* Mutant of Drain: the goroutine returns without looking at the channel.
DrainNothing ==
    /\ Alive
    /\ disp = "running"
    /\ Cancelled
    /\ cur = NoEvent
    /\ disp' = "returned"
    /\ UNCHANGED <<pub, ch, cur, stage, sent, handled, racing>>

Drain ==
    /\ Alive
    /\ disp = "running"
    /\ Cancelled
    /\ cur = NoEvent
    /\ disp' = "draining"
    /\ UNCHANGED <<pub, ch, cur, stage, sent, handled, racing>>

DispatchReturn ==
    /\ Alive
    /\ disp = "draining"
    /\ cur = NoEvent
    /\ ch = <<>>
    /\ disp' = "returned"
    /\ UNCHANGED <<pub, ch, cur, stage, sent, handled, racing>>

-----------------------------------------------------------------------------
(* main *)

\* A signal: cancel() ends the context that Start was given.
Cancel ==
    /\ stage = "serving"
    /\ stage' = "cancelled"
    /\ racing' = {e \in Events : pub[e] = "checked"}
    /\ UNCHANGED <<pub, ch, cur, disp, sent, handled>>

\* The HTTP server has drained, or its 30 seconds are over.
StopServer ==
    /\ stage = "cancelled"
    /\ stage' = "drained"
    /\ UNCHANGED <<pub, ch, cur, disp, sent, handled, racing>>

\* Stop has seen the dispatch goroutine return, and main returns; the
\* goroutines that are left die with it.
Exit ==
    /\ stage = "drained"
    /\ disp = "returned"
    /\ stage' = "exited"
    /\ UNCHANGED <<pub, ch, cur, disp, sent, handled, racing>>

\* The process dies, or its handlers outlast the 5 seconds of Stop.
Kill ==
    /\ Alive
    /\ stage' = "killed"
    /\ UNCHANGED <<pub, ch, cur, disp, sent, handled, racing>>

BusStep == ReceiveEvent \/ Drain \/ DispatchReturn

BusNext ==
    \/ \E e \in Events : PublishCheck(e) \/ PublishSend(e)
    \/ BusStep
    \/ HandlersDone
    \/ Cancel \/ StopServer \/ Exit \/ Kill

BusSpec == BusInit /\ [][BusNext]_busVars /\ WF_busVars(BusStep \/ HandlersDone)

-----------------------------------------------------------------------------
(* Properties *)

Elements(s) == {s[i] : i \in 1..Len(s)}

Current == IF cur = NoEvent THEN <<>> ELSE <<cur>>

\* Handlers see the accepted events one at a time, each once, in the order in
\* which they were sent, over the switch from the loop to the drain as well; and
\* the state is well typed.
FifoOnce == BusTypeOK /\ sent = handled \o Current \o ch

\* When the dispatch goroutine has returned, all that can be left behind in the
\* channel came from a Publish that overlapped the cancellation.
OnlyRacersAreLost == disp = "returned" => Elements(ch) \subseteq racing

\* An event Publish accepted is handled before the process exits in order,
\* unless its Publish overlapped the cancellation.
AcceptedIsHandled ==
    \A e \in Events :
        []<>(pub[e] = "accepted" /\ e \notin racing
                => e \in Elements(handled) \/ stage = "killed")

\* The channel loses and reorders nothing, not even while the bus is drained:
\* FifoOnce and OnlyRacersAreLost.
BusKeepsOrder == FifoOnce /\ OnlyRacersAreLost

-----------------------------------------------------------------------------
(* What BusKeepsOrder rests on *)

\* The dispatch goroutine leaves its loop only after the cancellation, and once the
\* context is cancelled only a Publish that overlapped that still sends.
LateSendersRace ==
    /\ disp # "running" => stage # "serving"
    /\ Alive /\ Cancelled => \A e \in Events : pub[e] = "checked" => e \in racing

BusInv == BusKeepsOrder /\ LateSendersRace
=============================================================================
