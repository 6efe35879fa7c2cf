-------------------------------- MODULE Webhooks --------------------------------
(***************************************************************************)
(* The webhooks themselves, whom an event is dispatched to, and the replay *)
(* of a delivery by way of its webhook: internal/http/handler/webhook.go,  *)
(* the service below it and the repository.  (WebhookDelivery says what    *)
(* becomes of a delivery.)                                                 *)
(*                                                                         *)
(* Update reads the row twice, for the owner and for the fields, and then  *)
(* saves all of it.  A new URL gets a new secret, which no response shows. *)
(***************************************************************************)
EXTENDS Requests, Sequences

CONSTANTS
    HookOrgs,       \* organizations
    Urls,
    HookEvents,     \* types of events; a webhook here subscribes to one
    MaxHooks,       \* bounds on the rows of both tables
    MaxSent

ASSUME HooksAssumption ==
    "global" \notin HookOrgs /\ MaxHooks \in Nat /\ MaxSent \in Nat

VARIABLES
    hooks,      \* webhooks, by the order of their insertion
    sendings,   \* webhook_deliveries
    made,       \* history: each URL with the secret that was generated for it,
    agreed,     \* the rows as the last successful request left them,
    tangled     \* and those written while another request held a copy

webhookVars == <<hooks, sendings, made, agreed, tangled>>

Hooks == DOMAIN hooks
Scopes == HookOrgs \cup {"global"}
Secret == 0..MaxRequests

Webhook == [org : Scopes, url : Urls, secret : Secret, event : HookEvents,
            active : BOOLEAN, deleted : BOOLEAN]

\* A delivery, the webhook as it was agreed when the event looked for it, and the
\* replays: written, answered with success, and asked for under another webhook.
Sending == [hook : 1..MaxHooks, event : HookEvents, org : Scopes, then : Webhook,
            queued : BOOLEAN, replays : Nat, answered : Nat, astray : Nat]

WebhookRequest ==
    [pc : {"create", "owner", "update", "save", "dropowner", "drop", "path", "replay",
           "reset", "answer", "find", "deliver"},
     org : Scopes, id : 0..MaxHooks, field : {"url", "event", "active"},
     value : Urls \cup HookEvents \cup BOOLEAN, stamp : Secret,
     sending : 0..MaxSent, copy : Seq(Webhook), todo : SUBSET ((1..MaxHooks) \X Webhook)]

WebhooksTypeOK ==
    /\ hooks \in Seq(Webhook) /\ Len(hooks) <= MaxHooks
    /\ sendings \in Seq(Sending) /\ Len(sendings) <= MaxSent
    /\ made \subseteq Hooks \X Urls \X Secret
    /\ agreed \in Seq(Webhook) /\ Len(agreed) = Len(hooks)
    /\ tangled \subseteq Hooks
    /\ RequestsAre(WebhookRequest)

WebhooksInit ==
    hooks = <<>> /\ sendings = <<>> /\ made = {} /\ agreed = <<>> /\ tangled = {}

-----------------------------------------------------------------------------
(* The repository and the domain *)

Webhook_FindByID(h) == h \in Hooks /\ ~hooks[h].deleted
Webhook_FindByOrgID(o) == {h \in Hooks : hooks[h].org = o /\ ~hooks[h].deleted}

\* With the global ones.
FindForEventDispatch(o) ==
    {h \in Hooks : hooks[h].org \in {"global", o} /\ ~hooks[h].deleted}

\* The index on the live rows of an organization; NULL equals nothing.
UrlIsFree(h, row) ==
    row.org = "global" \/ row.deleted \/
    \A g \in Webhook_FindByOrgID(row.org) \ {h} : hooks[g].url # row.url

IsOwner(h, o) == hooks[h].org \in {"global", o}
IsActive(h) == hooks[h].active /\ ~hooks[h].deleted
IsSubscribedTo(h, e) == hooks[h].event = e
CanBeReplayed(d) == ~sendings[d].queued

\* History: a request writes the row of h while another holds a copy of it.
Tangle(r, h) ==
    tangled' = IF \E s \in Others(r) :
                      ~At(s, "idle") /\ req[s].id = h /\ req[s].copy # <<>>
               THEN tangled \cup {h} ELSE tangled

\* A request of organization o about webhook h and delivery d.
HookCall(label, o, h, field, value, d) ==
    [pc |-> label, org |-> o, id |-> h, field |-> field, value |-> value,
     stamp |-> begun + 1, sending |-> d, copy |-> <<>>, todo |-> {}]

-----------------------------------------------------------------------------
(* Create *)

HandleCreateWebhook(r, o, u) ==
    Begin(r, HookCall("create", o, 0, "url", u, 0)) /\ UNCHANGED webhookVars

\* The response shows the secret, this time only.
CreateWebhook(r) ==
    LET q == req[r]
    IN  /\ At(r, "create")
        /\ Len(hooks) < MaxHooks
        /\ \E e \in HookEvents :
            LET row == [org |-> q.org, url |-> q.value, secret |-> q.stamp, event |-> e,
                        active |-> TRUE, deleted |-> FALSE]
            IN  IF UrlIsFree(0, row)
                THEN /\ hooks' = Append(hooks, row)
                     /\ agreed' = Append(agreed, row)
                     /\ made' = made \cup {<<Len(hooks) + 1, row.url, row.secret>>}
                ELSE UNCHANGED <<hooks, agreed, made>>
        /\ Finish(r)
        /\ UNCHANGED <<sendings, tangled>>

-----------------------------------------------------------------------------
(* Update *)

HandleUpdateWebhook(r, o, h, field, value) ==
    Begin(r, HookCall("owner", o, h, field, value, 0)) /\ UNCHANGED webhookVars

\* The handler reads the row for the owner ...
OwnerOfWebhook(r) ==
    LET q == req[r]
    IN  /\ At(r, "owner")
        /\ IF Webhook_FindByID(q.id) /\ IsOwner(q.id, q.org)
           THEN Goto(r, "update") ELSE Finish(r)
        /\ UNCHANGED webhookVars

\* ... and the service for the fields ...
UpdateWebhook(r) ==
    LET q == req[r]
    IN  /\ At(r, "update")
        /\ IF Webhook_FindByID(q.id)
           THEN Become(r, [q EXCEPT !.pc = "save", !.copy = <<hooks[q.id]>>])
           ELSE Finish(r)
        /\ UNCHANGED webhookVars

\* Mutant of NewSecret: the secret stays with a new URL.
OldSecret(row, q) == row.secret

\* Generated when the URL changes.
NewSecret(row, q) ==
    IF q.field = "url" /\ q.value # row.url THEN q.stamp ELSE row.secret

\* ... of which it saves the copy.
SaveWebhook(r) ==
    LET q == req[r]
        row == [[q.copy[1] EXCEPT ![q.field] = q.value]
                    EXCEPT !.secret = NewSecret(q.copy[1], q)]
    IN  /\ At(r, "save")
        /\ IF UrlIsFree(q.id, row)
           THEN /\ hooks' = [hooks EXCEPT ![q.id] = row]
                /\ agreed' = [agreed EXCEPT ![q.id] =
                                [[@ EXCEPT ![q.field] = q.value] EXCEPT !.secret = row.secret]]
                /\ made' = IF q.field = "url" /\ q.value # q.copy[1].url
                           THEN made \cup {<<q.id, q.value, q.stamp>>} ELSE made
                /\ Tangle(r, q.id)
           ELSE UNCHANGED <<hooks, agreed, made, tangled>>
        /\ Finish(r)
        /\ UNCHANGED sendings

-----------------------------------------------------------------------------
(* SoftDelete *)

HandleDeleteWebhook(r, o, h) ==
    Begin(r, HookCall("dropowner", o, h, "active", FALSE, 0)) /\ UNCHANGED webhookVars

OwnerBeforeDelete(r) ==
    LET q == req[r]
    IN  /\ At(r, "dropowner")
        /\ IF Webhook_FindByID(q.id) /\ IsOwner(q.id, q.org)
           THEN Goto(r, "drop") ELSE Finish(r)
        /\ UNCHANGED webhookVars

SoftDeleteWebhook(r) ==
    LET h == req[r].id
    IN  /\ At(r, "drop")
        /\ IF ~hooks[h].deleted
           THEN /\ hooks' = [hooks EXCEPT ![h].deleted = TRUE]
                /\ agreed' = [agreed EXCEPT ![h].deleted = TRUE]
                /\ Tangle(r, h)
           ELSE UNCHANGED <<hooks, agreed, tangled>>
        /\ Finish(r)
        /\ UNCHANGED <<sendings, made>>

-----------------------------------------------------------------------------
(* DispatchEvent *)

HandleEvent(r, e, o) ==
    Begin(r, HookCall("find", o, 0, "event", e, 0)) /\ UNCHANGED webhookVars

\* Mutant of Wanted: the switch is not looked at.
WantedAlways(h, e) == IsSubscribedTo(h, e)

Wanted(h, e) == IsActive(h) /\ IsSubscribedTo(h, e)

\* The webhooks of the organization and the global ones, in any order ...
DispatchEvent(r) ==
    LET q == req[r]
        found == {h \in FindForEventDispatch(q.org) : Wanted(h, q.value)}
        todo == {<<h, agreed[h]>> : h \in found}
    IN  /\ At(r, "find")
        /\ IF found = {} THEN Finish(r)
           ELSE Become(r, [q EXCEPT !.pc = "deliver", !.todo = todo])
        /\ UNCHANGED webhookVars

\* ... get a row each; one that cannot be written is passed over.
DispatchDelivery(r) ==
    LET q == req[r]
    IN  /\ At(r, "deliver")
        /\ \E next \in q.todo :
            LET left == q.todo \ {next}
                rest == IF left = {} THEN Idle ELSE [q EXCEPT !.todo = left]
                row == [hook |-> next[1], event |-> q.value, org |-> q.org, then |-> next[2],
                        queued |-> TRUE, replays |-> 0, answered |-> 0, astray |-> 0]
            IN  \/ /\ Len(sendings) < MaxSent
                   /\ sendings' = Append(sendings, row)
                   /\ Become(r, rest)
                \/ UNCHANGED sendings /\ Stumble(r, rest)
        /\ UNCHANGED <<hooks, made, agreed, tangled>>

\* WebhookDelivery brings it to an end.
SendingDone(d) ==
    /\ sendings[d].queued
    /\ sendings' = [sendings EXCEPT ![d].queued = FALSE]
    /\ UNCHANGED <<hooks, made, agreed, tangled, requestVars>>

-----------------------------------------------------------------------------
(* ReplayDelivery *)

HandleReplay(r, o, h, d) ==
    Begin(r, HookCall("path", o, h, "active", TRUE, d)) /\ UNCHANGED webhookVars

ReplayOwner(r) ==
    LET q == req[r]
    IN  /\ At(r, "path")
        /\ IF Webhook_FindByID(q.id) /\ IsOwner(q.id, q.org)
           THEN Goto(r, "replay") ELSE Finish(r)
        /\ UNCHANGED webhookVars

ReplayDelivery(r) ==
    /\ At(r, "replay")
    /\ IF CanBeReplayed(req[r].sending) THEN Goto(r, "reset") ELSE Finish(r)
    /\ UNCHANGED webhookVars

\* Whatever has become of the row meanwhile.
ReplayReset(r) ==
    LET q == req[r]
    IN  /\ At(r, "reset")
        /\ sendings' = [sendings EXCEPT ![q.sending].queued = TRUE,
                                        ![q.sending].replays = @ + 1]
        /\ Goto(r, "answer")
        /\ UNCHANGED <<hooks, made, agreed, tangled>>

\* Mutant of BelongsTo: the handler does not compare.
BelongsToAny(d, h) == TRUE

BelongsTo(d, h) == sendings[d].hook = h

\* Only now the handler compares the webhook of the delivery with that of the path.
ReplayAnswer(r) ==
    LET q == req[r]
    IN  /\ At(r, "answer")
        /\ sendings' = IF BelongsTo(q.sending, q.id)
                       THEN [sendings EXCEPT ![q.sending].answered = @ + 1]
                       ELSE [sendings EXCEPT ![q.sending].astray = @ + 1]
        /\ Finish(r)
        /\ UNCHANGED <<hooks, made, agreed, tangled>>

-----------------------------------------------------------------------------

WebhookHandlers(r) ==
    \E o \in Scopes :
        \/ \E u \in Urls : HandleCreateWebhook(r, o, u)
        \/ \E e \in HookEvents : HandleEvent(r, e, o)
        \/ \E h \in Hooks :
            \/ \E u \in Urls : HandleUpdateWebhook(r, o, h, "url", u)
            \/ \E e \in HookEvents : HandleUpdateWebhook(r, o, h, "event", e)
            \/ \E b \in BOOLEAN : HandleUpdateWebhook(r, o, h, "active", b)
            \/ HandleDeleteWebhook(r, o, h)
            \/ \E d \in DOMAIN sendings : HandleReplay(r, o, h, d)

WebhooksNext ==
    \/ \E r \in Slots :
        \/ WebhookHandlers(r)
        \/ CreateWebhook(r)
        \/ OwnerOfWebhook(r) \/ UpdateWebhook(r) \/ SaveWebhook(r)
        \/ OwnerBeforeDelete(r) \/ SoftDeleteWebhook(r)
        \/ DispatchEvent(r) \/ DispatchDelivery(r)
        \/ ReplayOwner(r) \/ ReplayDelivery(r) \/ ReplayReset(r) \/ ReplayAnswer(r)
        \/ Abort(r) /\ UNCHANGED webhookVars
    \/ \E d \in DOMAIN sendings : SendingDone(d)

-----------------------------------------------------------------------------
(* Properties *)

\* What a client of an organization is shown: a webhook, the list, the deliveries
\* of a webhook, one of them.
GetWebhook(o, h) == Webhook_FindByID(h) /\ IsOwner(h, o)
ListWebhooks(o) == Webhook_FindByOrgID(o)
ListDeliveries(o, h) ==
    IF GetWebhook(o, h) THEN {d \in DOMAIN sendings : sendings[d].hook = h} ELSE {}
GetDelivery(o, h, d) == GetWebhook(o, h) /\ BelongsTo(d, h)

\* The secret that signs what goes to a URL was generated for that URL, whatever
\* updates overlap; and the live webhooks of an organization have URLs of their
\* own, also after a save that brought a deleted one back.
SecretsFitUrls ==
    /\ \A h \in Hooks : <<h, hooks[h].url, hooks[h].secret>> \in made
    /\ \A o \in HookOrgs : \A g, h \in ListWebhooks(o) :
        hooks[g].url = hooks[h].url => g = h

\* An event goes to webhooks of its own organization and to global ones, that were
\* switched on and subscribed to it by the last request that was answered with
\* success, unless a request wrote the row while another held a copy of it.
EventsGoWhereWanted ==
    \A d \in DOMAIN sendings :
        /\ \/ hooks[sendings[d].hook].deleted
           \/ /\ d \in ListDeliveries(sendings[d].org, sendings[d].hook)
              /\ GetDelivery(sendings[d].org, sendings[d].hook, d)
        /\ sendings[d].hook \notin tangled =>
            /\ sendings[d].then.active /\ ~sendings[d].then.deleted
            /\ sendings[d].then.event = sendings[d].event

\* A replay is answered with success only when it was written and its path names
\* the webhook of the delivery; when all is quiet and nothing failed, each replay
\* written was answered, those under another webhook's path with "not found".
ReplaysAreAnswered ==
    \A d \in DOMAIN sendings :
        LET s == sendings[d]
        IN  /\ s.answered + s.astray <= s.replays
            /\ Quiet /\ faults = 0 => s.answered + s.astray = s.replays

WebhooksHold == SecretsFitUrls /\ EventsGoWhereWanted /\ ReplaysAreAnswered

WebhooksSpec == WebhooksInit /\ RequestsInit /\ [][WebhooksNext]_<<webhookVars, requestVars>>

-----------------------------------------------------------------------------
(* What is inductive, and gives these promises *)

\* The live rows of an organization have URLs of their own; a row has the secret that
\* was made for its URL, and is what was agreed unless requests overlapped.
HooksAreSound ==
    /\ \A h \in Hooks :
        /\ <<h, hooks[h].url, hooks[h].secret>> \in made
        /\ h \in tangled \/ agreed[h] = hooks[h]
    /\ \A g, h \in Hooks :
        hooks[g].org = hooks[h].org /\ hooks[g].url = hooks[h].url
            => \/ g = h \/ hooks[g].org = "global"
               \/ hooks[g].deleted \/ hooks[h].deleted

\* Webhook h was found for event e of organization o, when "row" was agreed.
WasWanted(h, row, e, o) ==
    /\ h \in Hooks /\ hooks[h].org \in {"global", o}
    /\ h \notin tangled => row.active /\ ~row.deleted /\ row.event = e

SendingsAreWanted ==
    \A d \in DOMAIN sendings :
        LET s == sendings[d] IN WasWanted(s.hook, s.then, s.event, s.org)

\* The replays of d that were written and wait for their response.
Answering(d) == {r \in Slots : At(r, "answer") /\ req[r].sending = d}

RepliesAreOwed ==
    \A d \in DOMAIN sendings :
        LET s == sendings[d]
        IN  Accounted(s.answered + s.astray, s.replays, Answering(d), faults)

\* A value of the field.
IsValueOf(field, value) ==
    \/ field = "url" /\ value \in Urls
    \/ field = "event" /\ value \in HookEvents
    \/ field = "active" /\ value \in BOOLEAN

\* What a request has learnt on its way.
KnowsItsHook(q) ==
    /\ q.pc = "create" => q.value \in Urls
    /\ q.pc \in {"find", "deliver"} => q.value \in HookEvents
    /\ q.pc \notin {"idle", "create", "find", "deliver"} => q.id \in Hooks
    /\ q.pc \in {"owner", "update", "save"} => IsValueOf(q.field, q.value)
    /\ q.pc \in {"path", "replay", "reset", "answer"} => q.sending \in DOMAIN sendings
    /\ q.pc = "deliver" => \A x \in q.todo : WasWanted(x[1], x[2], q.value, q.org)
    /\ q.pc = "save" =>
        /\ q.copy # <<>> /\ ~q.copy[1].deleted /\ q.copy[1].org = hooks[q.id].org
        /\ <<q.id, q.copy[1].url, q.copy[1].secret>> \in made
        /\ q.id \in tangled \/ q.copy[1] = hooks[q.id]

WebhooksInv ==
    /\ WebhooksTypeOK /\ HooksAreSound /\ SendingsAreWanted /\ RepliesAreOwed
    /\ \A r \in Slots : KnowsItsHook(req[r])
=============================================================================
