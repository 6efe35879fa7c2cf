---------------------------- MODULE WebSocketHub ----------------------------
(***************************************************************************)
(* The WebSocket connections of one process: service/websocket_hub.go,     *)
(* websocket_client.go, websocket_redis.go, websocket_presence.go and the  *)
(* handler that accepts a connection.                                      *)
(*                                                                         *)
(* A connection has a read pump and a write pump; the hub's own goroutine  *)
(* takes what they hand it from three channels.  The rooms are guarded by  *)
(* a lock, the reference counts of the Redis subscriptions by another, and *)
(* Redis is called after both are released.  All connections belong to one *)
(* user (several tabs), so the presence of the user is one counter and one *)
(* membership in Redis.  A message is the room it is for.                  *)
(***************************************************************************)
EXTENDS Integers, Sequences, FiniteSets

CONSTANTS
    Clients,        \* connections
    Rooms,          \* rooms they may join
    NoClient, NoRoom,
    ChanCap,        \* capacity of the hub's three channels
    SendBuffer,     \* capacity of a connection's Send channel
    MaxRooms,       \* rooms a connection may be in (config)
    MaxRefs,        \* bound: no join once a room counts so many references
    MaxMessages,    \* bound: messages published to rooms
    MaxHubFaults       \* bound: failed Redis commands

ASSUME HubBoundsAssumption ==
    /\ ChanCap \in Nat \ {0} /\ SendBuffer \in Nat \ {0} /\ MaxRooms \in Nat \ {0}
    /\ MaxRefs \in Nat /\ MaxMessages \in Nat /\ MaxHubFaults \in Nat
ASSUME HubNamesAssumption == NoClient \notin Clients /\ NoRoom \notin Rooms
ASSUME HubClientsAssumption == IsFiniteSet(Clients)

VARIABLES
    conn,           \* the connection: new, open, dead
    reader, at,     \* the read pump: where it is, and the room it works on
    writer,         \* the write pump
    left,           \* connections whose handler has returned
    clients,        \* Hub.clients
    rooms,          \* Hub.rooms: the members of each room
    mine,           \* Client.Rooms
    mail,           \* messages in each Send channel
    closed,         \* connections whose Send channel is closed
    regs, unregs, casts,    \* Hub.register, unregister, broadcast
    hub,            \* the hub's goroutine: [pc, c, todo, r]
    refs,           \* RedisPubSub.subscriptions
    subscribed,     \* rooms this process is subscribed to in Redis
    wire,           \* rooms with a message on its way back from Redis
    count, online,  \* presence of the user in Redis: connections, membership
    phase,          \* up, stopping (Run has returned), down
    sent, hubFaults,   \* counters of the bounds
    lost            \* history: connections of which a full channel lost a call, or
                    \* whose ends were both taken before their beginning

pumps == <<conn, reader, at, writer, left>>
members == <<clients, rooms, mine>>
channels == <<regs, unregs, casts>>
redis == <<refs, subscribed, wire>>
presence == <<count, online>>
hubVars == <<pumps, members, mail, closed, channels, hub, redis, presence,
             phase, sent, hubFaults, lost>>

HubPC == {"select", "online", "unsubscribe", "unsubscribing", "offline", "stopped"}
Select == [pc |-> "select", c |-> NoClient, todo |-> {}, r |-> NoRoom]

HubTypeOK ==
    /\ conn \in [Clients -> {"new", "open", "dead"}]
    /\ reader \in [Clients -> {"none", "read", "subscribe", "subscribing",
                               "unsubscribe", "unsubscribing", "gone"}]
    /\ at \in [Clients -> Rooms \cup {NoRoom}]
    /\ writer \in [Clients -> {"none", "run", "gone"}]
    /\ left \subseteq Clients /\ clients \subseteq Clients
    /\ closed \subseteq Clients /\ lost \subseteq Clients
    /\ rooms \in [Rooms -> SUBSET Clients]
    /\ mine \in [Clients -> SUBSET Rooms]
    /\ mail \in [Clients -> 0..SendBuffer]
    /\ regs \in Seq(Clients) /\ unregs \in Seq(Clients) /\ casts \in Seq(Rooms)
    /\ Len(regs) <= ChanCap /\ Len(unregs) <= ChanCap /\ Len(casts) <= ChanCap
    /\ hub \in [pc : HubPC, c : Clients \cup {NoClient}, todo : SUBSET Rooms,
                r : Rooms \cup {NoRoom}]
    /\ refs \in [Rooms -> Nat]
    /\ subscribed \subseteq Rooms /\ wire \subseteq Rooms
    /\ count \in Int /\ online \in BOOLEAN
    /\ phase \in {"up", "stopping", "down"}
    /\ sent \in 0..MaxMessages /\ hubFaults \in 0..MaxHubFaults

HubInit ==
    /\ conn = [c \in Clients |-> "new"]
    /\ reader = [c \in Clients |-> "none"] /\ at = [c \in Clients |-> NoRoom]
    /\ writer = [c \in Clients |-> "none"]
    /\ left = {} /\ clients = {} /\ closed = {} /\ lost = {}
    /\ rooms = [r \in Rooms |-> {}] /\ mine = [c \in Clients |-> {}]
    /\ mail = [c \in Clients |-> 0]
    /\ regs = <<>> /\ unregs = <<>> /\ casts = <<>>
    /\ hub = Select
    /\ refs = [r \in Rooms |-> 0] /\ subscribed = {} /\ wire = {}
    /\ count = 0 /\ online = FALSE
    /\ phase = "up" /\ sent = 0 /\ hubFaults = 0

-----------------------------------------------------------------------------
(* Shared pieces *)

Reader(c, label, r) ==
    /\ reader' = [reader EXCEPT ![c] = label]
    /\ at' = [at EXCEPT ![c] = r]

\* A send that gives up when the Send channel is full.
SendTo(receivers) ==
    mail' = [c \in Clients |->
               IF c \in receivers /\ mail[c] < SendBuffer THEN mail[c] + 1 ELSE mail[c]]

Fault == hubFaults < MaxHubFaults /\ hubFaults' = hubFaults + 1

\* A send on a channel of the hub gives up when the channel is full.
Register(c) ==
    IF Len(regs) < ChanCap
    THEN regs' = Append(regs, c) /\ UNCHANGED lost
    ELSE lost' = lost \cup {c} /\ UNCHANGED regs
Unregister(c) ==
    IF Len(unregs) < ChanCap
    THEN unregs' = Append(unregs, c) /\ UNCHANGED lost
    ELSE lost' = lost \cup {c} /\ UNCHANGED unregs

\* The broadcast channel first, then Redis, which sends the message to every
\* process that is subscribed, this one too.
PublishToRoom(r) ==
    /\ casts' = IF Len(casts) < ChanCap THEN Append(casts, r) ELSE casts
    /\ wire' = IF r \in subscribed THEN wire \cup {r} ELSE wire

\* The rooms of which c is the last member.
Emptied(c, of) == {r \in of : rooms[r] = {c}}

\* The rooms without c.
\* Mutant of Without: the client only goes where its room does.
WithoutIfLast(c) == [r \in Rooms |-> IF r \in mine[c] /\ rooms[r] = {c} THEN {} ELSE rooms[r]]
Without(c) == [r \in Rooms |-> IF r \in mine[c] THEN rooms[r] \ {c} ELSE rooms[r]]

\* Mutant of Released: the first to release takes all references.
ReleasedAll(r) == [refs EXCEPT ![r] = 0]
\* One reference less.
Released(r) == [refs EXCEPT ![r] = IF @ = 0 THEN 0 ELSE @ - 1]

\* The last reference takes the subscription with it.
LastReference(r) == refs[r] = 1

-----------------------------------------------------------------------------
(* Connections *)

\* HandleUpgrade: accept, hand the client to the hub, start its pumps.
Connect(c) ==
    /\ conn[c] = "new" /\ phase = "up"
    /\ conn' = [conn EXCEPT ![c] = "open"]
    /\ reader' = [reader EXCEPT ![c] = "read"]
    /\ writer' = [writer EXCEPT ![c] = "run"]
    /\ Register(c)
    /\ UNCHANGED <<at, left, members, mail, closed, unregs, casts, hub, redis, presence,
                   phase, sent, hubFaults>>

\* The peer or the network closes the connection.
PeerGone(c) ==
    /\ conn[c] = "open"
    /\ conn' = [conn EXCEPT ![c] = "dead"]
    /\ UNCHANGED <<reader, at, writer, left, members, mail, closed, channels, hub, redis,
                   presence, phase, sent, hubFaults, lost>>

Reading(c) == reader[c] = "read" /\ conn[c] = "open"

\* JoinRoom, under the lock ...
JoinRoom(c, r) ==
    /\ Reading(c) /\ refs[r] < MaxRefs
    /\ Cardinality(mine[c]) < MaxRooms
    /\ rooms' = [rooms EXCEPT ![r] = @ \cup {c}]
    /\ mine' = [mine EXCEPT ![c] = @ \cup {r}]
    /\ Reader(c, "subscribe", r)
    /\ UNCHANGED <<conn, writer, left, clients, mail, closed, channels, hub, redis, presence,
                   phase, sent, hubFaults, lost>>

\* ... the reference, under the other lock ...
Subscribe(c) ==
    /\ reader[c] = "subscribe"
    /\ refs' = [refs EXCEPT ![at[c]] = @ + 1]
    /\ IF refs[at[c]] = 0
       THEN Reader(c, "subscribing", at[c]) /\ UNCHANGED mail
       ELSE Reader(c, "read", NoRoom) /\ SendTo({c})
    /\ UNCHANGED <<conn, writer, left, members, closed, channels, hub, subscribed, wire,
                   presence, phase, sent, hubFaults, lost>>

\* ... and Redis.
RedisSubscribe(c) ==
    /\ reader[c] = "subscribing"
    /\ subscribed' = subscribed \cup {at[c]}
    /\ Reader(c, "read", NoRoom) /\ SendTo({c})
    /\ UNCHANGED <<conn, writer, left, members, closed, channels, hub, refs, wire, presence,
                   phase, sent, hubFaults, lost>>

\* LeaveRoom, under the lock ...
LeaveRoom(c, r) ==
    /\ Reading(c)
    /\ rooms' = [rooms EXCEPT ![r] = @ \ {c}]
    /\ mine' = [mine EXCEPT ![c] = @ \ {r}]
    /\ IF Emptied(c, {r}) # {}
       THEN Reader(c, "unsubscribe", r) /\ UNCHANGED mail
       ELSE SendTo({c}) /\ UNCHANGED <<reader, at>>
    /\ UNCHANGED <<conn, writer, left, clients, closed, channels, hub, redis, presence,
                   phase, sent, hubFaults, lost>>

\* ... the reference ...
Unsubscribe(c) ==
    /\ reader[c] = "unsubscribe"
    /\ refs' = Released(at[c])
    /\ IF LastReference(at[c])
       THEN Reader(c, "unsubscribing", at[c]) /\ UNCHANGED mail
       ELSE Reader(c, "read", NoRoom) /\ SendTo({c})
    /\ UNCHANGED <<conn, writer, left, members, closed, channels, hub, subscribed, wire,
                   presence, phase, sent, hubFaults, lost>>

\* ... and Redis.
RedisUnsubscribe(c) ==
    /\ reader[c] = "unsubscribing"
    /\ subscribed' = subscribed \ {at[c]}
    /\ Reader(c, "read", NoRoom) /\ SendTo({c})
    /\ UNCHANGED <<conn, writer, left, members, closed, channels, hub, refs, wire, presence,
                   phase, sent, hubFaults, lost>>

\* handleTyping, for whatever room the client names.
Typing(c, r) ==
    /\ Reading(c) /\ sent < MaxMessages
    /\ sent' = sent + 1
    /\ PublishToRoom(r)
    /\ UNCHANGED <<pumps, members, mail, closed, regs, unregs, hub, refs, subscribed,
                   presence, phase, hubFaults, lost>>

\* A heartbeat, which keeps the counter of the user from expiring, a text that is
\* no message, a type that is none, or a room whose name is not valid: an answer
\* for the sender at most.
Answered(c) ==
    /\ Reading(c) /\ SendTo({c})
    /\ UNCHANGED <<pumps, members, closed, channels, hub, redis, presence, phase, sent,
                   hubFaults, lost>>

\* One message of the client, by its type.
HandleMessage(c) ==
    \/ \E r \in Rooms : JoinRoom(c, r) \/ LeaveRoom(c, r) \/ Typing(c, r)
    \/ Answered(c)

\* The read pump ends when the connection does, and says so.
ReadError(c) ==
    /\ reader[c] = "read" /\ conn[c] = "dead"
    /\ Unregister(c)
    /\ Reader(c, "gone", NoRoom)
    /\ UNCHANGED <<conn, writer, left, members, mail, closed, regs, casts, hub, redis,
                   presence, phase, sent, hubFaults>>

\* The write pump writes, or ends because it cannot.
Write(c) ==
    /\ writer[c] = "run" /\ mail[c] > 0
    /\ mail' = [mail EXCEPT ![c] = @ - 1]
    /\ \/ conn[c] = "open" /\ UNCHANGED <<conn, writer>>
       \/ /\ conn' = [conn EXCEPT ![c] = "dead"]
          /\ writer' = [writer EXCEPT ![c] = "gone"]
    /\ UNCHANGED <<reader, at, left, members, closed, channels, hub, redis, presence,
                   phase, sent, hubFaults, lost>>

\* The write pump ends because Send is closed.
WriterClose(c) ==
    /\ writer[c] = "run" /\ mail[c] = 0 /\ c \in closed
    /\ conn' = [conn EXCEPT ![c] = "dead"]
    /\ writer' = [writer EXCEPT ![c] = "gone"]
    /\ UNCHANGED <<reader, at, left, members, mail, closed, channels, hub, redis, presence,
                   phase, sent, hubFaults, lost>>

\* Mutant of HandlerReturn: the read pump has unregistered the client.
HandlerReturnOnly(c) ==
    /\ reader[c] = "gone" /\ writer[c] = "gone" /\ c \notin left
    /\ left' = left \cup {c}
    /\ UNCHANGED <<conn, reader, at, writer, members, mail, closed, channels, hub, redis,
                   presence, phase, sent, hubFaults, lost>>

\* Both pumps are over: the handler unregisters the client once more.
HandlerReturn(c) ==
    /\ reader[c] = "gone" /\ writer[c] = "gone" /\ c \notin left
    /\ left' = left \cup {c}
    /\ Unregister(c)
    /\ UNCHANGED <<conn, reader, at, writer, members, mail, closed, regs, casts, hub, redis,
                   presence, phase, sent, hubFaults>>

-----------------------------------------------------------------------------
(* Hub.Run; select takes from any channel that has something *)

HubRegister ==
    /\ hub.pc = "select" /\ regs # <<>>
    /\ regs' = Tail(regs)
    /\ clients' = clients \cup {Head(regs)}
    /\ SendTo({Head(regs)})
    /\ hub' = [Select EXCEPT !.pc = "online", !.c = Head(regs)]
    /\ UNCHANGED <<pumps, rooms, mine, closed, unregs, casts, redis, presence, phase, sent,
                   hubFaults, lost>>

\* MarkOnline: INCR, and SADD for the first connection.
MarkOnline ==
    /\ hub.pc = "online"
    /\ hub' = Select
    /\ \/ Fault /\ UNCHANGED presence
       \/ /\ count' = count + 1
          /\ \/ online' = (online \/ count' = 1) /\ UNCHANGED hubFaults
             \/ count' = 1 /\ Fault /\ UNCHANGED online
    /\ UNCHANGED <<pumps, members, mail, closed, channels, redis, phase, sent, lost>>

Waiting(c, ch) == \E i \in DOMAIN ch : ch[i] = c
AfterRoom(rest) == IF rest = {} THEN "offline" ELSE "unsubscribe"

HubUnregister ==
    /\ hub.pc = "select" /\ unregs # <<>>
    /\ unregs' = Tail(unregs)
    /\ LET c == Head(unregs)
           todo == IF c \in clients THEN Emptied(c, mine[c]) ELSE {}
       IN  /\ IF c \in clients
              THEN /\ rooms' = Without(c)
                   /\ clients' = clients \ {c}
                   /\ closed' = closed \cup {c}
              ELSE UNCHANGED <<rooms, clients, closed>>
           /\ hub' = [pc |-> AfterRoom(todo), c |-> c, todo |-> todo, r |-> NoRoom]
           /\ lost' = IF c \in left /\ Waiting(c, regs) THEN lost \cup {c} ELSE lost
    /\ UNCHANGED <<pumps, mine, mail, regs, casts, redis, presence, phase, sent, hubFaults>>

\* RedisPubSub.Unsubscribe for the next of the rooms that were left empty.
HubUnsubscribe(r) ==
    /\ hub.pc = "unsubscribe" /\ r \in hub.todo
    /\ refs' = Released(r)
    /\ LET rest == hub.todo \ {r}
       IN  hub' = IF LastReference(r)
                  THEN [hub EXCEPT !.pc = "unsubscribing", !.todo = rest, !.r = r]
                  ELSE [hub EXCEPT !.pc = AfterRoom(rest), !.todo = rest]
    /\ UNCHANGED <<pumps, members, mail, closed, channels, subscribed, wire, presence, phase,
                   sent, hubFaults, lost>>

HubRedisUnsubscribe ==
    /\ hub.pc = "unsubscribing"
    /\ subscribed' = subscribed \ {hub.r}
    /\ hub' = [hub EXCEPT !.pc = AfterRoom(hub.todo), !.r = NoRoom]
    /\ UNCHANGED <<pumps, members, mail, closed, channels, refs, wire, presence, phase, sent,
                   hubFaults, lost>>

\* Mutant of LastConnection: result < 0 for result <= 0.
BelowZero == count < 1
LastConnection == count <= 1

\* MarkOffline: DECR, and for the last connection DEL and SREM, each of which
\* may fail.
MarkOffline ==
    /\ hub.pc = "offline"
    /\ hub' = Select
    /\ \/ Fault /\ UNCHANGED presence
       \/ ~LastConnection /\ count' = count - 1 /\ UNCHANGED <<online, hubFaults>>
       \/ \E del, srem \in {0, 1} :
            /\ LastConnection
            /\ hubFaults' = hubFaults + del + srem /\ hubFaults' <= MaxHubFaults
            /\ count' = IF del = 0 THEN 0 ELSE count - 1
            /\ online' = (online /\ srem = 1)
    /\ UNCHANGED <<pumps, members, mail, closed, channels, redis, phase, sent, lost>>

\* The counter expires when no heartbeat renews it; the membership does not.
ExpireCount ==
    /\ count # 0 /\ count' = 0
    /\ UNCHANGED <<pumps, members, mail, closed, channels, hub, redis, online, phase, sent,
                   hubFaults, lost>>

HubBroadcast ==
    /\ hub.pc = "select" /\ casts # <<>>
    /\ casts' = Tail(casts)
    /\ SendTo(rooms[Head(casts)])
    /\ UNCHANGED <<pumps, members, closed, regs, unregs, hub, redis, presence, phase, sent,
                   hubFaults, lost>>

-----------------------------------------------------------------------------
(* Messages from elsewhere, and the end *)

\* An event of the bus, for the room of its organization or its entity.
Event(r) ==
    /\ phase = "up" /\ sent < MaxMessages
    /\ sent' = sent + 1
    /\ PublishToRoom(r)
    /\ UNCHANGED <<pumps, members, mail, closed, regs, unregs, hub, refs, subscribed,
                   presence, phase, hubFaults, lost>>

\* receiveLoop: what Redis delivers is published to the room.
Receive(r) ==
    /\ r \in wire /\ phase = "up"
    /\ casts' = IF Len(casts) < ChanCap THEN Append(casts, r) ELSE casts
    /\ wire' = IF r \in subscribed THEN wire ELSE wire \ {r}
    /\ UNCHANGED <<pumps, members, mail, closed, regs, unregs, hub, refs, subscribed,
                   presence, phase, sent, hubFaults, lost>>

\* Redis drops a message, or a PUBLISH fails.
LoseMessage(r) ==
    /\ r \in wire /\ wire' = wire \ {r}
    /\ UNCHANGED <<pumps, members, mail, closed, channels, hub, refs, subscribed, presence,
                   phase, sent, hubFaults, lost>>

\* main cancels the context: Run returns when it next selects ...
Cancel ==
    /\ phase = "up" /\ hub.pc = "select"
    /\ phase' = "stopping"
    /\ hub' = [Select EXCEPT !.pc = "stopped"]
    /\ UNCHANGED <<pumps, members, mail, closed, channels, redis, presence, sent, hubFaults,
                   lost>>

\* ... and Stop says goodbye to the clients that are left; the process ends.
Stop ==
    /\ phase = "stopping" /\ phase' = "down"
    /\ SendTo(clients)
    /\ UNCHANGED <<pumps, members, closed, channels, hub, redis, presence, sent, hubFaults, lost>>

ClientStep(c) ==
    \/ Subscribe(c) \/ RedisSubscribe(c) \/ Unsubscribe(c) \/ RedisUnsubscribe(c)
    \/ ReadError(c) \/ Write(c) \/ WriterClose(c) \/ HandlerReturn(c)

HubStep ==
    \/ HubRegister \/ MarkOnline \/ HubUnregister \/ (\E r \in Rooms : HubUnsubscribe(r))
    \/ HubRedisUnsubscribe \/ MarkOffline \/ HubBroadcast

HubNext ==
    /\ phase # "down"
    /\ \/ \E c \in Clients :
            \/ Connect(c) \/ PeerGone(c) \/ ClientStep(c) \/ HandleMessage(c)
       \/ HubStep
       \/ \E r \in Rooms : Event(r) \/ Receive(r) \/ LoseMessage(r)
       \/ Cancel \/ Stop \/ ExpireCount

HubSpec == HubInit /\ [][HubNext]_hubVars

-----------------------------------------------------------------------------
(* Properties *)

\* Nothing is sent on a closed Send channel and none is closed twice: a
\* connection whose channel is closed is in no room, not among the clients
\* that Unregister may close or Stop write to, its read pump (which answers
\* joins and leaves) is over, and it is not about to be greeted.
SendStaysOpen ==
    \A c \in closed :
        /\ c \notin clients /\ \A r \in Rooms : c \notin rooms[r]
        /\ reader[c] = "gone"
        /\ ~Waiting(c, regs)

\* The read pumps and the hub that are about to release a reference to r, and
\* whether a read pump is about to take one.
Leaving(r) == {c \in Clients : reader[c] = "unsubscribe" /\ at[c] = r}
Ending(r) == Cardinality(Leaving(r)) + IF r \in hub.todo THEN 1 ELSE 0
Joining(r) == \E c \in Clients : reader[c] = "subscribe" /\ at[c] = r

\* A room with members keeps a reference to its subscription, whatever the
\* order in which joins and leaves get from the lock of the hub to the lock of
\* the subscriber: references are only missing while a join is on its way.
RoomsAreCounted ==
    /\ HubTypeOK
    /\ \A r \in Rooms :
        refs[r] >= Ending(r) + IF rooms[r] = {} \/ Joining(r) THEN 0 ELSE 1

\* A user who is shown online has a connection that the hub has not finished
\* with, although every connection is reported gone twice, possibly before it
\* was reported there, and its counter may expire (as long as Redis answers).
OnlineIsConnected ==
    online /\ hubFaults = 0 => \E c \in Clients : c \in clients \/ hub.c = c

\* A connection that is gone is forgotten.  Once no channel of the hub holds
\* anything about it, it is in no room and not among the clients if its handler
\* has returned, and until then its write pump has a reason to end - also when
\* the first of its two ends was taken before its beginning.  What was lost to
\* a full channel is excepted, and so is a connection whose ends were both
\* taken first: the hub keeps that one.
Pending(c) == hub.c = c \/ Waiting(c, regs) \/ Waiting(c, unregs)
GoneConnectionsAreReleased ==
    \A c \in Clients :
        reader[c] = "gone" /\ ~Pending(c) /\ c \notin lost =>
            IF c \in left
            THEN c \notin clients /\ \A r \in Rooms : c \notin rooms[r]
            ELSE writer[c] = "gone" \/ mail[c] > 0 \/ c \in closed

\* The maps of the hub agree with the connections there are: RoomsAreCounted and
\* OnlineIsConnected.
RegistriesAgree == RoomsAreCounted /\ OnlineIsConnected

-----------------------------------------------------------------------------
(* What makes the properties inductive *)

NoneTwice(ch) == \A i, j \in DOMAIN ch : ch[i] = ch[j] => i = j

\* A connection is handed to the hub once, when it is accepted, and its ends only
\* after its read pump is over.
HandedOnce ==
    /\ \A c \in Clients :
         /\ conn[c] = "new" =>
              /\ reader[c] = "none" /\ writer[c] = "none" /\ c \notin left \cup clients
              /\ ~Waiting(c, regs) /\ ~Waiting(c, unregs)
         /\ Waiting(c, regs) => c \notin clients
         /\ Waiting(c, unregs) \/ c \in left => reader[c] = "gone"
         /\ reader[c] = "gone" => conn[c] = "dead"
    /\ NoneTwice(regs)

\* The two maps of the rooms agree, and a read pump that works on a room has one;
\* until it has taken its reference, a connection that joins stays in the room.
RoomsAgree ==
    /\ \A c \in Clients, r \in Rooms : c \in rooms[r] => r \in mine[c]
    /\ \A c \in Clients :
         /\ reader[c] \in {"subscribe", "subscribing", "unsubscribe", "unsubscribing"} =>
              at[c] \in Rooms
         /\ reader[c] = "subscribe" => c \in rooms[at[c]]

\* The hub only has rooms to release while it is releasing them, and no connection
\* in its hands while it selects.
Releasing == hub.pc \in {"unsubscribe", "unsubscribing", "offline"}
RestIsDone ==
    /\ hub.pc \notin {"unsubscribe", "unsubscribing"} => hub.todo = {}
    /\ hub.pc = "select" => hub = Select

\* The counter of the user is at most the number of connections the hub has, where
\* the one it is at counts until it is done with it.
CountFits ==
    /\ hub.pc = "online" => hub.c \in clients
    /\ Releasing => hub.c \in Clients
    /\ hubFaults = 0 =>
         count <= Cardinality(clients)
                    + (IF Releasing THEN 1 ELSE IF hub.pc = "online" THEN -1 ELSE 0)

\* What the hub was told of a connection it has carried out or will: one that it
\* was told of and has not closed it has or will have, and of a gone one that it
\* has, or will have, it will hear, or has the write pump to end first.
GoneIsKnown ==
    \A c \in Clients \ lost :
        /\ conn[c] # "new" => Waiting(c, regs) \/ c \in clients \cup closed
        /\ c \in left /\ (Waiting(c, regs) \/ c \in clients) => Waiting(c, unregs)
        /\ reader[c] = "gone" /\ c \in clients \ left =>
              Waiting(c, unregs) \/ writer[c] = "gone" \/ mail[c] > 0

HubInv ==
    /\ HubTypeOK /\ HandedOnce /\ RoomsAgree /\ SendStaysOpen
    /\ RestIsDone /\ CountFits /\ GoneIsKnown /\ RegistriesAgree
=============================================================================
