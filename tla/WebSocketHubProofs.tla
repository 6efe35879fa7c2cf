-------------------------- MODULE WebSocketHubProofs --------------------------
(***************************************************************************)
(* Proofs about WebSocketHub, for any number of connections and rooms and  *)
(* any capacities.                                                         *)
(***************************************************************************)
EXTENDS WebSocketHub, FiniteSetTheorems, TLAPS

-----------------------------------------------------------------------------
(* The channels of the hub *)

\* A channel that takes d has what it had and d.
LEMMA WaitingAppend ==
    ASSUME NEW ch \in Seq(Clients), NEW d \in Clients, NEW c
    PROVE  Waiting(c, Append(ch, d)) <=> Waiting(c, ch) \/ c = d
<1>1. ASSUME Waiting(c, ch) PROVE Waiting(c, Append(ch, d))
  BY <1>1 DEF Waiting
<1>2. Waiting(d, Append(ch, d))
  <2>1. Len(ch) + 1 \in DOMAIN Append(ch, d) /\ Append(ch, d)[Len(ch) + 1] = d
    OBVIOUS
  <2> QED BY <2>1 DEF Waiting
<1>3. ASSUME Waiting(c, Append(ch, d)), c # d PROVE Waiting(c, ch)
  BY <1>3 DEF Waiting
<1> QED BY <1>1, <1>2, <1>3

\* A channel has its head and what is left without it.
LEMMA WaitingTail ==
    ASSUME NEW ch \in Seq(Clients), ch # <<>>, NEW c
    PROVE  Waiting(c, ch) <=> Waiting(c, Tail(ch)) \/ c = Head(ch)
<1>1. ASSUME Waiting(c, Tail(ch)) PROVE Waiting(c, ch)
  <2>1. PICK i \in DOMAIN Tail(ch) : Tail(ch)[i] = c
    BY <1>1 DEF Waiting
  <2>2. i + 1 \in DOMAIN ch /\ ch[i + 1] = c
    BY <2>1
  <2> QED BY <2>2 DEF Waiting
<1>2. Waiting(Head(ch), ch)
  <2>1. 1 \in DOMAIN ch /\ ch[1] = Head(ch)
    OBVIOUS
  <2> QED BY <2>1 DEF Waiting
<1>3. ASSUME Waiting(c, ch), c # Head(ch) PROVE Waiting(c, Tail(ch))
  <2>1. PICK i \in DOMAIN ch : ch[i] = c
    BY <1>3 DEF Waiting
  <2>2. i # 1
    BY <1>3, <2>1
  <2>3. i - 1 \in DOMAIN Tail(ch) /\ Tail(ch)[i - 1] = c
    BY <2>1, <2>2
  <2> QED BY <2>3 DEF Waiting
<1> QED BY <1>1, <1>2, <1>3

\* A channel that holds nobody twice does not after a client it did not hold, and
\* without its head no longer holds the head.
LEMMA NoneTwiceKept ==
    ASSUME NEW ch \in Seq(Clients), NoneTwice(ch)
    PROVE  /\ \A d \in Clients : ~Waiting(d, ch) => NoneTwice(Append(ch, d))
           /\ ch # <<>> => NoneTwice(Tail(ch)) /\ ~Waiting(Head(ch), Tail(ch))
<1>1. ASSUME NEW d \in Clients, ~Waiting(d, ch) PROVE NoneTwice(Append(ch, d))
  BY <1>1 DEF NoneTwice, Waiting
<1>2. ASSUME ch # <<>> PROVE NoneTwice(Tail(ch))
  <2> SUFFICES ASSUME NEW i \in DOMAIN Tail(ch), NEW j \in DOMAIN Tail(ch),
                      Tail(ch)[i] = Tail(ch)[j]
               PROVE  i = j
    BY DEF NoneTwice
  <2>1. i + 1 \in DOMAIN ch /\ j + 1 \in DOMAIN ch /\ ch[i + 1] = ch[j + 1]
    BY <1>2
  <2>2. i + 1 = j + 1
    BY <2>1 DEF NoneTwice
  <2> QED BY <2>2, <1>2
<1>3. ASSUME ch # <<>>, Waiting(Head(ch), Tail(ch)) PROVE FALSE
  <2>1. PICK i \in DOMAIN Tail(ch) : Tail(ch)[i] = Head(ch)
    BY <1>3 DEF Waiting
  <2>2. i \in Nat \ {0} /\ i + 1 \in DOMAIN ch /\ ch[i + 1] = ch[1] /\ 1 \in DOMAIN ch
    BY <2>1, <1>3
  <2> QED BY <2>2 DEF NoneTwice
<1> QED BY <1>1, <1>2, <1>3

-----------------------------------------------------------------------------
(* The steps that matter to the maps of the hub *)

\* A step that moves no connection, room or reference: messages travel, or the
\* counter of the user expires.
CalmStep ==
    /\ UNCHANGED <<pumps, members, closed, regs, unregs, lost, hub, refs, online, hubFaults>>
    /\ count' \in {count, 0}
    /\ \A c \in Clients : mail'[c] >= mail[c]

\* What the read pump of one connection does.
PumpStep(c) ==
    \/ Connect(c) \/ PeerGone(c) \/ Subscribe(c) \/ RedisSubscribe(c) \/ Unsubscribe(c)
    \/ RedisUnsubscribe(c) \/ ReadError(c) \/ Write(c) \/ WriterClose(c) \/ HandlerReturn(c)
    \/ \E r \in Rooms : JoinRoom(c, r) \/ LeaveRoom(c, r)

\* A greeting, an answer or a broadcast takes nothing out of a Send channel.
LEMMA SendOnlyAdds ==
    ASSUME HubTypeOK, NEW receivers, SendTo(receivers)
    PROVE  /\ mail' \in [Clients -> 0..SendBuffer]
           /\ \A c \in Clients : mail'[c] >= mail[c]
           /\ \A c \in receivers \cap Clients : mail'[c] > 0
BY HubBoundsAssumption DEF HubTypeOK, SendTo

\* Every step is calm, or one of a connection, or one of the hub.
LEMMA HubSteps ==
    ASSUME HubTypeOK, [HubNext]_hubVars
    PROVE  \/ CalmStep
           \/ \E c \in Clients : PumpStep(c)
           \/ HubRegister \/ MarkOnline \/ HubUnregister
           \/ \E r \in Rooms : HubUnsubscribe(r)
           \/ HubRedisUnsubscribe \/ MarkOffline \/ Cancel
<1>1. mail \in [Clients -> 0..SendBuffer] /\ SendBuffer \in Nat
  BY HubBoundsAssumption DEF HubTypeOK
<1>2. CASE UNCHANGED hubVars
  BY <1>1, <1>2 DEF hubVars, CalmStep, pumps, members, channels, redis, presence
<1>3. ASSUME NEW c \in Clients, Answered(c) PROVE CalmStep
  BY <1>3, SendOnlyAdds DEF Answered, CalmStep, channels, redis, presence
<1>4. ASSUME NEW c \in Clients, NEW r \in Rooms, Typing(c, r) PROVE CalmStep
  BY <1>1, <1>4 DEF Typing, CalmStep, presence
<1>5. ASSUME NEW r \in Rooms, Event(r) \/ Receive(r) \/ LoseMessage(r) PROVE CalmStep
  BY <1>1, <1>5 DEF Event, Receive, LoseMessage, CalmStep, presence, channels
<1>6. CASE HubBroadcast
  BY <1>6, SendOnlyAdds DEF HubBroadcast, CalmStep, redis, presence
<1>7. CASE Stop
  BY <1>7, SendOnlyAdds DEF Stop, CalmStep, channels, redis, presence
<1>8. CASE ExpireCount
  BY <1>1, <1>8 DEF ExpireCount, CalmStep, channels, redis
<1> QED
  BY <1>2, <1>3, <1>4, <1>5, <1>6, <1>7, <1>8
  DEF HubNext, ClientStep, HandleMessage, HubStep, PumpStep

-----------------------------------------------------------------------------
(* Types *)

\* The hub's goroutine only has a client and rooms of its own in its hands.
LEMMA HandsAreTyped ==
    ASSUME HubTypeOK
    PROVE  /\ Select \in [pc : HubPC, c : Clients \cup {NoClient}, todo : SUBSET Rooms,
                          r : Rooms \cup {NoRoom}]
           /\ \A c \in Clients, todo \in SUBSET Rooms :
                [pc |-> AfterRoom(todo), c |-> c, todo |-> todo, r |-> NoRoom] \in
                  [pc : HubPC, c : Clients \cup {NoClient}, todo : SUBSET Rooms,
                   r : Rooms \cup {NoRoom}]
BY DEF Select, AfterRoom, HubPC

\* Taking back a reference leaves a number of references.
LEMMA ReleasedIsTyped ==
    ASSUME refs \in [Rooms -> Nat], NEW r \in Rooms
    PROVE  Released(r) \in [Rooms -> Nat]
BY DEF Released

\* What the hub is told and what is lost of it are connections.
LEMMA ToldIsTyped ==
    ASSUME HubTypeOK, NEW c \in Clients
    PROVE  /\ Register(c) => regs' \in Seq(Clients) /\ Len(regs') <= ChanCap
                             /\ lost' \subseteq Clients
           /\ Unregister(c) => unregs' \in Seq(Clients) /\ Len(unregs') <= ChanCap
                               /\ lost' \subseteq Clients
<1>1. regs \in Seq(Clients) /\ unregs \in Seq(Clients) /\ lost \subseteq Clients /\ ChanCap \in Nat
      /\ Len(regs) <= ChanCap /\ Len(unregs) <= ChanCap
  BY HubBoundsAssumption DEF HubTypeOK
<1>2. ASSUME Register(c)
      PROVE  regs' \in Seq(Clients) /\ Len(regs') <= ChanCap /\ lost' \subseteq Clients
  <2>1. CASE Len(regs) < ChanCap
    <3>1. regs' = Append(regs, c) /\ lost' = lost
      BY <1>2, <2>1 DEF Register
    <3>2. Append(regs, c) \in Seq(Clients) /\ Len(Append(regs, c)) = Len(regs) + 1 /\ Len(regs) \in Nat
      BY <1>1
    <3> QED BY <1>1, <2>1, <3>1, <3>2
  <2>2. CASE ~(Len(regs) < ChanCap)
    BY <1>1, <1>2, <2>2 DEF Register
  <2> QED BY <2>1, <2>2
<1>3. ASSUME Unregister(c)
      PROVE  unregs' \in Seq(Clients) /\ Len(unregs') <= ChanCap /\ lost' \subseteq Clients
  <2>1. CASE Len(unregs) < ChanCap
    <3>1. unregs' = Append(unregs, c) /\ lost' = lost
      BY <1>3, <2>1 DEF Unregister
    <3>2. Append(unregs, c) \in Seq(Clients) /\ Len(Append(unregs, c)) = Len(unregs) + 1 /\ Len(unregs) \in Nat
      BY <1>1
    <3> QED BY <1>1, <2>1, <3>1, <3>2
  <2>2. CASE ~(Len(unregs) < ChanCap)
    BY <1>1, <1>3, <2>2 DEF Unregister
  <2> QED BY <2>1, <2>2
<1> QED BY <1>2, <1>3

\* The rooms without a client are rooms, and a Send channel that gave up a message
\* is one.
LEMMA TakenIsTyped ==
    ASSUME NEW c \in Clients
    PROVE  /\ rooms \in [Rooms -> SUBSET Clients] => Without(c) \in [Rooms -> SUBSET Clients]
           /\ mail \in [Clients -> 0..SendBuffer] /\ mail[c] > 0 =>
                [mail EXCEPT ![c] = @ - 1] \in [Clients -> 0..SendBuffer]
<1>1. SendBuffer \in Nat
  BY HubBoundsAssumption
<1> QED BY <1>1 DEF Without

\* A read pump that moves is somewhere.
LEMMA ReaderIsTyped ==
    ASSUME HubTypeOK, NEW c \in Clients, NEW r \in Rooms \cup {NoRoom},
           NEW label \in {"read", "subscribe", "subscribing", "unsubscribe", "unsubscribing",
                          "gone"},
           Reader(c, label, r)
    PROVE  /\ reader' \in [Clients -> {"none", "read", "subscribe", "subscribing",
                                      "unsubscribe", "unsubscribing", "gone"}]
           /\ at' \in [Clients -> Rooms \cup {NoRoom}]
BY DEF HubTypeOK, Reader

\* Every step keeps the types.
LEMMA NextHubType ==
    ASSUME HubTypeOK, RoomsAgree, [HubNext]_hubVars
    PROVE  HubTypeOK'
<1> USE HubBoundsAssumption, HubNamesAssumption
<1> USE DEF HubTypeOK
<1>1. ASSUME NEW c \in Clients, Connect(c) PROVE HubTypeOK'
  BY <1>1, ToldIsTyped DEF Connect, pumps, members, channels, redis, presence
<1>2. ASSUME NEW c \in Clients, PeerGone(c) PROVE HubTypeOK'
  BY <1>2 DEF PeerGone, pumps, members, channels, redis, presence
<1>3. ASSUME NEW c \in Clients, Subscribe(c) PROVE HubTypeOK'
  <2>1. mail' \in [Clients -> 0..SendBuffer] /\ at[c] \in Rooms \cup {NoRoom}
    BY <1>3, SendOnlyAdds DEF Subscribe
  <2>2. /\ reader' \in [Clients -> {"none", "read", "subscribe", "subscribing",
                                    "unsubscribe", "unsubscribing", "gone"}]
        /\ at' \in [Clients -> Rooms \cup {NoRoom}]
    BY <1>3, <2>1, ReaderIsTyped DEF Subscribe
  <2>3. refs' \in [Rooms -> Nat]
    <3>1. refs \in [Rooms -> Nat] /\ at[c] \in Rooms
      BY <1>3 DEF Subscribe, RoomsAgree
    <3>2. refs' = [refs EXCEPT ![at[c]] = @ + 1]
      BY <1>3 DEF Subscribe
    <3> HIDE DEF HubTypeOK
    <3> QED BY <3>1, <3>2
  <2> QED BY <1>3, <2>1, <2>2, <2>3 DEF Subscribe, pumps, members, channels, redis, presence
<1>4. ASSUME NEW c \in Clients, RedisSubscribe(c) PROVE HubTypeOK'
  BY SMTT(20), <1>4, SendOnlyAdds
     DEF RedisSubscribe, RoomsAgree, Reader, pumps, members, channels, redis, presence
<1>5. ASSUME NEW c \in Clients, Unsubscribe(c) PROVE HubTypeOK'
  <2>1. mail' \in [Clients -> 0..SendBuffer] /\ at[c] \in Rooms \cup {NoRoom}
    BY <1>5, SendOnlyAdds DEF Unsubscribe
  <2>2. /\ reader' \in [Clients -> {"none", "read", "subscribe", "subscribing",
                                    "unsubscribe", "unsubscribing", "gone"}]
        /\ at' \in [Clients -> Rooms \cup {NoRoom}]
    BY <1>5, <2>1, ReaderIsTyped DEF Unsubscribe
  <2>3. refs' \in [Rooms -> Nat]
    BY <1>5, ReleasedIsTyped DEF Unsubscribe, RoomsAgree
  <2> QED BY <1>5, <2>1, <2>2, <2>3 DEF Unsubscribe, pumps, members, channels, redis, presence
<1>6. ASSUME NEW c \in Clients, RedisUnsubscribe(c) PROVE HubTypeOK'
  BY <1>6, SendOnlyAdds DEF RedisUnsubscribe, Reader, pumps, members, channels, redis, presence
<1>7. ASSUME NEW c \in Clients, ReadError(c) PROVE HubTypeOK'
  <2>1. /\ reader' \in [Clients -> {"none", "read", "subscribe", "subscribing",
                                    "unsubscribe", "unsubscribing", "gone"}]
        /\ at' \in [Clients -> Rooms \cup {NoRoom}]
    BY <1>7, ReaderIsTyped DEF ReadError
  <2> QED BY <1>7, <2>1, ToldIsTyped DEF ReadError, pumps, members, channels, redis, presence
<1>8. ASSUME NEW c \in Clients, Write(c) PROVE HubTypeOK'
  <2>1. mail' \in [Clients -> 0..SendBuffer]
    BY <1>8, TakenIsTyped DEF Write
  <2>2. conn' \in [Clients -> {"new", "open", "dead"}]
    <3>1. conn' = conn \/ conn' = [conn EXCEPT ![c] = "dead"]
      BY <1>8 DEF Write
    <3> QED BY <3>1
  <2>3. writer' \in [Clients -> {"none", "run", "gone"}]
    <3>1. writer' = writer \/ writer' = [writer EXCEPT ![c] = "gone"]
      BY <1>8 DEF Write
    <3> QED BY <3>1
  <2> QED BY <1>8, <2>1, <2>2, <2>3 DEF Write, pumps, members, channels, redis, presence
<1>9. ASSUME NEW c \in Clients, WriterClose(c) PROVE HubTypeOK'
  BY <1>9 DEF WriterClose, pumps, members, channels, redis, presence
<1>10. ASSUME NEW c \in Clients, HandlerReturn(c) PROVE HubTypeOK'
  BY <1>10, ToldIsTyped DEF HandlerReturn, pumps, members, channels, redis, presence
<1>11. ASSUME NEW c \in Clients, Answered(c) PROVE HubTypeOK'
  BY <1>11, SendOnlyAdds DEF Answered, pumps, members, channels, redis, presence
<1>12. ASSUME NEW c \in Clients, NEW r \in Rooms, JoinRoom(c, r) PROVE HubTypeOK'
  BY <1>12 DEF JoinRoom, Reading, Reader, pumps, members, channels, redis, presence
<1>13. ASSUME NEW c \in Clients, NEW r \in Rooms, LeaveRoom(c, r) PROVE HubTypeOK'
  <2>1. mail' \in [Clients -> 0..SendBuffer]
    BY <1>13, SendOnlyAdds DEF LeaveRoom
  <2>2. /\ reader' \in [Clients -> {"none", "read", "subscribe", "subscribing",
                                    "unsubscribe", "unsubscribing", "gone"}]
        /\ at' \in [Clients -> Rooms \cup {NoRoom}]
    BY <1>13, ReaderIsTyped DEF LeaveRoom
  <2>3. rooms' \in [Rooms -> SUBSET Clients] /\ mine' \in [Clients -> SUBSET Rooms]
    BY <1>13 DEF LeaveRoom
  <2> QED BY <1>13, <2>1, <2>2, <2>3 DEF LeaveRoom, pumps, members, channels, redis, presence
<1>14. ASSUME NEW c \in Clients, NEW r \in Rooms, Typing(c, r) PROVE HubTypeOK'
  BY <1>14 DEF Typing, PublishToRoom, pumps, members, channels, redis, presence
<1>15. CASE HubRegister
  <2>1. Head(regs) \in Clients /\ Tail(regs) \in Seq(Clients) /\ Len(Tail(regs)) <= ChanCap
    BY <1>15 DEF HubRegister
  <2>2. hub' \in [pc : HubPC, c : Clients \cup {NoClient}, todo : SUBSET Rooms,
                r : Rooms \cup {NoRoom}]
    BY <1>15, <2>1 DEF HubRegister, Select, HubPC
  <2> QED BY <1>15, <2>1, <2>2, SendOnlyAdds DEF HubRegister, pumps, members, channels, redis, presence
<1>16. CASE MarkOnline
  <2>1. count' \in Int
    BY <1>16 DEF MarkOnline, presence
  <2>2. online' \in BOOLEAN
    BY <1>16 DEF MarkOnline, presence
  <2>3. hubFaults' \in 0..MaxHubFaults
    BY <1>16 DEF MarkOnline, Fault
  <2> QED BY <1>16, <2>1, <2>2, <2>3, HandsAreTyped DEF MarkOnline, pumps, members, channels, redis, presence
<1>17. CASE HubUnregister
  <2>1. Head(unregs) \in Clients /\ Tail(unregs) \in Seq(Clients) /\ Len(Tail(unregs)) <= ChanCap
    BY <1>17 DEF HubUnregister
  <2>2. hub' \in [pc : HubPC, c : Clients \cup {NoClient}, todo : SUBSET Rooms,
                r : Rooms \cup {NoRoom}]
    BY <1>17, <2>1, HandsAreTyped DEF HubUnregister, Emptied
  <2>3. rooms' \in [Rooms -> SUBSET Clients]
    <3>1. rooms' = rooms \/ rooms' = Without(Head(unregs))
      BY <1>17 DEF HubUnregister
    <3> QED BY <2>1, <3>1, TakenIsTyped
  <2>4. clients' \subseteq Clients /\ closed' \subseteq Clients /\ lost' \subseteq Clients
    BY <1>17, <2>1 DEF HubUnregister
  <2> QED BY <1>17, <2>1, <2>2, <2>3, <2>4 DEF HubUnregister, pumps, members, channels, redis, presence
<1>18. CASE HubRedisUnsubscribe
  BY <1>18 DEF HubRedisUnsubscribe, AfterRoom, HubPC, pumps, members, channels, redis, presence
<1>19. CASE MarkOffline
  <2>1. count' \in Int
    BY <1>19 DEF MarkOffline, presence
  <2>2. online' \in BOOLEAN
    BY <1>19 DEF MarkOffline, presence
  <2>3. hubFaults' \in 0..MaxHubFaults
    BY <1>19 DEF MarkOffline, Fault
  <2> QED BY <1>19, <2>1, <2>2, <2>3, HandsAreTyped DEF MarkOffline, pumps, members, channels, redis, presence
<1>20. CASE HubBroadcast
  BY SMTT(20), <1>20, SendOnlyAdds DEF HubBroadcast, pumps, members, channels, redis, presence
<1>21. CASE Cancel
  BY <1>21, HandsAreTyped DEF Cancel, HubPC, pumps, members, channels, redis, presence
<1>22. CASE Stop
  BY <1>22, SendOnlyAdds DEF Stop, pumps, members, channels, redis, presence
<1>23. CASE ExpireCount
  BY <1>23 DEF ExpireCount, pumps, members, channels, redis, presence
<1>24. ASSUME NEW r \in Rooms, HubUnsubscribe(r) PROVE HubTypeOK'
  BY <1>24, ReleasedIsTyped DEF HubUnsubscribe, AfterRoom, HubPC, LastReference, pumps, members, channels, redis, presence
<1>25. ASSUME NEW r \in Rooms, Event(r) PROVE HubTypeOK'
  BY <1>25 DEF Event, PublishToRoom, pumps, members, channels, redis, presence
<1>26. ASSUME NEW r \in Rooms, Receive(r) PROVE HubTypeOK'
  BY <1>26 DEF Receive, pumps, members, channels, redis, presence
<1>27. ASSUME NEW r \in Rooms, LoseMessage(r) PROVE HubTypeOK'
  BY <1>27 DEF LoseMessage, pumps, members, channels, redis, presence
<1>28. CASE UNCHANGED hubVars
  BY <1>28 DEF hubVars, pumps, members, channels, redis, presence
<1> QED
  BY <1>1, <1>2, <1>3, <1>4, <1>5, <1>6, <1>7, <1>8, <1>9, <1>10, <1>11, <1>12, <1>13, <1>14, <1>15, <1>16, <1>17, <1>18, <1>19, <1>20, <1>21, <1>22, <1>23, <1>24, <1>25, <1>26, <1>27, <1>28
  DEF HubNext, ClientStep, HandleMessage, HubStep

-----------------------------------------------------------------------------
(* What the inductive invariant says of the connections *)

\* What a connection hands to a channel is in it afterwards, with what was there,
\* unless the channel was full.
LEMMA Handed ==
    ASSUME HubTypeOK, NEW c \in Clients
    PROVE  /\ Register(c) =>
                /\ \A d \in Clients : Waiting(d, regs') => Waiting(d, regs) \/ d = c
                /\ \A d \in Clients : Waiting(d, regs) => Waiting(d, regs')
                /\ Waiting(c, regs') \/ c \in lost'
                /\ lost \subseteq lost'
                /\ NoneTwice(regs) /\ ~Waiting(c, regs) => NoneTwice(regs')
           /\ Unregister(c) =>
                /\ \A d \in Clients : Waiting(d, unregs') => Waiting(d, unregs) \/ d = c
                /\ \A d \in Clients : Waiting(d, unregs) => Waiting(d, unregs')
                /\ Waiting(c, unregs') \/ c \in lost'
                /\ lost \subseteq lost'
<1>1. regs \in Seq(Clients) /\ unregs \in Seq(Clients)
  BY DEF HubTypeOK
<1>2. ASSUME Register(c)
      PROVE  \/ regs' = Append(regs, c) /\ lost' = lost
             \/ lost' = lost \cup {c} /\ regs' = regs
  BY <1>2 DEF Register
<1>3. ASSUME Unregister(c)
      PROVE  \/ unregs' = Append(unregs, c) /\ lost' = lost
             \/ lost' = lost \cup {c} /\ unregs' = unregs
  BY <1>3 DEF Unregister
<1>4. \A d \in Clients : Waiting(d, Append(regs, c)) <=> Waiting(d, regs) \/ d = c
  BY <1>1, WaitingAppend
<1>5. \A d \in Clients : Waiting(d, Append(unregs, c)) <=> Waiting(d, unregs) \/ d = c
  BY <1>1, WaitingAppend
<1>6. NoneTwice(regs) /\ ~Waiting(c, regs) => NoneTwice(Append(regs, c))
  BY <1>1, NoneTwiceKept
<1>7. ASSUME Register(c)
      PROVE  /\ \A d \in Clients : Waiting(d, regs') => Waiting(d, regs) \/ d = c
             /\ \A d \in Clients : Waiting(d, regs) => Waiting(d, regs')
             /\ Waiting(c, regs') \/ c \in lost'
             /\ lost \subseteq lost'
             /\ NoneTwice(regs) /\ ~Waiting(c, regs) => NoneTwice(regs')
  <2>1. CASE regs' = Append(regs, c) /\ lost' = lost
    <3>1. regs' = Append(regs, c)
      BY <2>1
    <3>2. \A d \in Clients : Waiting(d, regs') <=> Waiting(d, regs) \/ d = c
      BY <1>4, <3>1, Zenon
    <3>3. NoneTwice(regs) /\ ~Waiting(c, regs) => NoneTwice(regs')
      BY <1>6, <3>1, Zenon
    <3>4. lost \subseteq lost'
      BY <2>1
    <3> QED BY <3>2, <3>3, <3>4
  <2>2. CASE lost' = lost \cup {c} /\ regs' = regs
    BY <2>2
  <2> QED BY <1>2, <1>7, <2>1, <2>2
<1>8. ASSUME Unregister(c)
      PROVE  /\ \A d \in Clients : Waiting(d, unregs') => Waiting(d, unregs) \/ d = c
             /\ \A d \in Clients : Waiting(d, unregs) => Waiting(d, unregs')
             /\ Waiting(c, unregs') \/ c \in lost'
             /\ lost \subseteq lost'
  <2>1. CASE unregs' = Append(unregs, c) /\ lost' = lost
    <3>1. unregs' = Append(unregs, c)
      BY <2>1
    <3>2. \A d \in Clients : Waiting(d, unregs') <=> Waiting(d, unregs) \/ d = c
      BY <1>5, <3>1, Zenon
    <3>4. lost \subseteq lost'
      BY <2>1
    <3> QED BY <3>2, <3>4
  <2>2. CASE lost' = lost \cup {c} /\ unregs' = unregs
    BY <2>2
  <2> QED BY <1>3, <1>8, <2>1, <2>2
<1> QED BY <1>7, <1>8

\* What the hub takes out of a channel is all that it no longer holds.
LEMMA Taken ==
    ASSUME HubTypeOK
    PROVE  /\ HubRegister =>
                /\ Head(regs) \in Clients /\ Waiting(Head(regs), regs)
                /\ \A d \in Clients : Waiting(d, regs) <=> Waiting(d, regs') \/ d = Head(regs)
                /\ NoneTwice(regs) => NoneTwice(regs') /\ ~Waiting(Head(regs), regs')
           /\ HubUnregister =>
                /\ Head(unregs) \in Clients /\ Waiting(Head(unregs), unregs)
                /\ \A d \in Clients :
                     Waiting(d, unregs) <=> Waiting(d, unregs') \/ d = Head(unregs)
<1>1. regs \in Seq(Clients) /\ unregs \in Seq(Clients)
  BY DEF HubTypeOK
<1>2. ASSUME HubRegister PROVE regs # <<>> /\ regs' = Tail(regs)
  BY <1>2 DEF HubRegister
<1>3. ASSUME HubUnregister PROVE unregs # <<>> /\ unregs' = Tail(unregs)
  BY <1>3 DEF HubUnregister
<1>4. regs # <<>> =>
        /\ Head(regs) \in Clients
        /\ \A d \in Clients : Waiting(d, regs) <=> Waiting(d, Tail(regs)) \/ d = Head(regs)
  BY <1>1, WaitingTail
<1>5. unregs # <<>> =>
        /\ Head(unregs) \in Clients
        /\ \A d \in Clients :
             Waiting(d, unregs) <=> Waiting(d, Tail(unregs)) \/ d = Head(unregs)
  BY <1>1, WaitingTail
<1>6. NoneTwice(regs) /\ regs # <<>> => NoneTwice(Tail(regs)) /\ ~Waiting(Head(regs), Tail(regs))
  BY <1>1, NoneTwiceKept
<1> QED BY <1>2, <1>3, <1>4, <1>5, <1>6

\* A step that leaves the channels alone lets no connection be handed twice: it
\* ends no read pump and takes no client, and makes no connection new.
LEMMA HandedByOthers ==
    ASSUME HandedOnce, UNCHANGED <<regs, unregs, left, clients>>,
           \A c \in Clients :
             /\ conn'[c] = "new" =>
                  conn[c] = "new" /\ reader'[c] = reader[c] /\ writer'[c] = writer[c]
             /\ reader'[c] = "gone" <=> reader[c] = "gone"
             /\ conn[c] = "dead" => conn'[c] = "dead"
    PROVE  HandedOnce'
BY DEF HandedOnce

\* A connection is handed to the hub once, and its ends only after its read pump.
LEMMA NextHandedOnce ==
    ASSUME HubTypeOK, HandedOnce, [HubNext]_hubVars
    PROVE  HandedOnce'
<1>1. CASE CalmStep
  BY <1>1, HandedByOthers DEF CalmStep, pumps, members
<1>2. ASSUME NEW c \in Clients, PumpStep(c) PROVE HandedOnce'
  <2> USE DEF HubTypeOK
  <2>1. CASE Connect(c)
    <3>1. conn' = [conn EXCEPT ![c] = "open"] /\ reader' = [reader EXCEPT ![c] = "read"]
          /\ writer' = [writer EXCEPT ![c] = "run"] /\ UNCHANGED <<left, clients, unregs>> /\ conn[c] = "new"
      BY <2>1 DEF Connect, members
    <3>2. \A d \in Clients : Waiting(d, regs') => Waiting(d, regs) \/ d = c
      BY <2>1, Handed DEF Connect
    <3>3. NoneTwice(regs')
      BY <2>1, Handed DEF Connect, HandedOnce
    <3>4. \A d \in Clients \ {c} : /\ conn'[d] = conn[d] /\ reader'[d] = reader[d]
                              /\ writer'[d] = writer[d]
      BY <3>1
    <3>5. conn'[c] = "open" /\ reader'[c] = "read"
      BY <3>1
    <3>6. reader[c] = "none" /\ c \notin left \cup clients /\ ~Waiting(c, unregs)
      BY <3>1 DEF HandedOnce
    <3> HIDE DEF HubTypeOK
    <3> QED BY <3>1, <3>2, <3>3, <3>4, <3>5, <3>6 DEF HandedOnce
  <2>2. CASE PeerGone(c)
    BY <2>2, HandedByOthers DEF PeerGone, members, channels
  <2>3. CASE Subscribe(c)
    BY <2>3, HandedByOthers DEF Subscribe, Reader, members, channels, HandedOnce
  <2>4. CASE RedisSubscribe(c)
    BY <2>4, HandedByOthers DEF RedisSubscribe, Reader, members, channels, HandedOnce
  <2>5. CASE Unsubscribe(c)
    BY <2>5, HandedByOthers DEF Unsubscribe, Reader, members, channels, HandedOnce
  <2>6. CASE RedisUnsubscribe(c)
    BY <2>6, HandedByOthers DEF RedisUnsubscribe, Reader, members, channels, HandedOnce
  <2>7. CASE ReadError(c)
    <3>1. reader' = [reader EXCEPT ![c] = "gone"] /\ UNCHANGED <<conn, writer, left, clients, regs>>
          /\ conn[c] = "dead" /\ reader[c] = "read"
      BY <2>7 DEF ReadError, Reader, members
    <3>2. \A d \in Clients : Waiting(d, unregs') => Waiting(d, unregs) \/ d = c
      BY <2>7, Handed DEF ReadError
    <3> QED BY <3>1, <3>2 DEF HandedOnce
  <2>8. CASE Write(c)
    BY <2>8, HandedByOthers DEF Write, members, channels
  <2>9. CASE WriterClose(c)
    BY <2>9, HandedByOthers DEF WriterClose, members, channels
  <2>10. CASE HandlerReturn(c)
    <3>1. left' = left \cup {c} /\ UNCHANGED <<conn, reader, writer, clients, regs>>
          /\ reader[c] = "gone"
      BY <2>10 DEF HandlerReturn, members
    <3>2. \A d \in Clients : Waiting(d, unregs') => Waiting(d, unregs) \/ d = c
      BY <2>10, Handed DEF HandlerReturn
    <3> QED BY <3>1, <3>2 DEF HandedOnce
  <2>11. ASSUME NEW r \in Rooms, JoinRoom(c, r) PROVE HandedOnce'
    BY <2>11, HandedByOthers DEF JoinRoom, Reading, Reader, channels
  <2>12. ASSUME NEW r \in Rooms, LeaveRoom(c, r) PROVE HandedOnce'
    BY <2>12, HandedByOthers DEF LeaveRoom, Reading, Reader, channels
  <2> QED BY <1>2, <2>1, <2>2, <2>3, <2>4, <2>5, <2>6, <2>7, <2>8, <2>9, <2>10, <2>11, <2>12
          DEF PumpStep
<1>3. CASE HubRegister
  <2>1. clients' = clients \cup {Head(regs)} /\ UNCHANGED <<conn, reader, writer, left, unregs>>
    BY <1>3 DEF HubRegister, pumps
  <2> QED BY <1>3, <2>1, Taken DEF HandedOnce
<1>4. CASE HubUnregister
  <2>1. clients' \subseteq clients /\ UNCHANGED <<conn, reader, writer, left, regs>>
    BY <1>4 DEF HubUnregister, pumps
  <2> QED BY <1>4, <2>1, Taken DEF HandedOnce
<1>5. CASE \/ MarkOnline \/ HubRedisUnsubscribe \/ MarkOffline \/ Cancel
           \/ \E r \in Rooms : HubUnsubscribe(r)
  <2>1. UNCHANGED <<conn, reader, writer, regs, unregs, left, clients>>
    BY <1>5 DEF MarkOnline, HubUnsubscribe, HubRedisUnsubscribe, MarkOffline, Cancel, pumps,
                members, channels
  <2> QED BY <2>1, HandedByOthers
<1> QED BY <1>1, <1>2, <1>3, <1>4, <1>5, HubSteps

-----------------------------------------------------------------------------
(* The rooms *)

\* A step that neither moves a read pump nor changes a room leaves the rooms as
\* they are.
LEMMA RoomsAgreeByOthers ==
    RoomsAgree /\ UNCHANGED <<reader, at, rooms, mine>> => RoomsAgree'
BY DEF RoomsAgree

\* The two maps of the rooms go on agreeing, and a joiner stays in its room until
\* it has its reference.
LEMMA NextRoomsAgree ==
    ASSUME HubTypeOK, HandedOnce, RoomsAgree, RestIsDone, [HubNext]_hubVars
    PROVE  RoomsAgree'
<1>1. CASE CalmStep
  BY <1>1, RoomsAgreeByOthers DEF CalmStep, pumps, members
<1>2. ASSUME NEW c \in Clients, PumpStep(c) PROVE RoomsAgree'
  <2> USE DEF HubTypeOK
  <2>1. CASE Connect(c)
    BY <2>1 DEF Connect, members, RoomsAgree
  <2>2. CASE PeerGone(c) \/ Write(c) \/ WriterClose(c) \/ HandlerReturn(c)
    BY <2>2, RoomsAgreeByOthers DEF PeerGone, Write, WriterClose, HandlerReturn, members
  <2>3. CASE Subscribe(c)
    <3>1. UNCHANGED <<rooms, mine>> /\ at[c] \in Rooms
      BY <2>3 DEF Subscribe, members, RoomsAgree
    <3>2. \/ reader' = [reader EXCEPT ![c] = "subscribing"] /\ at' = [at EXCEPT ![c] = at[c]]
          \/ reader' = [reader EXCEPT ![c] = "read"] /\ at' = [at EXCEPT ![c] = NoRoom]
      BY <2>3 DEF Subscribe, Reader
    <3>3. reader'[c] = "read" \/ (reader'[c] = "subscribing" /\ at'[c] = at[c])
      <4>1. reader \in [Clients -> {"none", "read", "subscribe", "subscribing",
                                    "unsubscribe", "unsubscribing", "gone"}]
            /\ at \in [Clients -> Rooms \cup {NoRoom}]
        OBVIOUS
      <4> HIDE DEF HubTypeOK
      <4> QED BY <3>2, <4>1
    <3>4. \A d \in Clients \ {c} : reader'[d] = reader[d] /\ at'[d] = at[d]
      BY <3>2
    <3> HIDE DEF HubTypeOK
    <3> QED BY <3>1, <3>3, <3>4 DEF RoomsAgree
  <2>4. CASE RedisSubscribe(c)
    BY <2>4 DEF RedisSubscribe, Reader, members, RoomsAgree
  <2>5. CASE Unsubscribe(c)
    BY ZenonT(40), <2>5 DEF Unsubscribe, Reader, members, RoomsAgree
  <2>6. CASE RedisUnsubscribe(c)
    BY <2>6 DEF RedisUnsubscribe, Reader, members, RoomsAgree
  <2>7. CASE ReadError(c)
    BY <2>7 DEF ReadError, Reader, members, RoomsAgree
  <2>8. ASSUME NEW r \in Rooms, JoinRoom(c, r) PROVE RoomsAgree'
    BY <2>8 DEF JoinRoom, Reading, Reader, RoomsAgree
  <2>9. ASSUME NEW r \in Rooms, LeaveRoom(c, r) PROVE RoomsAgree'
    BY <2>9 DEF LeaveRoom, Reading, Reader, RoomsAgree
  <2> QED BY <1>2, <2>1, <2>2, <2>3, <2>4, <2>5, <2>6, <2>7, <2>8, <2>9 DEF PumpStep
<1>3. CASE HubUnregister
  <2>1. UNCHANGED <<reader, at, mine>> /\ (rooms' = rooms \/ rooms' = Without(Head(unregs)))
    BY <1>3 DEF HubUnregister, pumps
  <2>2. reader[Head(unregs)] = "gone" /\ Head(unregs) \in Clients
    BY <1>3, Taken DEF HandedOnce
  <2>3. \A d \in Clients, r \in Rooms : /\ d \in rooms'[r] => d \in rooms[r]
                                        /\ d \in rooms[r] /\ d # Head(unregs) => d \in rooms'[r]
    BY <2>1 DEF Without
  <2>4. \A d \in Clients, r \in Rooms : d \in rooms'[r] => r \in mine'[d]
    <3>1. \A d \in Clients, r \in Rooms : d \in rooms[r] => r \in mine[d]
      BY DEF RoomsAgree
    <3>2. mine' = mine
      BY <2>1
    <3> QED BY <2>3, <3>1, <3>2
  <2>5. ASSUME NEW d \in Clients, reader[d] = "subscribe" PROVE d \in rooms'[at[d]]
    <3>1. at[d] \in Rooms /\ d \in rooms[at[d]] /\ d # Head(unregs)
      BY <2>2, <2>5 DEF RoomsAgree
    <3> QED BY <2>3, <3>1
  <2> QED BY <2>1, <2>4, <2>5 DEF RoomsAgree
<1>4. CASE \/ HubRegister \/ MarkOnline \/ HubRedisUnsubscribe \/ MarkOffline \/ Cancel
           \/ \E r \in Rooms : HubUnsubscribe(r)
  <2>1. UNCHANGED <<reader, at, rooms, mine>>
    BY <1>4 DEF HubRegister, MarkOnline, HubUnsubscribe, HubRedisUnsubscribe, MarkOffline,
                Cancel, pumps, members
  <2> QED BY <2>1, RoomsAgreeByOthers
<1> QED BY <1>1, <1>2, <1>3, <1>4, HubSteps

\* The hub's goroutine goes on having rooms in its hands only while it releases
\* them.
LEMMA NextRestIsDone ==
    ASSUME HubTypeOK, RestIsDone, [HubNext]_hubVars
    PROVE  RestIsDone'
<1>1. CASE CalmStep
  BY <1>1 DEF CalmStep, RestIsDone
<1>2. ASSUME NEW c \in Clients, PumpStep(c) PROVE RestIsDone'
  <2>1. hub' = hub
    BY <1>2 DEF PumpStep, Connect, PeerGone, Subscribe, RedisSubscribe, Unsubscribe,
                RedisUnsubscribe, ReadError, Write, WriterClose, HandlerReturn, JoinRoom,
                LeaveRoom
  <2> QED BY <2>1 DEF RestIsDone
<1>3. CASE HubRegister \/ MarkOnline \/ MarkOffline \/ Cancel
  <2>1. \/ hub' = Select
        \/ hub' = [Select EXCEPT !.pc = "online", !.c = Head(regs)]
        \/ hub' = [Select EXCEPT !.pc = "stopped"]
    BY <1>3 DEF HubRegister, MarkOnline, MarkOffline, Cancel
  <2>2. hub' = Select \/ (hub'.pc \in {"online", "stopped"} /\ hub'.todo = {})
    BY <2>1 DEF Select
  <2> QED BY <2>2 DEF RestIsDone, Select
<1>4. CASE HubUnregister
  BY <1>4 DEF HubUnregister, AfterRoom, RestIsDone
<1>5. CASE HubRedisUnsubscribe
  <2>1. hub' = [hub EXCEPT !.pc = AfterRoom(hub.todo), !.r = NoRoom]
    BY <1>5 DEF HubRedisUnsubscribe
  <2>2. hub'.pc = AfterRoom(hub.todo) /\ hub'.todo = hub.todo
    BY <2>1 DEF HubTypeOK
  <2> QED BY <2>2 DEF RestIsDone, AfterRoom
<1>6. ASSUME NEW r \in Rooms, HubUnsubscribe(r) PROVE RestIsDone'
  <2>1. \/ hub' = [hub EXCEPT !.pc = "unsubscribing", !.todo = hub.todo \ {r}, !.r = r]
        \/ hub' = [hub EXCEPT !.pc = AfterRoom(hub.todo \ {r}), !.todo = hub.todo \ {r}]
    BY <1>6 DEF HubUnsubscribe
  <2>2. /\ hub'.pc \in {"unsubscribing", AfterRoom(hub.todo \ {r})}
        /\ hub'.todo = hub.todo \ {r}
    BY <2>1 DEF HubTypeOK
  <2> QED BY <2>2 DEF RestIsDone, AfterRoom
<1> QED BY <1>1, <1>2, <1>3, <1>4, <1>5, <1>6, HubSteps

\* A step that closes no channel, takes no client, lets nobody join and hands no
\* connection over writes on no closed channel.
LEMMA OpenByOthers ==
    ASSUME SendStaysOpen, HubTypeOK,
           closed' = closed, clients' \subseteq clients,
           \A r \in Rooms : rooms'[r] \subseteq rooms[r],
           \A c \in Clients : /\ reader[c] = "gone" => reader'[c] = "gone"
                              /\ Waiting(c, regs') => Waiting(c, regs)
    PROVE  SendStaysOpen'
<1> SUFFICES ASSUME NEW c \in closed'
             PROVE  /\ c \notin clients' /\ \A r \in Rooms : c \notin rooms'[r]
                    /\ reader'[c] = "gone"
                    /\ ~Waiting(c, regs')
  BY DEF SendStaysOpen
<1>1. c \in closed /\ c \in Clients
  BY DEF HubTypeOK
<1>2. c \notin clients /\ (\A r \in Rooms : c \notin rooms[r]) /\ reader[c] = "gone"
  BY <1>1 DEF SendStaysOpen
<1>3. ~Waiting(c, regs)
  BY <1>1 DEF SendStaysOpen
<1> QED BY <1>1, <1>2, <1>3

\* Nothing is sent on a closed Send channel and none is closed twice.
LEMMA NextSendStaysOpen ==
    ASSUME HubTypeOK, HandedOnce, RoomsAgree, SendStaysOpen, [HubNext]_hubVars
    PROVE  SendStaysOpen'
<1>0. closed \subseteq Clients
  BY DEF HubTypeOK
<1>1. CASE CalmStep
  BY <1>1, OpenByOthers DEF CalmStep, pumps, members
<1>2. ASSUME NEW c \in Clients, PumpStep(c) PROVE SendStaysOpen'
  <2> USE DEF HubTypeOK
  <2>1. CASE Connect(c)
    <3>1. UNCHANGED <<closed, clients, rooms>> /\ reader' = [reader EXCEPT ![c] = "read"]
          /\ conn[c] = "new"
      BY <2>1 DEF Connect, members
    <3>2. reader[c] = "none"
      BY <3>1 DEF HandedOnce
    <3>3. c \notin closed
      BY <3>2 DEF SendStaysOpen
    <3>4. \A d \in Clients : Waiting(d, regs') => Waiting(d, regs) \/ d = c
      BY <2>1, Handed DEF Connect
    <3>5. \A d \in closed : reader'[d] = reader[d]
      BY <3>1, <3>3
    <3> HIDE DEF HubTypeOK
    <3> QED BY <1>0, <3>1, <3>3, <3>4, <3>5 DEF SendStaysOpen
  <2>2. CASE PeerGone(c) \/ Write(c) \/ WriterClose(c) \/ HandlerReturn(c)
    BY <2>2, OpenByOthers DEF PeerGone, Write, WriterClose, HandlerReturn, members, channels
  <2>3. CASE Subscribe(c) \/ RedisSubscribe(c) \/ Unsubscribe(c) \/ RedisUnsubscribe(c)
    BY <2>3, OpenByOthers DEF Subscribe, RedisSubscribe, Unsubscribe, RedisUnsubscribe, Reader,
                              members, channels
  <2>4. CASE ReadError(c)
    BY <2>4, OpenByOthers DEF ReadError, Reader, members
  <2>5. ASSUME NEW r \in Rooms, JoinRoom(c, r) PROVE SendStaysOpen'
    <3>1. c \notin closed
      BY <2>5 DEF JoinRoom, Reading, SendStaysOpen
    <3>2. UNCHANGED <<closed, clients, regs>> /\ reader' = [reader EXCEPT ![c] = "subscribe"]
          /\ rooms' = [rooms EXCEPT ![r] = @ \cup {c}]
      BY <2>5 DEF JoinRoom, Reader, channels
    <3> QED BY <1>0, <3>1, <3>2 DEF SendStaysOpen
  <2>6. ASSUME NEW r \in Rooms, LeaveRoom(c, r) PROVE SendStaysOpen'
    <3>1. UNCHANGED <<closed, clients, regs>> /\ rooms' = [rooms EXCEPT ![r] = @ \ {c}]
      BY <2>6 DEF LeaveRoom, channels
    <3>2. \A d \in Clients : reader[d] = "gone" => reader'[d] = "gone"
      BY <2>6 DEF LeaveRoom, Reader, Reading
    <3> QED BY <3>1, <3>2, OpenByOthers
  <2> QED BY <1>2, <2>1, <2>2, <2>3, <2>4, <2>5, <2>6 DEF PumpStep
<1>3. CASE HubRegister
  <2>1. clients' = clients \cup {Head(regs)} /\ UNCHANGED <<closed, rooms, reader>>
    BY <1>3 DEF HubRegister, pumps
  <2> QED BY <1>0, <1>3, <2>1, Taken DEF SendStaysOpen
<1>4. CASE HubUnregister
  <2> DEFINE c == Head(unregs)
  <2>1. UNCHANGED <<reader, regs>> /\ c \in Clients /\ reader[c] = "gone"
    BY <1>4, Taken DEF HubUnregister, pumps, HandedOnce
  <2>2. CASE c \in clients
    <3>1. rooms' = Without(c) /\ clients' = clients \ {c} /\ closed' = closed \cup {c}
      BY <1>4, <2>2 DEF HubUnregister
    <3>2. \A r \in Rooms : rooms'[r] = rooms[r] \ {c}
      BY <2>1, <3>1 DEF Without, RoomsAgree, HubTypeOK
    <3>3. ~Waiting(c, regs)
      BY <2>1, <2>2 DEF HandedOnce
    <3> QED BY <1>0, <2>1, <3>1, <3>2, <3>3 DEF SendStaysOpen
  <2>3. CASE c \notin clients
    <3>1. UNCHANGED <<rooms, clients, closed>>
      BY <1>4, <2>3 DEF HubUnregister
    <3> QED BY <2>1, <3>1, OpenByOthers
  <2> QED BY <2>2, <2>3
<1>5. CASE \/ MarkOnline \/ HubRedisUnsubscribe \/ MarkOffline \/ Cancel
           \/ \E r \in Rooms : HubUnsubscribe(r)
  <2>1. UNCHANGED <<closed, clients, rooms, reader, regs>>
    BY <1>5 DEF MarkOnline, HubUnsubscribe, HubRedisUnsubscribe, MarkOffline, Cancel, pumps,
                members, channels
  <2> QED BY <2>1, OpenByOthers
<1> QED BY <1>1, <1>2, <1>3, <1>4, <1>5, HubSteps

-----------------------------------------------------------------------------
(* The user *)

\* How many connections the counter may count beyond those of the hub.
InHand == IF Releasing THEN 1 ELSE IF hub.pc = "online" THEN -1 ELSE 0

\* The hub's connections are finitely many; taking one in or out moves their
\* number by one, and a number over none means that there is one.
LEMMA ClientsAreCounted ==
    ASSUME HubTypeOK
    PROVE  /\ Cardinality(clients) \in Nat
           /\ Cardinality(clients) > 0 <=> \E c \in Clients : c \in clients
           /\ \A c \in Clients :
                /\ c \notin clients => Cardinality(clients \cup {c}) = Cardinality(clients) + 1
                /\ c \in clients => Cardinality(clients \ {c}) = Cardinality(clients) - 1
<1>1. IsFiniteSet(clients) /\ clients \subseteq Clients
  BY HubClientsAssumption, FS_Subset DEF HubTypeOK
<1>2. Cardinality(clients) \in Nat
  BY <1>1, FS_CardinalityType
<1>3. Cardinality(clients) = 0 <=> clients = {}
  BY <1>1, FS_EmptySet
<1>4. \A c \in Clients :
        /\ c \notin clients => Cardinality(clients \cup {c}) = Cardinality(clients) + 1
        /\ c \in clients => Cardinality(clients \ {c}) = Cardinality(clients) - 1
  BY <1>1, FS_AddElement, FS_RemoveElement
<1> QED BY <1>1, <1>2, <1>3, <1>4

\* The counter and the connections of the hub do not part when neither moves.
LEMMA CountFitsByOthers ==
    ASSUME HubTypeOK, CountFits, UNCHANGED <<clients, hubFaults>>,
           hub'.pc = hub.pc, hub'.c = hub.c, count' \in {count, 0}
    PROVE  CountFits'
<1>1. InHand' = InHand
  BY DEF InHand, Releasing
<1>2. hub.pc = "online" => Cardinality(clients) >= 1
  BY ClientsAreCounted DEF CountFits, HubTypeOK
<1>3. Cardinality(clients) \in Nat /\ count \in Int
  BY ClientsAreCounted DEF HubTypeOK
<1>4. hubFaults = 0 => count <= Cardinality(clients) + InHand
  BY DEF CountFits, InHand
<1>5. Cardinality(clients) + InHand >= 0
  BY <1>2, <1>3 DEF InHand, Releasing
<1>6. hubFaults' = 0 => count' <= Cardinality(clients') + InHand'
  BY <1>1, <1>3, <1>4, <1>5
<1> QED BY <1>6 DEF CountFits, InHand, Releasing

\* The counter of the user goes on fitting the connections of the hub.
LEMMA NextCountFits ==
    ASSUME HubTypeOK, HandedOnce, CountFits, [HubNext]_hubVars
    PROVE  CountFits'
<1> DEFINE n == Cardinality(clients)
<1>0. n \in Nat /\ count \in Int /\ hub.c \in Clients \cup {NoClient}
  BY ClientsAreCounted DEF HubTypeOK
<1>00. hubFaults \in Nat /\ (hubFaults = 0 => count <= n + InHand)
  BY DEF CountFits, InHand, HubTypeOK
<1>1. CASE CalmStep
  BY <1>1, CountFitsByOthers DEF CalmStep, members
<1>2. ASSUME NEW c \in Clients, PumpStep(c) PROVE CountFits'
  <2>1. UNCHANGED <<clients, hub, count, hubFaults>>
    BY <1>2 DEF PumpStep, Connect, PeerGone, Subscribe, RedisSubscribe, Unsubscribe,
                RedisUnsubscribe, ReadError, Write, WriterClose, HandlerReturn, JoinRoom,
                LeaveRoom, members, presence
  <2> QED BY <2>1, CountFitsByOthers
<1>3. CASE HubRegister
  <2>1. /\ clients' = clients \cup {Head(regs)} /\ hub.pc = "select"
        /\ hub'.pc = "online" /\ hub'.c = Head(regs)
        /\ count' = count /\ hubFaults' = hubFaults
    BY <1>3 DEF HubRegister, Select, presence
  <2>2. Head(regs) \in Clients /\ Head(regs) \notin clients
    BY <1>3, Taken DEF HandedOnce
  <2>3. Cardinality(clients') = n + 1
    BY <2>1, <2>2, ClientsAreCounted
  <2>4. InHand = 0 /\ InHand' = -1 /\ ~Releasing'
    BY <2>1 DEF InHand, Releasing
  <2> QED BY <1>0, <1>00, <2>1, <2>3, <2>4 DEF CountFits, InHand
<1>4. CASE MarkOnline
  <2>1. hub.pc = "online" /\ hub' = Select /\ clients' = clients
    BY <1>4 DEF MarkOnline, members
  <2>2. InHand = -1 /\ InHand' = 0 /\ ~Releasing' /\ hub'.pc = "select"
    BY <2>1 DEF InHand, Releasing, Select
  <2>3. hubFaults' # 0 \/ (hubFaults' = hubFaults /\ count' = count + 1)
    BY <1>00, <1>4 DEF MarkOnline, Fault
  <2> QED BY <1>0, <1>00, <2>1, <2>2, <2>3 DEF CountFits, InHand
<1>5. CASE HubUnregister
  <2> DEFINE c == Head(unregs)
  <2>1. /\ hub.pc = "select" /\ hub'.c = c /\ hub'.pc \in {"offline", "unsubscribe"}
        /\ count' = count /\ hubFaults' = hubFaults
        /\ clients' = clients \/ (c \in clients /\ clients' = clients \ {c})
    BY <1>5 DEF HubUnregister, AfterRoom, presence
  <2>2. c \in Clients
    BY <1>5, Taken
  <2>3. Cardinality(clients') >= n - 1
    BY <1>0, <2>1, <2>2, ClientsAreCounted
  <2>4. InHand = 0 /\ InHand' = 1 /\ Cardinality(clients') \in Int
    BY <1>0, <2>1, <2>2, ClientsAreCounted DEF InHand, Releasing
  <2> QED BY <1>0, <1>00, <2>1, <2>2, <2>3, <2>4 DEF CountFits, InHand
<1>6. CASE HubRedisUnsubscribe \/ \E r \in Rooms : HubUnsubscribe(r)
  <2>1. /\ hub.pc \in {"unsubscribe", "unsubscribing"} /\ hub'.c = hub.c
        /\ hub'.pc \in {"unsubscribe", "unsubscribing", "offline"}
        /\ UNCHANGED <<clients, count, hubFaults>>
    BY <1>6 DEF HubRedisUnsubscribe, HubUnsubscribe, AfterRoom, HubTypeOK, members, presence
  <2>2. InHand = 1 /\ InHand' = 1 /\ hub.c \in Clients
    BY <2>1 DEF InHand, Releasing, CountFits
  <2> QED BY <1>00, <2>1, <2>2 DEF CountFits, InHand
<1>7. CASE MarkOffline
  <2>1. hub.pc = "offline" /\ hub' = Select /\ clients' = clients
    BY <1>7 DEF MarkOffline, members
  <2>2. InHand = 1 /\ InHand' = 0 /\ ~Releasing' /\ hub'.pc = "select"
    BY <2>1 DEF InHand, Releasing, Select
  <2>3. hubFaults' # 0 \/ (hubFaults' = hubFaults /\ count' \in {count - 1, 0})
    BY <1>00, <1>7 DEF MarkOffline, Fault
  <2> QED BY <1>0, <1>00, <2>1, <2>2, <2>3 DEF CountFits, InHand
<1>8. CASE Cancel
  <2>1. /\ hub.pc = "select" /\ hub'.pc = "stopped" /\ UNCHANGED <<clients, count, hubFaults>>
    BY <1>8 DEF Cancel, Select, members, presence
  <2>2. InHand = 0 /\ InHand' = 0 /\ ~Releasing'
    BY <2>1 DEF InHand, Releasing
  <2> QED BY <1>00, <2>1, <2>2 DEF CountFits, InHand
<1> QED BY <1>1, <1>2, <1>3, <1>4, <1>5, <1>6, <1>7, <1>8, HubSteps

\* A user who is shown online goes on having a connection that the hub has not
\* finished with.
LEMMA NextOnlineIsConnected ==
    ASSUME HubTypeOK, RestIsDone, CountFits, OnlineIsConnected, [HubNext]_hubVars
    PROVE  OnlineIsConnected'
<1> DEFINE Connected == \E c \in Clients : c \in clients \/ hub.c = c
<1>0. hubFaults \in Nat /\ count \in Int /\ (online /\ hubFaults = 0 => Connected)
  BY DEF HubTypeOK, OnlineIsConnected
<1>1. CASE CalmStep
  BY <1>1 DEF CalmStep, members, OnlineIsConnected
<1>2. ASSUME NEW c \in Clients, PumpStep(c) PROVE OnlineIsConnected'
  <2>1. UNCHANGED <<clients, hub, online, hubFaults>>
    BY <1>2 DEF PumpStep, Connect, PeerGone, Subscribe, RedisSubscribe, Unsubscribe,
                RedisUnsubscribe, ReadError, Write, WriterClose, HandlerReturn, JoinRoom,
                LeaveRoom, members, presence
  <2> QED BY <2>1 DEF OnlineIsConnected
<1>3. CASE HubRegister
  <2>1. Head(regs) \in clients' /\ Head(regs) \in Clients
    BY <1>3, Taken DEF HubRegister
  <2> QED BY <2>1 DEF OnlineIsConnected
<1>4. CASE MarkOnline
  <2>1. hub.c \in clients /\ hub.c \in Clients /\ clients' = clients
    BY <1>4 DEF MarkOnline, CountFits, HubTypeOK, members
  <2> QED BY <2>1 DEF OnlineIsConnected
<1>5. CASE HubUnregister
  <2>1. hub'.c = Head(unregs) /\ Head(unregs) \in Clients
    BY <1>5, Taken DEF HubUnregister
  <2> QED BY <2>1 DEF OnlineIsConnected
<1>6. CASE HubRedisUnsubscribe \/ \E r \in Rooms : HubUnsubscribe(r)
  <2>1. hub'.c = hub.c /\ UNCHANGED <<clients, online, hubFaults>>
    BY <1>6 DEF HubRedisUnsubscribe, HubUnsubscribe, HubTypeOK, members, presence
  <2> QED BY <2>1 DEF OnlineIsConnected
<1>7. CASE MarkOffline
  <2>1. hub.pc = "offline" /\ clients' = clients
    BY <1>7 DEF MarkOffline, members
  <2>2. \/ hubFaults' # 0 \/ ~online'
        \/ hubFaults' = hubFaults /\ count > 1
    <3>1. CASE Fault
      BY <1>0, <3>1 DEF Fault
    <3>2. CASE ~LastConnection /\ UNCHANGED <<online, hubFaults>>
      BY <1>0, <3>2 DEF LastConnection
    <3>3. ASSUME NEW del \in {0, 1}, NEW srem \in {0, 1},
                 hubFaults' = hubFaults + del + srem, online' = (online /\ srem = 1)
          PROVE  hubFaults' # 0 \/ ~online'
      <4>1. CASE srem = 1
        <5>1. hubFaults + del + srem # 0
          BY <1>0, <4>1
        <5> QED BY <3>3, <5>1
      <4>2. CASE srem # 1
        BY <3>3, <4>2
      <4> QED BY <4>1, <4>2
    <3> QED BY <1>7, <3>1, <3>2, <3>3 DEF MarkOffline
  <2>3. hubFaults = 0 => count <= Cardinality(clients) + 1
    BY <2>1 DEF CountFits, Releasing
  <2>4. hubFaults = 0 /\ count > 1 => \E c \in Clients : c \in clients
    BY <1>0, <2>3, ClientsAreCounted
  <2> QED BY <1>0, <2>1, <2>4, <2>2 DEF OnlineIsConnected
<1>8. CASE Cancel
  <2>1. hub.c = NoClient /\ UNCHANGED <<clients, online, hubFaults>>
    BY <1>8 DEF Cancel, RestIsDone, Select, members, presence
  <2> QED BY <2>1, HubNamesAssumption DEF OnlineIsConnected
<1> QED BY <1>1, <1>2, <1>3, <1>4, <1>5, <1>6, <1>7, <1>8, HubSteps

-----------------------------------------------------------------------------
(* Connections that are gone *)

\* What GoneIsKnown says of one connection.
KnownOf(c) ==
    /\ conn[c] # "new" => Waiting(c, regs) \/ c \in clients \cup closed
    /\ c \in left /\ (Waiting(c, regs) \/ c \in clients) => Waiting(c, unregs)
    /\ reader[c] = "gone" /\ c \in clients \ left =>
          Waiting(c, unregs) \/ writer[c] = "gone" \/ mail[c] > 0

\* A connection of which nothing moves but a write pump that ends, mail that comes
\* in or the end of the connection goes on being known.
LEMMA KnownByOthers ==
    ASSUME HubTypeOK, NEW c \in Clients, KnownOf(c), mail'[c] \in Nat,
           conn'[c] = "new" <=> conn[c] = "new",
           Waiting(c, regs') <=> Waiting(c, regs),
           Waiting(c, unregs) => Waiting(c, unregs'),
           c \in clients' <=> c \in clients, c \in closed => c \in closed',
           c \in left' <=> c \in left, reader'[c] = "gone" <=> reader[c] = "gone",
           writer[c] = "gone" => writer'[c] = "gone",
           mail'[c] >= mail[c] \/ writer'[c] = "gone" \/ reader[c] # "gone"
    PROVE  KnownOf(c)'
<1>1. mail[c] \in Nat
  BY HubBoundsAssumption DEF HubTypeOK
<1>2. mail[c] > 0 => mail'[c] > 0 \/ writer'[c] = "gone" \/ reader[c] # "gone"
  BY <1>1
<1> QED BY <1>2 DEF KnownOf

\* What the hub was told of a connection it goes on having carried out or before
\* it.
LEMMA NextGoneIsKnown ==
    ASSUME HubTypeOK, HubTypeOK', HandedOnce, GoneIsKnown, [HubNext]_hubVars
    PROVE  GoneIsKnown'
<1> SUFFICES ASSUME NEW d \in Clients, d \notin lost' PROVE KnownOf(d)'
  BY DEF GoneIsKnown, KnownOf
<1>0. mail'[d] \in Nat
  BY HubBoundsAssumption DEF HubTypeOK
<1>1. lost \subseteq lost'
  <2>1. CASE CalmStep
    BY <2>1 DEF CalmStep
  <2>2. ASSUME NEW c \in Clients, PumpStep(c) PROVE lost \subseteq lost'
    <3>1. CASE Connect(c) \/ ReadError(c) \/ HandlerReturn(c)
      BY <3>1, Handed DEF Connect, ReadError, HandlerReturn
    <3>2. CASE ~(Connect(c) \/ ReadError(c) \/ HandlerReturn(c))
      BY <2>2, <3>2 DEF PumpStep, PeerGone, Subscribe, RedisSubscribe, Unsubscribe,
                        RedisUnsubscribe, Write, WriterClose, JoinRoom, LeaveRoom
    <3> QED BY <3>1, <3>2
  <2>3. CASE \/ HubRegister \/ MarkOnline \/ HubUnregister \/ HubRedisUnsubscribe
             \/ MarkOffline \/ Cancel \/ \E r \in Rooms : HubUnsubscribe(r)
    BY <2>3 DEF HubRegister, MarkOnline, HubUnregister, HubUnsubscribe, HubRedisUnsubscribe,
                MarkOffline, Cancel
  <2> QED BY <2>1, <2>2, <2>3, HubSteps
<1>2. KnownOf(d)
  BY <1>1 DEF GoneIsKnown, KnownOf
<1>3. CASE CalmStep
  BY <1>2, <1>3, <1>0, KnownByOthers DEF CalmStep, pumps, members
<1>4. ASSUME NEW c \in Clients, PumpStep(c) PROVE KnownOf(d)'
  <2>1. CASE Connect(c)
    <3>1. /\ conn' = [conn EXCEPT ![c] = "open"] /\ reader' = [reader EXCEPT ![c] = "read"]
          /\ writer' = [writer EXCEPT ![c] = "run"]
          /\ UNCHANGED <<left, clients, closed, unregs, mail>> /\ conn[c] = "new"
      BY <2>1 DEF Connect, members
    <3>2. /\ Waiting(d, regs') => Waiting(d, regs) \/ d = c
          /\ Waiting(d, regs) => Waiting(d, regs')
          /\ Waiting(c, regs') \/ c \in lost'
      BY <2>1, Handed DEF Connect
    <3>3. CASE d = c
      <4>1. c \notin left \cup clients
        BY <3>1 DEF HandedOnce
      <4> QED BY <3>1, <3>2, <3>3, <4>1 DEF KnownOf
    <3>4. CASE d # c
      <4>1. conn'[d] = conn[d] /\ reader'[d] = reader[d] /\ writer'[d] = writer[d]
        BY <3>1, <3>4 DEF HubTypeOK
      <4> QED BY <1>2, <3>1, <3>2, <3>4, <4>1 DEF KnownOf
    <3> QED BY <3>3, <3>4
  <2>2. CASE PeerGone(c)
    <3>1. conn' = [conn EXCEPT ![c] = "dead"] /\ conn[c] = "open"
          /\ UNCHANGED <<reader, writer, left, clients, closed, regs, unregs, mail>>
      BY <2>2 DEF PeerGone, members, channels
    <3>2. conn'[d] = "new" <=> conn[d] = "new"
      BY <3>1 DEF HubTypeOK
    <3> QED BY <1>2, <3>1, <3>2 DEF KnownOf
  <2>3. CASE Subscribe(c) \/ RedisSubscribe(c) \/ Unsubscribe(c) \/ RedisUnsubscribe(c)
    <3>1. /\ UNCHANGED <<conn, writer, left, clients, closed, regs, unregs>>
          /\ reader'[d] = "gone" <=> reader[d] = "gone"
      BY SMTT(20), <2>3
         DEF Subscribe, RedisSubscribe, Unsubscribe, RedisUnsubscribe, Reader, members, channels,
             HubTypeOK
    <3>2. mail'[d] >= mail[d]
      <4>1. mail' = mail \/ SendTo({c})
        BY <2>3 DEF Subscribe, RedisSubscribe, Unsubscribe, RedisUnsubscribe
      <4>2. mail[d] >= mail[d]
        BY HubBoundsAssumption DEF HubTypeOK
      <4> QED BY <4>1, <4>2, SendOnlyAdds
    <3> QED BY <1>2, <3>1, <3>2, <1>0, KnownByOthers
  <2>4. CASE ReadError(c)
    <3>1. /\ reader' = [reader EXCEPT ![c] = "gone"] /\ reader[c] = "read"
          /\ UNCHANGED <<conn, writer, left, clients, closed, regs, mail>>
      BY <2>4 DEF ReadError, Reader, members
    <3>2. /\ Waiting(d, unregs) => Waiting(d, unregs')
          /\ Waiting(c, unregs') \/ c \in lost'
      BY <2>4, Handed DEF ReadError
    <3>3. d # c => reader'[d] = reader[d]
      BY <3>1 DEF HubTypeOK
    <3> QED BY <1>2, <3>1, <3>2, <3>3 DEF KnownOf
  <2>5. CASE Write(c)
    <3>1. /\ UNCHANGED <<reader, left, clients, closed, regs, unregs>>
          /\ mail' = [mail EXCEPT ![c] = @ - 1]
          /\ \/ conn[c] = "open" /\ UNCHANGED <<conn, writer>>
             \/ /\ conn' = [conn EXCEPT ![c] = "dead"]
                /\ writer' = [writer EXCEPT ![c] = "gone"]
          /\ writer[c] = "run"
      BY <2>5 DEF Write, members, channels
    <3>2. d # c => mail'[d] = mail[d] /\ conn'[d] = conn[d] /\ writer'[d] = writer[d]
      BY <3>1 DEF HubTypeOK
    <3>3. conn'[c] # "new" /\ (reader[c] = "gone" => writer'[c] = "gone")
      <4>1. reader[c] = "gone" => conn[c] = "dead"
        BY DEF HandedOnce
      <4> QED BY <3>1, <4>1 DEF HubTypeOK
    <3>4. conn[c] # "new"
      BY <3>1 DEF HandedOnce
    <3>5. mail[d] >= mail[d]
      BY HubBoundsAssumption DEF HubTypeOK
    <3> QED BY <1>2, <3>1, <3>2, <3>3, <3>4, <3>5, <1>0, KnownByOthers
  <2>6. CASE WriterClose(c)
    <3>1. /\ UNCHANGED <<reader, left, clients, closed, regs, unregs, mail>>
          /\ conn' = [conn EXCEPT ![c] = "dead"]
          /\ writer' = [writer EXCEPT ![c] = "gone"]
          /\ c \in closed
      BY <2>6 DEF WriterClose, members, channels
    <3>2. d # c => conn'[d] = conn[d] /\ writer'[d] = writer[d]
      BY <3>1 DEF HubTypeOK
    <3>3. writer'[c] = "gone"
      BY <3>1 DEF HubTypeOK
    <3> QED BY <1>2, <3>1, <3>2, <3>3 DEF KnownOf
  <2>7. CASE HandlerReturn(c)
    <3>1. /\ left' = left \cup {c}
          /\ UNCHANGED <<conn, reader, writer, clients, closed, regs, mail>>
      BY <2>7 DEF HandlerReturn, members
    <3>2. /\ Waiting(d, unregs) => Waiting(d, unregs')
          /\ Waiting(c, unregs') \/ c \in lost'
      BY <2>7, Handed DEF HandlerReturn
    <3> QED BY <1>2, <3>1, <3>2 DEF KnownOf
  <2>8. ASSUME NEW r \in Rooms, JoinRoom(c, r) \/ LeaveRoom(c, r) PROVE KnownOf(d)'
    <3>1. /\ UNCHANGED <<conn, writer, left, clients, closed, regs, unregs>>
          /\ reader'[d] = "gone" <=> reader[d] = "gone"
      BY SMTT(20), <2>8 DEF JoinRoom, LeaveRoom, Reader, Reading, channels, HubTypeOK
    <3>2. mail'[d] >= mail[d]
      <4>1. mail' = mail \/ SendTo({c})
        BY <2>8 DEF JoinRoom, LeaveRoom
      <4>2. mail[d] >= mail[d]
        BY HubBoundsAssumption DEF HubTypeOK
      <4> QED BY <4>1, <4>2, SendOnlyAdds
    <3> QED BY <1>2, <3>1, <3>2, <1>0, KnownByOthers
  <2> QED BY <1>4, <2>1, <2>2, <2>3, <2>4, <2>5, <2>6, <2>7, <2>8 DEF PumpStep
<1>5. CASE HubRegister
  <2>1. /\ clients' = clients \cup {Head(regs)} /\ SendTo({Head(regs)})
        /\ UNCHANGED <<conn, reader, writer, left, closed, unregs>>
    BY <1>5 DEF HubRegister, pumps
  <2>2. /\ Head(regs) \in Clients /\ Waiting(Head(regs), regs)
        /\ Waiting(d, regs) <=> Waiting(d, regs') \/ d = Head(regs)
    BY <1>5, Taken
  <2>3. mail'[d] >= mail[d] /\ mail'[Head(regs)] > 0 /\ mail[d] \in Nat /\ mail'[d] \in Nat
    BY SMTT(20), <2>1, <2>2, SendOnlyAdds, HubBoundsAssumption DEF HubTypeOK
  <2>4. mail[d] > 0 => mail'[d] > 0
    BY <2>3
  <2> QED BY <1>2, <2>1, <2>2, <2>3, <2>4 DEF KnownOf
<1>6. CASE HubUnregister
  <2> DEFINE c == Head(unregs)
  <2>1. UNCHANGED <<conn, reader, writer, left, regs, mail>>
    BY <1>6 DEF HubUnregister, pumps
  <2>2. c \in Clients /\ (Waiting(d, unregs) <=> Waiting(d, unregs') \/ d = c)
    BY <1>6, Taken
  <2>3. CASE c \in clients
    <3>1. clients' = clients \ {c} /\ closed' = closed \cup {c}
      BY <1>6, <2>3 DEF HubUnregister
    <3>2. ~Waiting(c, regs)
      BY <2>2, <2>3 DEF HandedOnce
    <3> QED BY <1>2, <2>1, <2>2, <3>1, <3>2 DEF KnownOf
  <2>4. CASE c \notin clients
    <3>1. UNCHANGED <<clients, closed>>
      BY <1>6, <2>4 DEF HubUnregister
    <3>2. c \in left /\ Waiting(c, regs) => c \in lost'
      BY <1>6 DEF HubUnregister
    <3> QED BY <1>2, <2>1, <2>2, <2>4, <3>1, <3>2 DEF KnownOf
  <2> QED BY <2>3, <2>4
<1>7. CASE \/ MarkOnline \/ HubRedisUnsubscribe \/ MarkOffline \/ Cancel
           \/ \E r \in Rooms : HubUnsubscribe(r)
  <2>1. UNCHANGED <<conn, reader, writer, left, clients, closed, regs, unregs, mail>>
    BY <1>7 DEF MarkOnline, HubUnsubscribe, HubRedisUnsubscribe, MarkOffline, Cancel, pumps,
                members, channels
  <2> QED BY <1>2, <2>1 DEF KnownOf
<1> QED BY <1>3, <1>4, <1>5, <1>6, <1>7, HubSteps

-----------------------------------------------------------------------------
(* References *)

\* The read pumps that are about to release a reference are finitely many; one that
\* starts or stops moves their number by one.
LEMMA LeaversAreCounted ==
    ASSUME HubTypeOK, NEW r \in Rooms
    PROVE  /\ Cardinality(Leaving(r)) \in Nat
           /\ \A c \in Clients \ Leaving(r) :
                Cardinality(Leaving(r) \cup {c}) = Cardinality(Leaving(r)) + 1
           /\ \A c \in Leaving(r) :
                /\ Cardinality(Leaving(r) \ {c}) = Cardinality(Leaving(r)) - 1
                /\ Cardinality(Leaving(r)) >= 1
<1>1. IsFiniteSet(Leaving(r))
  BY HubClientsAssumption, FS_Subset DEF Leaving
<1>2. Cardinality(Leaving(r)) \in Nat
  BY <1>1, FS_CardinalityType
<1>3. \A c \in Clients \ Leaving(r) :
        Cardinality(Leaving(r) \cup {c}) = Cardinality(Leaving(r)) + 1
  BY <1>1, FS_AddElement
<1>4. \A c \in Leaving(r) : Cardinality(Leaving(r) \ {c}) = Cardinality(Leaving(r)) - 1
  BY <1>1, FS_RemoveElement
<1>5. ASSUME NEW c \in Leaving(r) PROVE Cardinality(Leaving(r)) >= 1
  <2>1. Cardinality(Leaving(r)) # 0
    BY <1>1, <1>5, FS_EmptySet
  <2> QED BY <1>2, <2>1
<1> QED BY <1>2, <1>3, <1>4, <1>5

\* What RoomsAreCounted says of one room.
CountedIn(r) == refs[r] >= Ending(r) + IF rooms[r] = {} \/ Joining(r) THEN 0 ELSE 1

\* A room stays counted when no reference, member or release of it moves and no
\* join of it ends.
LEMMA CountedByOthers ==
    ASSUME HubTypeOK, NEW r \in Rooms, CountedIn(r),
           refs'[r] = refs[r], rooms[r] = {} => rooms'[r] = {},
           Leaving(r)' = Leaving(r), r \in hub'.todo => r \in hub.todo,
           Joining(r) => Joining(r)'
    PROVE  CountedIn(r)'
<1>1. Cardinality(Leaving(r)) \in Nat /\ refs[r] \in Nat
  BY LeaversAreCounted DEF HubTypeOK
<1>2. Cardinality(Leaving(r))' = Cardinality(Leaving(r))
  OBVIOUS
<1> QED BY <1>1, <1>2 DEF CountedIn, Ending

\* A read pump that moves between other places than the two that count.
LEMMA ReadersElsewhere ==
    ASSUME HubTypeOK, NEW r \in Rooms,
           \A c \in Clients :
             /\ reader'[c] = "unsubscribe" /\ at'[c] = r <=> reader[c] = "unsubscribe" /\ at[c] = r
             /\ reader'[c] = "subscribe" /\ at'[c] = r <=> reader[c] = "subscribe" /\ at[c] = r
    PROVE  Leaving(r)' = Leaving(r) /\ (Joining(r)' <=> Joining(r))
BY DEF Leaving, Joining

\* A room that only c is in is joined by nobody whose reference is missing, if c is
\* not joining.
LEMMA AloneIsCounted ==
    ASSUME HubTypeOK, RoomsAgree, NEW r \in Rooms, CountedIn(r), NEW c \in Clients,
           rooms[r] = {c}, reader[c] # "subscribe"
    PROVE  ~Joining(r) /\ refs[r] >= Ending(r) + 1
<1>1. ~Joining(r)
  BY DEF Joining, RoomsAgree
<1>2. rooms[r] # {}
  OBVIOUS
<1> QED BY <1>1, <1>2 DEF CountedIn

\* A room with members keeps a reference, whatever the order in which joins and
\* leaves get from one lock to the other.
LEMMA NextCounted ==
    ASSUME HubTypeOK, HandedOnce, RoomsAgree, RestIsDone, [HubNext]_hubVars,
           NEW r \in Rooms, CountedIn(r)
    PROVE  CountedIn(r)'
<1> DEFINE n == Cardinality(Leaving(r))
           member == IF rooms[r] = {} \/ Joining(r) THEN 0 ELSE 1
           held == IF r \in hub.todo THEN 1 ELSE 0
<1>0. n \in Nat /\ refs[r] \in Nat /\ refs[r] >= n + held + member
      /\ held \in {0, 1} /\ member \in {0, 1}
  BY LeaversAreCounted DEF HubTypeOK, CountedIn, Ending
<1>1. CASE CalmStep
  <2>1. UNCHANGED <<reader, at, refs, hub, rooms>>
    BY <1>1 DEF CalmStep, pumps, members
  <2> QED BY <2>1, ReadersElsewhere, CountedByOthers
<1>2. ASSUME NEW c \in Clients, PumpStep(c) PROVE CountedIn(r)'
  <2> USE DEF HubTypeOK
  <2>1. CASE Connect(c)
    <3>1. reader[c] = "none" /\ reader' = [reader EXCEPT ![c] = "read"] /\ at' = at
          /\ UNCHANGED <<refs, hub, rooms>>
      BY <2>1 DEF Connect, HandedOnce, members, redis
    <3> QED BY <3>1, ReadersElsewhere, CountedByOthers
  <2>2. CASE PeerGone(c) \/ Write(c) \/ WriterClose(c) \/ HandlerReturn(c)
    <3>1. UNCHANGED <<reader, at, refs, hub, rooms>>
      BY <2>2 DEF PeerGone, Write, WriterClose, HandlerReturn, members, redis
    <3> QED BY <3>1, ReadersElsewhere, CountedByOthers
  <2>3. CASE Subscribe(c)
    <3>1. /\ reader[c] = "subscribe" /\ at[c] \in Rooms /\ c \in rooms[at[c]]
          /\ refs' = [refs EXCEPT ![at[c]] = @ + 1] /\ UNCHANGED <<hub, rooms>>
      BY <2>3 DEF Subscribe, RoomsAgree, members
    <3>2. \/ reader' = [reader EXCEPT ![c] = "subscribing"] /\ at' = [at EXCEPT ![c] = at[c]]
          \/ reader' = [reader EXCEPT ![c] = "read"] /\ at' = [at EXCEPT ![c] = NoRoom]
      BY <2>3 DEF Subscribe, Reader
    <3>3. Leaving(r)' = Leaving(r)
      BY <3>1, <3>2 DEF Leaving
    <3>4. CASE at[c] = r
      <4>1. refs'[r] = refs[r] + 1
        BY <3>1, <3>4
      <4>2. CountedIn(r)' <=> refs'[r] >= Cardinality(Leaving(r)') + (IF r \in hub'.todo THEN 1 ELSE 0)
                                  + IF rooms'[r] = {} \/ Joining(r)' THEN 0 ELSE 1
        BY DEF CountedIn, Ending
      <4> QED BY <1>0, <3>1, <3>3, <4>1, <4>2
    <3>5. CASE at[c] # r
      <4>1. refs'[r] = refs[r]
        BY <3>1, <3>5
      <4>2. Joining(r) => Joining(r)'
        BY <3>1, <3>2, <3>5 DEF Joining
      <4> QED BY <3>1, <3>3, <4>1, <4>2, CountedByOthers
    <3> QED BY <3>4, <3>5
  <2>4. CASE RedisSubscribe(c)
    <3>1. /\ reader[c] = "subscribing" /\ reader' = [reader EXCEPT ![c] = "read"]
          /\ at' = [at EXCEPT ![c] = NoRoom] /\ UNCHANGED <<refs, hub, rooms>>
      BY <2>4 DEF RedisSubscribe, Reader, members
    <3> QED BY <3>1, ReadersElsewhere, CountedByOthers
  <2>5. CASE Unsubscribe(c)
    <3>1. /\ reader[c] = "unsubscribe" /\ at[c] \in Rooms
          /\ refs' = Released(at[c]) /\ UNCHANGED <<hub, rooms>>
      BY <2>5 DEF Unsubscribe, RoomsAgree, members
    <3>2. \/ reader' = [reader EXCEPT ![c] = "unsubscribing"] /\ at' = [at EXCEPT ![c] = at[c]]
          \/ reader' = [reader EXCEPT ![c] = "read"] /\ at' = [at EXCEPT ![c] = NoRoom]
      BY <2>5 DEF Unsubscribe, Reader
    <3>3. Leaving(r)' = Leaving(r) \ {c} /\ (Joining(r) => Joining(r)')
      <4>1. reader'[c] \notin {"subscribe", "unsubscribe"}
            /\ \A d \in Clients \ {c} : reader'[d] = reader[d] /\ at'[d] = at[d]
        BY <3>2
      <4> HIDE DEF HubTypeOK
      <4> QED BY <3>1, <4>1 DEF Leaving, Joining
    <3>4. CASE at[c] = r
      <4>1. c \in Leaving(r)
        BY <3>1, <3>4 DEF Leaving
      <4>2. Cardinality(Leaving(r)') = n - 1 /\ n >= 1
        BY <3>3, <4>1, LeaversAreCounted
      <4>3. refs'[r] = refs[r] - 1
        BY <1>0, <3>1, <3>4, <4>2 DEF Released
      <4>4. CountedIn(r)' <=> refs'[r] >= Cardinality(Leaving(r)') + (IF r \in hub'.todo THEN 1 ELSE 0)
                                  + IF rooms'[r] = {} \/ Joining(r)' THEN 0 ELSE 1
        BY DEF CountedIn, Ending
      <4> QED BY <1>0, <3>1, <3>3, <4>2, <4>3, <4>4
    <3>5. CASE at[c] # r
      <4>1. refs'[r] = refs[r]
        BY <3>1, <3>5 DEF Released
      <4>2. Leaving(r)' = Leaving(r)
        BY <3>3, <3>5 DEF Leaving
      <4> QED BY <3>1, <3>3, <4>1, <4>2, CountedByOthers
    <3> QED BY <3>4, <3>5
  <2>6. CASE RedisUnsubscribe(c)
    <3>1. /\ reader[c] = "unsubscribing" /\ reader' = [reader EXCEPT ![c] = "read"]
          /\ at' = [at EXCEPT ![c] = NoRoom] /\ UNCHANGED <<refs, hub, rooms>>
      BY <2>6 DEF RedisUnsubscribe, Reader, members
    <3> QED BY <3>1, ReadersElsewhere, CountedByOthers
  <2>7. CASE ReadError(c)
    <3>1. /\ reader[c] = "read" /\ reader' = [reader EXCEPT ![c] = "gone"]
          /\ at' = [at EXCEPT ![c] = NoRoom] /\ UNCHANGED <<refs, hub, rooms>>
      BY <2>7 DEF ReadError, Reader, members, redis
    <3> QED BY <3>1, ReadersElsewhere, CountedByOthers
  <2>8. ASSUME NEW q \in Rooms, JoinRoom(c, q) PROVE CountedIn(r)'
    <3>1. /\ reader[c] = "read" /\ rooms' = [rooms EXCEPT ![q] = @ \cup {c}]
          /\ reader' = [reader EXCEPT ![c] = "subscribe"] /\ at' = [at EXCEPT ![c] = q]
          /\ UNCHANGED <<refs, hub>>
      BY <2>8 DEF JoinRoom, Reading, Reader, redis
    <3>2. Leaving(r)' = Leaving(r) /\ (Joining(r) => Joining(r)')
      BY <3>1 DEF Leaving, Joining
    <3>3. CASE q = r
      <4>1. Joining(r)'
        BY <3>1, <3>3 DEF Joining
      <4>2. CountedIn(r)' <=> refs'[r] >= Cardinality(Leaving(r)') + (IF r \in hub'.todo THEN 1 ELSE 0)
                                  + IF rooms'[r] = {} \/ Joining(r)' THEN 0 ELSE 1
        BY DEF CountedIn, Ending
      <4> QED BY <1>0, <3>1, <3>2, <4>1, <4>2
    <3>4. CASE q # r
      <4>1. rooms'[r] = rooms[r]
        BY <3>1, <3>4
      <4> QED BY <3>1, <3>2, <4>1, CountedByOthers
    <3> QED BY <3>3, <3>4
  <2>9. ASSUME NEW q \in Rooms, LeaveRoom(c, q) PROVE CountedIn(r)'
    <3>1. /\ reader[c] = "read" /\ rooms' = [rooms EXCEPT ![q] = @ \ {c}]
          /\ UNCHANGED <<refs, hub>>
      BY <2>9 DEF LeaveRoom, Reading, redis
    <3>2. CASE rooms[q] = {c}
      <4>1. reader' = [reader EXCEPT ![c] = "unsubscribe"] /\ at' = [at EXCEPT ![c] = q]
        BY <2>9, <3>2 DEF LeaveRoom, Emptied, Reader
      <4>2. Joining(r) => Joining(r)'
        BY <3>1, <4>1 DEF Joining
      <4>3. CASE q = r
        <5>1. refs[r] >= n + held + 1
          BY <3>1, <3>2, <4>3, AloneIsCounted DEF Ending
        <5>2. c \notin Leaving(r) /\ Leaving(r)' = Leaving(r) \cup {c}
          BY <3>1, <4>1, <4>3 DEF Leaving
        <5>3. Cardinality(Leaving(r)') = n + 1
          BY <5>2, LeaversAreCounted
        <5>4. rooms'[r] = {}
          BY <3>1, <3>2, <4>3
        <5>5. CountedIn(r)' <=> refs'[r] >= Cardinality(Leaving(r)') + (IF r \in hub'.todo THEN 1 ELSE 0)
                                    + IF rooms'[r] = {} \/ Joining(r)' THEN 0 ELSE 1
          BY DEF CountedIn, Ending
        <5> QED BY <1>0, <3>1, <5>1, <5>3, <5>4, <5>5
      <4>4. CASE q # r
        <5>1. rooms'[r] = rooms[r] /\ Leaving(r)' = Leaving(r)
          BY <3>1, <4>1, <4>4 DEF Leaving
        <5> QED BY <3>1, <4>2, <5>1, CountedByOthers
      <4> QED BY <4>3, <4>4
    <3>3. CASE rooms[q] # {c}
      <4>1. UNCHANGED <<reader, at>>
        BY <2>9, <3>3 DEF LeaveRoom, Emptied
      <4>2. rooms[r] = {} => rooms'[r] = {}
        BY <3>1
      <4> QED BY <3>1, <4>1, <4>2, ReadersElsewhere, CountedByOthers
    <3> QED BY <3>2, <3>3
  <2> QED BY <1>2, <2>1, <2>2, <2>3, <2>4, <2>5, <2>6, <2>7, <2>8, <2>9 DEF PumpStep
<1>3. CASE HubRegister \/ MarkOnline \/ MarkOffline \/ Cancel
  <2>1. UNCHANGED <<reader, at, refs, rooms>>
    BY <1>3 DEF HubRegister, MarkOnline, MarkOffline, Cancel, pumps, members, redis
  <2>2. \/ hub' = Select
        \/ hub' = [Select EXCEPT !.pc = "online", !.c = Head(regs)]
        \/ hub' = [Select EXCEPT !.pc = "stopped"]
    BY <1>3 DEF HubRegister, MarkOnline, MarkOffline, Cancel
  <2>3. hub'.todo = {}
    <3>1. CASE hub' = Select
      BY <3>1 DEF Select
    <3>2. CASE hub' # Select
      BY <2>2, <3>2 DEF Select
    <3> QED BY <3>1, <3>2
  <2> QED BY <2>1, <2>3, ReadersElsewhere, CountedByOthers
<1>4. CASE HubUnregister
  <2> DEFINE c == Head(unregs)
  <2>1. /\ UNCHANGED <<reader, at, refs>> /\ hub.todo = {}
        /\ c \in Clients /\ reader[c] = "gone"
    BY <1>4, Taken DEF HubUnregister, pumps, redis, HandedOnce, RestIsDone
  <2>2. Leaving(r)' = Leaving(r) /\ (Joining(r)' <=> Joining(r))
    BY <2>1, ReadersElsewhere
  <2>3. CASE r \in hub'.todo
    <3>1. c \in clients /\ r \in mine[c] /\ rooms[r] = {c} /\ rooms' = Without(c)
      BY <1>4, <2>3 DEF HubUnregister, Emptied
    <3>2. refs[r] >= n + held + 1
      BY <2>1, <3>1, AloneIsCounted DEF Ending
    <3>3. rooms'[r] = {}
      BY <3>1 DEF Without
    <3>4. CountedIn(r)' <=> refs'[r] >= Cardinality(Leaving(r)') + (IF r \in hub'.todo THEN 1 ELSE 0)
                                + IF rooms'[r] = {} \/ Joining(r)' THEN 0 ELSE 1
      BY DEF CountedIn, Ending
    <3> QED BY <1>0, <2>1, <2>2, <2>3, <3>2, <3>3, <3>4
  <2>4. CASE r \notin hub'.todo
    <3>1. rooms' = rooms \/ rooms' = Without(c)
      BY <1>4 DEF HubUnregister
    <3>2. rooms[r] = {} => rooms'[r] = {}
      BY <3>1 DEF Without
    <3> QED BY <2>1, <2>2, <2>4, <3>2, CountedByOthers
  <2> QED BY <2>3, <2>4
<1>5. CASE HubRedisUnsubscribe
  <2>1. UNCHANGED <<reader, at, refs, rooms>> /\ hub'.todo = hub.todo
    BY <1>5 DEF HubRedisUnsubscribe, pumps, members, HubTypeOK
  <2> QED BY <2>1, ReadersElsewhere, CountedByOthers
<1>6. ASSUME NEW q \in Rooms, HubUnsubscribe(q) PROVE CountedIn(r)'
  <2>1. /\ UNCHANGED <<reader, at, rooms>> /\ refs' = Released(q)
        /\ q \in hub.todo
    BY <1>6 DEF HubUnsubscribe, pumps, members
  <2>2. hub'.todo = hub.todo \ {q}
    BY <1>6 DEF HubUnsubscribe, HubTypeOK
  <2>3. Leaving(r)' = Leaving(r) /\ (Joining(r)' <=> Joining(r))
    BY <2>1, ReadersElsewhere
  <2>4. CASE q = r
    <3>1. refs'[r] = refs[r] - 1 /\ held = 1
      BY <1>0, <2>1, <2>4 DEF Released, HubTypeOK
    <3>2. CountedIn(r)' <=> refs'[r] >= Cardinality(Leaving(r)') + (IF r \in hub'.todo THEN 1 ELSE 0)
                                + IF rooms'[r] = {} \/ Joining(r)' THEN 0 ELSE 1
      BY DEF CountedIn, Ending
    <3> QED BY <1>0, <2>1, <2>2, <2>3, <2>4, <3>1, <3>2
  <2>5. CASE q # r
    <3>1. refs'[r] = refs[r]
      BY <2>1, <2>5 DEF Released, HubTypeOK
    <3> QED BY <2>1, <2>2, <2>3, <3>1, CountedByOthers
  <2> QED BY <2>4, <2>5
<1> QED BY <1>1, <1>2, <1>3, <1>4, <1>5, <1>6, HubSteps

-----------------------------------------------------------------------------
(* The theorems *)

\* The inductive invariant holds of the initial states.
LEMMA InitHub == HubInit => HubInv
<1> SUFFICES ASSUME HubInit PROVE HubInv
  OBVIOUS
<1> USE HubBoundsAssumption, HubNamesAssumption DEF HubInit
<1>1. HubTypeOK
  <2>1. hub \in [pc : HubPC, c : Clients \cup {NoClient}, todo : SUBSET Rooms,
                 r : Rooms \cup {NoRoom}]
    BY DEF Select, HubPC
  <2>2. regs \in Seq(Clients) /\ unregs \in Seq(Clients) /\ casts \in Seq(Rooms)
        /\ Len(regs) = 0 /\ Len(unregs) = 0 /\ Len(casts) = 0
    OBVIOUS
  <2>3. mail \in [Clients -> 0..SendBuffer] /\ refs \in [Rooms -> Nat]
        /\ sent \in 0..MaxMessages /\ hubFaults \in 0..MaxHubFaults
    OBVIOUS
  <2>4. /\ reader \in [Clients -> {"none", "read", "subscribe", "subscribing",
                                   "unsubscribe", "unsubscribing", "gone"}]
        /\ conn \in [Clients -> {"new", "open", "dead"}]
    OBVIOUS
  <2>5. /\ at \in [Clients -> Rooms \cup {NoRoom}]
        /\ writer \in [Clients -> {"none", "run", "gone"}]
    OBVIOUS
  <2>6. rooms \in [Rooms -> SUBSET Clients] /\ mine \in [Clients -> SUBSET Rooms]
    OBVIOUS
  <2>7. /\ left \subseteq Clients /\ clients \subseteq Clients /\ closed \subseteq Clients
        /\ lost \subseteq Clients /\ subscribed \subseteq Rooms /\ wire \subseteq Rooms
    OBVIOUS
  <2>8. count \in Int /\ phase \in {"up", "stopping", "down"}
    OBVIOUS
  <2>9. online \in BOOLEAN
    OBVIOUS
  <2>10. Len(regs) <= ChanCap /\ Len(unregs) <= ChanCap /\ Len(casts) <= ChanCap
    BY <2>2
  <2> HIDE DEF HubInit
  <2> QED
    BY <2>1, <2>2, <2>3, <2>4, <2>5, <2>6, <2>7, <2>8, <2>9, <2>10 DEF HubTypeOK
<1>2. HandedOnce /\ RoomsAgree /\ SendStaysOpen
  BY DEF HandedOnce, RoomsAgree, SendStaysOpen, Waiting, NoneTwice
<1>3. RestIsDone /\ GoneIsKnown
  BY DEF RestIsDone, GoneIsKnown, Select
<1>4. CountFits
  <2>1. Cardinality({}) = 0
    BY FS_EmptySet
  <2> QED BY <2>1 DEF CountFits, Releasing, Select
<1>5. ASSUME NEW r \in Rooms PROVE CountedIn(r)
  <2>1. Leaving(r) = {}
    BY DEF Leaving
  <2>2. Cardinality(Leaving(r)) = 0
    BY <2>1, FS_EmptySet
  <2> QED BY <2>2 DEF CountedIn, Ending, Select
<1>6. RegistriesAgree
  BY <1>1, <1>5 DEF RegistriesAgree, RoomsAreCounted, OnlineIsConnected, CountedIn
<1> QED BY <1>1, <1>2, <1>3, <1>4, <1>6 DEF HubInv

\* Every step keeps the inductive invariant.
LEMMA NextHub == HubInv /\ [HubNext]_hubVars => HubInv'
<1> SUFFICES ASSUME HubInv, [HubNext]_hubVars PROVE HubInv'
  OBVIOUS
<1>1. /\ HubTypeOK /\ HandedOnce /\ RoomsAgree /\ SendStaysOpen
      /\ RestIsDone /\ CountFits /\ GoneIsKnown /\ OnlineIsConnected
      /\ \A r \in Rooms : CountedIn(r)
  BY DEF HubInv, RegistriesAgree, RoomsAreCounted, CountedIn
<1>2. HubTypeOK'
  BY <1>1, NextHubType
<1>3. HandedOnce'
  BY <1>1, NextHandedOnce
<1>4. RoomsAgree'
  BY <1>1, NextRoomsAgree
<1>5. SendStaysOpen'
  BY <1>1, NextSendStaysOpen
<1>6. RestIsDone'
  BY <1>1, NextRestIsDone
<1>7. CountFits'
  BY <1>1, NextCountFits
<1>8. GoneIsKnown'
  BY <1>1, <1>2, NextGoneIsKnown
<1>9. OnlineIsConnected'
  BY <1>1, NextOnlineIsConnected
<1>10. \A r \in Rooms : CountedIn(r)'
  BY <1>1, NextCounted
<1>11. RegistriesAgree'
  BY <1>2, <1>9, <1>10 DEF RegistriesAgree, RoomsAreCounted, CountedIn
<1> QED BY <1>2, <1>3, <1>4, <1>5, <1>6, <1>7, <1>8, <1>11 DEF HubInv

\* The inductive invariant is one.
LEMMA HubInvHolds == HubSpec => []HubInv
BY InitHub, NextHub, PTL DEF HubSpec

\* The hub and its connections keep their types.
THEOREM HubTypes == HubSpec => []HubTypeOK
<1>1. HubInv => HubTypeOK
  BY DEF HubInv
<1> QED BY <1>1, HubInvHolds, PTL

\* Nothing is sent on a closed Send channel and none is closed twice, although a
\* client is unregistered twice, and reads, joins and leaves while the hub works
\* (websocket_hub.go, unregisterClient; websocket_client.go, ReadPump).
THEOREM SendStaysOpenAlways == HubSpec => []SendStaysOpen
<1>1. HubInv => SendStaysOpen
  BY DEF HubInv
<1> QED BY <1>1, HubInvHolds, PTL

\* A room with members keeps its reference and a user shown online its connection,
\* whatever the order in which joins, leaves and the ends of connections get from
\* one lock to the other (websocket_hub.go, websocket_redis.go,
\* websocket_presence.go).
THEOREM RegistriesAlwaysAgree == HubSpec => []RegistriesAgree
<1>1. HubInv => RegistriesAgree
  BY DEF HubInv
<1> QED BY <1>1, HubInvHolds, PTL

\* A connection that is gone, and of which no channel holds anything, is forgotten
\* or about to be (websocket_hub.go, unregisterClient; HandleUpgrade).
THEOREM GoneAreReleased == HubSpec => []GoneConnectionsAreReleased
<1>1. HubInv => GoneConnectionsAreReleased
  <2> SUFFICES ASSUME HubInv, NEW c \in Clients,
                      reader[c] = "gone", ~Pending(c), c \notin lost
               PROVE  IF c \in left
                      THEN c \notin clients /\ \A r \in Rooms : c \notin rooms[r]
                      ELSE writer[c] = "gone" \/ mail[c] > 0 \/ c \in closed
    BY DEF GoneConnectionsAreReleased
  <2>1. ~Waiting(c, regs) /\ ~Waiting(c, unregs)
    BY DEF Pending
  <2>2. conn[c] = "dead"
    BY DEF HubInv, HandedOnce
  <2>3. /\ c \in clients \cup closed
        /\ c \in left /\ c \in clients => FALSE
        /\ c \in clients \ left => writer[c] = "gone" \/ mail[c] > 0
    BY <2>1, <2>2 DEF HubInv, GoneIsKnown
  <2>4. c \in closed => \A r \in Rooms : c \notin rooms[r]
    BY DEF HubInv, SendStaysOpen
  <2> QED BY <2>3, <2>4
<1> QED BY <1>1, HubInvHolds, PTL

=============================================================================
