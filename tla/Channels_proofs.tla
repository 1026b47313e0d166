-------------------------- MODULE Channels_proofs --------------------------
(***************************************************************************)
(* Proofs about Channels, for any connections, channels, ids and limits:   *)
(* clients subscribe under whatever ids they like.                         *)
(***************************************************************************)
EXTENDS Channels, SequenceTheorems, TLAPS

-----------------------------------------------------------------------------
(* Sequences of messages.                                                  *)

LEMMA LastProperties ==
  ASSUME NEW ch \in Channel, NEW n \in Nat, queues[ch] \in Seq(Message)
  PROVE  /\ Last(ch, n) \in Seq(Message)
         /\ \A m \in Nat : UpTo(queues[ch], m) => UpTo(Last(ch, n), m)
<1> DEFINE q == queues[ch]
           start == IF n > Len(q) THEN 0 ELSE Len(q) - n
<1>1. Len(q) \in Nat
  BY LenProperties
<1>2. start \in 0 .. Len(q)
  BY <1>1
<1>3. \A i \in start + 1 .. Len(q) : q[i] \in Message
  BY <1>1, <1>2, ElementOfSeq
<1>4. Last(ch, n) = SubSeq(q, start + 1, Len(q))
  BY DEF Last
<1> HIDE DEF q, start
<1>5. /\ Last(ch, n) \in Seq(Message)
      /\ Len(Last(ch, n)) = Len(q) - start
      /\ \A i \in 1 .. Len(q) - start : Last(ch, n)[i] = q[start + i]
  BY <1>1, <1>2, <1>3, <1>4, SubSeqProperties
<1>6. ASSUME NEW m \in Nat, UpTo(q, m) PROVE UpTo(Last(ch, n), m)
  <2> SUFFICES ASSUME NEW i \in 1 .. Len(q) - start
               PROVE  Last(ch, n)[i] = m - (Len(q) - start) + i
    BY <1>5 DEF UpTo
  <2>1. start + i \in 1 .. Len(q)
    BY <1>1, <1>2
  <2> QED BY <1>1, <1>2, <1>5, <1>6, <2>1 DEF UpTo
<1> QED BY <1>5, <1>6 DEF q

LEMMA AppendUpTo ==
  ASSUME NEW s \in Seq(Message), NEW m \in Nat, m + 1 \in Message
  PROVE  /\ Append(s, m + 1) \in Seq(Message)
         /\ UpTo(s, m) => UpTo(Append(s, m + 1), m + 1)
<1>1. /\ Len(s) \in Nat
      /\ Append(s, m + 1) \in Seq(Message)
      /\ Len(Append(s, m + 1)) = Len(s) + 1
      /\ \A i \in 1 .. Len(s) : Append(s, m + 1)[i] = s[i]
      /\ Append(s, m + 1)[Len(s) + 1] = m + 1
  BY AppendProperties, LenProperties
<1>2. ASSUME UpTo(s, m), NEW i \in 1 .. Len(s) + 1
      PROVE  Append(s, m + 1)[i] = m + 1 - (Len(s) + 1) + i
  <2>1. CASE i = Len(s) + 1
    BY <1>1, <2>1
  <2>2. CASE i # Len(s) + 1
    <3>1. i \in 1 .. Len(s)
      BY <1>1, <2>2
    <3> QED BY <1>1, <1>2, <3>1 DEF UpTo
  <2> QED BY <2>1, <2>2
<1> QED BY <1>1, <1>2 DEF UpTo

LEMMA AddedProperties ==
  ASSUME NEW ch \in Channel, NEW m \in Nat, m + 1 \in Message,
         queues[ch] \in Seq(Message)
  PROVE  /\ Added(ch, m + 1) \in Seq(Message)
         /\ UpTo(queues[ch], m) => UpTo(Added(ch, m + 1), m + 1)
<1> DEFINE t == Append(queues[ch], m + 1)
<1>1. /\ t \in Seq(Message)
      /\ UpTo(queues[ch], m) => UpTo(t, m + 1)
  BY AppendUpTo
<1>2. t # << >> /\ Len(t) \in Nat
  <2>1. Len(t) = Len(queues[ch]) + 1 /\ Len(queues[ch]) \in Nat
    BY AppendProperties, LenProperties
  <2> QED BY <2>1, EmptySeq
<1> HIDE DEF t
<1>3. /\ Tail(t) \in Seq(Message)
      /\ Len(Tail(t)) = Len(t) - 1
      /\ \A i \in 1 .. Len(Tail(t)) : Tail(t)[i] = t[i + 1]
  BY <1>1, <1>2, HeadTailProperties
<1>4. ASSUME UpTo(t, m + 1) PROVE UpTo(Tail(t), m + 1)
  <2> SUFFICES ASSUME NEW i \in 1 .. Len(t) - 1
               PROVE  Tail(t)[i] = m + 1 - (Len(t) - 1) + i
    BY <1>3 DEF UpTo
  <2>1. i + 1 \in 1 .. Len(t)
    BY <1>2
  <2> QED BY <1>2, <1>3, <1>4, <2>1 DEF UpTo
<1>5. Added(ch, m + 1) = t \/ Added(ch, m + 1) = Tail(t)
  BY DEF Added, t
<1> QED BY <1>1, <1>3, <1>4, <1>5

-----------------------------------------------------------------------------
(* Types.                                                                  *)

LEMMA InitTypes == Init => TypeOK
<1> SUFFICES ASSUME Init PROVE TypeOK
  OBVIOUS
<1>1. << >> \in Seq(Message)
  BY EmptySeq
<1>2. 0 \in 0 .. MaxMessages
  BY ChannelsAssumption
<1> QED BY <1>1, <1>2, ChannelsAssumption DEF Init, TypeOK

LEMMA UnsubscribeTypes ==
  ASSUME TypeOK, NEW id \in SubId, NEW chs \in SUBSET Channel,
         Unsubscribe(id, chs)
  PROVE  subs' \in [Channel -> [SubId -> Conn \cup {NoConn}]]
         /\ timers' \in SUBSET Channel
BY DEF TypeOK, Unsubscribe

LEMMA NextTypes == TypeOK /\ [Next]_vars => TypeOK'
<1> SUFFICES ASSUME TypeOK, [Next]_vars PROVE TypeOK'
  OBVIOUS
<1>1. ASSUME NEW c \in Conn, Connect(c) PROVE TypeOK'
  BY <1>1 DEF Connect, TypeOK
<1>2. ASSUME NEW c \in Conn, Disconnect(c) PROVE TypeOK'
  <2>1. subs' \in [Channel -> [SubId -> Conn \cup {NoConn}]]
        /\ timers' \in SUBSET Channel
    <3>1. c \in SubId /\ channels \in SUBSET Channel
      BY ChannelsAssumption DEF TypeOK
    <3> QED BY <1>2, <3>1, UnsubscribeTypes DEF Disconnect
  <2> QED BY <1>2, <2>1 DEF Disconnect, TypeOK
<1>3. ASSUME NEW c \in Conn, NEW id \in SubId, NEW ch \in Channel,
             NEW n \in 0 .. MaxMessages, HandleSub(c, id, ch, n)
      PROVE  TypeOK'
  <2>1. Last(ch, n) \in Seq(Message)
    <3>1. n \in Nat /\ queues[ch] \in Seq(Message)
      BY ChannelsAssumption DEF TypeOK
    <3> QED BY <3>1, LastProperties
  <2>2. seen' \in [Channel -> [SubId -> Seq(Message)]]
    BY <1>3, <2>1 DEF HandleSub, TypeOK
  <2>3. /\ subs' \in [Channel -> [SubId -> Conn \cup {NoConn}]]
        /\ channels' \in SUBSET Channel
        /\ timers' \in SUBSET Channel
    BY <1>3 DEF HandleSub, Subscribe, TypeOK
  <2> QED BY <1>3, <2>2, <2>3 DEF HandleSub, TypeOK
<1>4. ASSUME NEW c \in Conn, NEW ch \in Channel, HandleUnsub(c, ch)
      PROVE  TypeOK'
  <2>1. subs' \in [Channel -> [SubId -> Conn \cup {NoConn}]]
        /\ timers' \in SUBSET Channel
    BY <1>4, ChannelsAssumption, UnsubscribeTypes DEF HandleUnsub
  <2> QED BY <1>4, <2>1 DEF HandleUnsub, TypeOK
<1>5. ASSUME NEW ch \in Channel, HandlePub(ch) PROVE TypeOK'
  <2>1. /\ published[ch] \in Nat /\ published[ch] + 1 \in Message
        /\ published[ch] + 1 \in 0 .. MaxMessages
    BY <1>5, ChannelsAssumption DEF HandlePub, TypeOK, Message
  <2>2. Added(ch, published[ch] + 1) \in Seq(Message)
    BY <2>1, AddedProperties DEF TypeOK
  <2>3. \A id \in SubId : Append(seen[ch][id], published[ch] + 1)
                            \in Seq(Message)
    BY <2>1, AppendUpTo DEF TypeOK
  <2>4. seen' \in [Channel -> [SubId -> Seq(Message)]]
    BY <1>5, <2>3 DEF HandlePub, TypeOK
  <2>5. /\ queues' \in [Channel -> Seq(Message)]
        /\ published' \in [Channel -> 0 .. MaxMessages]
    BY <1>5, <2>1, <2>2 DEF HandlePub, TypeOK
  <2> QED BY <1>5, <2>4, <2>5 DEF HandlePub, TypeOK
<1>6. ASSUME NEW ch \in Channel, RemoveChannel(ch) PROVE TypeOK'
  BY <1>6 DEF RemoveChannel, TypeOK
<1>7. ASSUME NEW l \in Limit, SetLimit(l) PROVE TypeOK'
  BY <1>7, ChannelsAssumption DEF SetLimit, TypeOK
<1>8. CASE UNCHANGED vars
  BY <1>8 DEF vars, TypeOK
<1> QED BY <1>1, <1>2, <1>3, <1>4, <1>5, <1>6, <1>7, <1>8 DEF Next

\* Every variable keeps to its type.
THEOREM TypeCorrect == Spec => []TypeOK
BY InitTypes, NextTypes, PTL DEF Spec

-----------------------------------------------------------------------------
(* The removal of empty channels.                                          *)

SubscribersInChannels ==
  \A ch \in Channel, id \in SubId : Subscribed(ch, id) => ch \in channels

TimerInv == SubscribersInChannels /\ TimersOfEmpty

\* A channel is empty after an unsubscription if it was empty before, or if
\* the id was its only subscriber.
LEMMA UnsubscribeTimers ==
  ASSUME TypeOK, TimerInv, NEW id \in SubId, NEW chs \in SUBSET channels,
         Unsubscribe(id, chs), channels' = channels
  PROVE  TimerInv'
<1>1. \A ch \in Channel, i \in SubId :
        subs'[ch][i] = IF ch \in chs /\ i = id THEN NoConn ELSE subs[ch][i]
  BY DEF Unsubscribe, TypeOK
<1>2. SubscribersInChannels'
  BY <1>1 DEF SubscribersInChannels, Subscribed, TimerInv
<1>3. \A ch \in Channel :
        Subscribers(ch)' = IF ch \in chs THEN Subscribers(ch) \ {id}
                                         ELSE Subscribers(ch)
  BY <1>1 DEF Subscribers, Subscribed
<1>4. chs \subseteq Channel /\ channels \subseteq Channel
  BY DEF TypeOK
<1>5. \A ch \in channels : ch \in timers' <=> Subscribers(ch)' = {}
  BY <1>3, <1>4 DEF Unsubscribe, TimerInv, TimersOfEmpty
<1>6. timers' \subseteq channels
  BY <1>4 DEF Unsubscribe, TimerInv, TimersOfEmpty
<1>7. TimersOfEmpty'
  BY <1>5, <1>6 DEF TimersOfEmpty
<1> QED BY <1>2, <1>7 DEF TimerInv

LEMMA SubscribeTimers ==
  ASSUME TypeOK, TimerInv, NEW id \in SubId, NEW ch \in Channel,
         NEW c \in Conn, Subscribe(id, ch, c)
  PROVE  TimerInv'
<1>1. \A k \in Channel, i \in SubId :
        Subscribed(k, i)' <=> Subscribed(k, i) \/ (k = ch /\ i = id)
  BY ChannelsAssumption DEF Subscribe, TypeOK, Subscribed
<1>2. SubscribersInChannels'
  BY <1>1 DEF SubscribersInChannels, Subscribe, TimerInv
<1>3. id \in Subscribers(ch)'
  BY <1>1 DEF Subscribers
<1>4. \A k \in Channel : k # ch => Subscribers(k)' = Subscribers(k)
  BY <1>1 DEF Subscribers
<1>5. TimersOfEmpty'
  BY <1>3, <1>4 DEF Subscribe, TimerInv, TimersOfEmpty, TypeOK
<1> QED BY <1>2, <1>5 DEF TimerInv

LEMMA SameTimers ==
  ASSUME TimerInv, UNCHANGED <<channels, subs, timers>>
  PROVE  TimerInv'
BY DEF TimerInv, SubscribersInChannels, TimersOfEmpty, Subscribers, Subscribed

LEMMA NextTimers == TypeOK /\ TimerInv /\ [Next]_vars => TimerInv'
<1> SUFFICES ASSUME TypeOK, TimerInv, [Next]_vars PROVE TimerInv'
  OBVIOUS
<1>1. ASSUME NEW c \in Conn, Connect(c) PROVE TimerInv'
  BY <1>1, SameTimers DEF Connect
<1>2. ASSUME NEW c \in Conn, Disconnect(c) PROVE TimerInv'
  <2>1. c \in SubId
    BY ChannelsAssumption
  <2> QED BY <1>2, <2>1, UnsubscribeTimers DEF Disconnect
<1>3. ASSUME NEW c \in Conn, NEW id \in SubId, NEW ch \in Channel,
             NEW n \in 0 .. MaxMessages, HandleSub(c, id, ch, n)
      PROVE  TimerInv'
  BY <1>3, SubscribeTimers DEF HandleSub
<1>4. ASSUME NEW c \in Conn, NEW ch \in Channel, HandleUnsub(c, ch)
      PROVE  TimerInv'
  <2>1. c \in SubId /\ {ch} \in SUBSET channels
    BY <1>4, ChannelsAssumption DEF HandleUnsub
  <2> QED BY <1>4, <2>1, UnsubscribeTimers DEF HandleUnsub
<1>5. ASSUME NEW ch \in Channel, HandlePub(ch) PROVE TimerInv'
  BY <1>5, SameTimers DEF HandlePub
<1>6. ASSUME NEW ch \in Channel, RemoveChannel(ch) PROVE TimerInv'
  <2>1. /\ \A i \in SubId : ~ Subscribed(ch, i)'
        /\ \A k \in Channel, i \in SubId :
             k # ch => (Subscribed(k, i)' <=> Subscribed(k, i))
    BY <1>6 DEF RemoveChannel, TypeOK, Subscribed
  <2>2. SubscribersInChannels'
    BY <1>6, <2>1 DEF RemoveChannel, SubscribersInChannels, TimerInv
  <2>3. \A k \in Channel : k # ch => Subscribers(k)' = Subscribers(k)
    BY <2>1 DEF Subscribers
  <2>4. TimersOfEmpty'
    BY <1>6, <2>3 DEF RemoveChannel, TimersOfEmpty, TimerInv, TypeOK
  <2> QED BY <2>2, <2>4 DEF TimerInv
<1>7. ASSUME NEW l \in Limit, SetLimit(l) PROVE TimerInv'
  BY <1>7, SameTimers DEF SetLimit
<1>8. CASE UNCHANGED vars
  BY <1>8, SameTimers DEF vars
<1> QED BY <1>1, <1>2, <1>3, <1>4, <1>5, <1>6, <1>7, <1>8 DEF Next

LEMMA TimerInvariant == Spec => []TimerInv
<1>1. Init => TimerInv
  BY DEF Init, TimerInv, SubscribersInChannels, TimersOfEmpty, Subscribed
<1> QED BY <1>1, NextTimers, TypeCorrect, PTL DEF Spec

\* The channels with a pending removal are exactly those without subscribers.
THEOREM TimersAlways == Spec => []TimersOfEmpty
BY TimerInvariant, PTL DEF TimerInv

-----------------------------------------------------------------------------
(* Delivery.                                                               *)

\* Only a connection that was made has subscriptions.
MadeSubs ==
  \A ch \in Channel, id \in SubId :
    Subscribed(ch, id) =>
      subs[ch][id] \in Conn /\ connState[subs[ch][id]] # "new"

QueueRecent == \A ch \in Channel : UpTo(queues[ch], published[ch])

DeliveryInv == MadeSubs /\ OwnSubscribersLive /\ QueueRecent /\ NoGap

\* Fewer subscribers, and nothing else that delivery depends on.
LEMMA FewerSubscribers ==
  ASSUME DeliveryInv, UNCHANGED <<connState, queues, published, seen>>,
         \A ch \in Channel, id \in SubId :
           Subscribed(ch, id)' =>
             Subscribed(ch, id) /\ subs'[ch][id] = subs[ch][id]
  PROVE  DeliveryInv'
<1>1. MadeSubs' /\ OwnSubscribersLive'
  BY DEF DeliveryInv, MadeSubs, OwnSubscribersLive, Subscribers
<1>2. QueueRecent'
  BY DEF DeliveryInv, QueueRecent
<1>3. NoGap'
  BY DEF DeliveryInv, NoGap, Subscribers
<1> QED BY <1>1, <1>2, <1>3 DEF DeliveryInv

\* A connection that is made has no subscriptions yet.
LEMMA ConnectDelivery ==
  ASSUME TypeOK, DeliveryInv, NEW c \in Conn, Connect(c)
  PROVE  DeliveryInv'
<1>1. \A ch \in Channel, id \in SubId :
        Subscribed(ch, id) =>
          /\ subs[ch][id] \in Conn
          /\ connState[subs[ch][id]] # "new"
          /\ connState'[subs[ch][id]] = connState[subs[ch][id]]
  BY DEF DeliveryInv, MadeSubs, Connect, TypeOK
<1>2. MadeSubs' /\ OwnSubscribersLive'
  BY <1>1 DEF DeliveryInv, MadeSubs, OwnSubscribersLive, Subscribers,
              Subscribed, Connect
<1>3. QueueRecent'
  BY DEF DeliveryInv, QueueRecent, Connect
<1>4. NoGap'
  BY <1>1 DEF DeliveryInv, NoGap, Subscribers, Subscribed, Connect
<1> QED BY <1>2, <1>3, <1>4 DEF DeliveryInv

\* A connection that leaves takes the subscriptions under its connID with it.
LEMMA DisconnectDelivery ==
  ASSUME TypeOK, TimerInv, DeliveryInv, NEW c \in Conn, Disconnect(c)
  PROVE  DeliveryInv'
<1>1. \A ch \in Channel, id \in SubId :
        subs'[ch][id] = IF ch \in channels /\ id = c THEN NoConn
                                                    ELSE subs[ch][id]
  BY DEF Disconnect, Unsubscribe, TypeOK
<1>2. \A ch \in Channel, id \in SubId :
        Subscribed(ch, id)' =>
          /\ id # c
          /\ Subscribed(ch, id)
          /\ subs'[ch][id] = subs[ch][id]
          /\ subs[ch][id] \in Conn
  BY <1>1 DEF Subscribed, TimerInv, SubscribersInChannels, DeliveryInv, MadeSubs
<1>3. \A d \in Conn :
        connState'[d] = IF d = c THEN "closed" ELSE connState[d]
  BY DEF Disconnect, TypeOK
<1>4. MadeSubs'
  BY <1>2, <1>3 DEF MadeSubs, DeliveryInv
<1>5. OwnSubscribersLive'
  BY <1>2, <1>3 DEF OwnSubscribersLive, Subscribers, DeliveryInv
<1>6. QueueRecent'
  BY DEF DeliveryInv, QueueRecent, Disconnect
<1>7. NoGap'
  BY <1>2, <1>3 DEF DeliveryInv, NoGap, Subscribers, Disconnect
<1> QED BY <1>4, <1>5, <1>6, <1>7 DEF DeliveryInv

\* A new subscriber starts with messages that are up to date; an id that is
\* taken keeps its connection and what that was sent.
LEMMA HandleSubDelivery ==
  ASSUME TypeOK, DeliveryInv, NEW c \in Conn, NEW id \in SubId,
         NEW ch \in Channel, NEW n \in 0 .. MaxMessages,
         HandleSub(c, id, ch, n)
  PROVE  DeliveryInv'
<1>1. connState[c] = "open" /\ connState' = connState
  BY DEF HandleSub
<1>2. /\ subs'[ch][id] = IF Subscribed(ch, id) THEN subs[ch][id] ELSE c
      /\ \A k \in Channel, i \in SubId :
           k # ch \/ i # id => subs'[k][i] = subs[k][i]
  BY DEF HandleSub, Subscribe, TypeOK
<1>3. \A k \in Channel, i \in SubId :
        Subscribed(k, i)' =>
          \/ Subscribed(k, i) /\ subs'[k][i] = subs[k][i]
          \/ k = ch /\ i = id /\ subs'[k][i] = c
  BY <1>2 DEF Subscribed
<1>4. MadeSubs' /\ OwnSubscribersLive'
  BY <1>1, <1>3 DEF MadeSubs, OwnSubscribersLive, Subscribers, DeliveryInv
<1>5. QueueRecent'
  BY DEF QueueRecent, DeliveryInv, HandleSub
<1>6. UpTo(Last(ch, n), published[ch])
  <2>1. /\ n \in Nat /\ queues[ch] \in Seq(Message)
        /\ published[ch] \in Nat /\ UpTo(queues[ch], published[ch])
    BY ChannelsAssumption DEF TypeOK, DeliveryInv, QueueRecent
  <2> QED BY <2>1, LastProperties
<1>7. /\ seen'[ch][id] = IF subs'[ch][id] = c THEN Last(ch, n)
                                              ELSE seen[ch][id]
      /\ \A k \in Channel, i \in SubId :
           k # ch \/ i # id => seen'[k][i] = seen[k][i]
  BY DEF HandleSub, TypeOK
<1>8. NoGap'
  <2> SUFFICES ASSUME NEW k \in Channel, NEW i \in SubId, Subscribed(k, i)',
                      connState[subs'[k][i]] = "open"
               PROVE  UpTo(seen'[k][i], published[k])
    BY <1>1 DEF NoGap, Subscribers, HandleSub
  <2>1. CASE k = ch /\ i = id /\ subs'[k][i] = c
    BY <1>6, <1>7, <2>1
  <2>2. CASE ~ (k = ch /\ i = id /\ subs'[k][i] = c)
    <3>1. Subscribed(k, i) /\ subs'[k][i] = subs[k][i]
      BY <1>3, <2>2
    <3>2. seen'[k][i] = seen[k][i]
      BY <1>7, <2>2
    <3> QED BY <3>1, <3>2 DEF DeliveryInv, NoGap, Subscribers
  <2> QED BY <2>1, <2>2
<1> QED BY <1>4, <1>5, <1>8 DEF DeliveryInv

\* A published message reaches all subscribers with an open connection, and
\* the backlog.
LEMMA HandlePubDelivery ==
  ASSUME TypeOK, DeliveryInv, NEW ch \in Channel, HandlePub(ch)
  PROVE  DeliveryInv'
<1>1. /\ published[ch] \in Nat /\ published[ch] + 1 \in Message
      /\ published'[ch] = published[ch] + 1
      /\ \A k \in Channel : k # ch => published'[k] = published[k]
  BY ChannelsAssumption DEF HandlePub, TypeOK, Message
<1>2. MadeSubs' /\ OwnSubscribersLive'
  BY DEF MadeSubs, OwnSubscribersLive, Subscribers, Subscribed, DeliveryInv,
         HandlePub
<1>3. QueueRecent'
  <2>1. /\ queues'[ch] = Added(ch, published[ch] + 1)
        /\ \A k \in Channel : k # ch => queues'[k] = queues[k]
    BY DEF HandlePub, TypeOK
  <2>2. UpTo(Added(ch, published[ch] + 1), published[ch] + 1)
    BY <1>1, AddedProperties DEF TypeOK, DeliveryInv, QueueRecent
  <2> QED BY <1>1, <2>1, <2>2 DEF QueueRecent, DeliveryInv
<1>4. NoGap'
  <2> SUFFICES ASSUME NEW k \in Channel, NEW id \in SubId, Subscribed(k, id),
                      connState[subs[k][id]] = "open"
               PROVE  UpTo(seen'[k][id], published'[k])
    BY DEF NoGap, Subscribers, Subscribed, HandlePub
  <2>1. UpTo(seen[k][id], published[k])
    BY DEF DeliveryInv, NoGap, Subscribers
  <2>2. CASE k # ch
    BY <1>1, <2>1, <2>2 DEF HandlePub, TypeOK
  <2>3. CASE k = ch
    <3>1. seen'[ch][id] = Append(seen[ch][id], published[ch] + 1)
      BY <2>3 DEF HandlePub, TypeOK
    <3>2. seen[ch][id] \in Seq(Message)
      BY DEF TypeOK
    <3> QED BY <1>1, <2>1, <2>3, <3>1, <3>2, AppendUpTo
  <2> QED BY <2>2, <2>3
<1> QED BY <1>2, <1>3, <1>4 DEF DeliveryInv

LEMMA NextDelivery ==
  TypeOK /\ TimerInv /\ DeliveryInv /\ [Next]_vars => DeliveryInv'
<1> SUFFICES ASSUME TypeOK, TimerInv, DeliveryInv, [Next]_vars
             PROVE  DeliveryInv'
  OBVIOUS
<1>1. ASSUME NEW c \in Conn, Connect(c) PROVE DeliveryInv'
  BY <1>1, ConnectDelivery
<1>2. ASSUME NEW c \in Conn, Disconnect(c) PROVE DeliveryInv'
  BY <1>2, DisconnectDelivery
<1>3. ASSUME NEW c \in Conn, NEW id \in SubId, NEW ch \in Channel,
             NEW n \in 0 .. MaxMessages, HandleSub(c, id, ch, n)
      PROVE  DeliveryInv'
  BY <1>3, HandleSubDelivery
<1>4. ASSUME NEW c \in Conn, NEW ch \in Channel, HandleUnsub(c, ch)
      PROVE  DeliveryInv'
  <2>1. \A k \in Channel, id \in SubId :
          Subscribed(k, id)' =>
            Subscribed(k, id) /\ subs'[k][id] = subs[k][id]
    BY <1>4 DEF HandleUnsub, Unsubscribe, TypeOK, Subscribed
  <2> QED BY <1>4, <2>1, FewerSubscribers DEF HandleUnsub
<1>5. ASSUME NEW ch \in Channel, HandlePub(ch) PROVE DeliveryInv'
  BY <1>5, HandlePubDelivery
<1>6. ASSUME NEW ch \in Channel, RemoveChannel(ch) PROVE DeliveryInv'
  <2>1. \A k \in Channel, id \in SubId :
          Subscribed(k, id)' =>
            Subscribed(k, id) /\ subs'[k][id] = subs[k][id]
    BY <1>6 DEF RemoveChannel, TypeOK, Subscribed
  <2> QED BY <1>6, <2>1, FewerSubscribers DEF RemoveChannel
<1>7. CASE (\E l \in Limit : SetLimit(l)) \/ UNCHANGED vars
  <2>1. UNCHANGED <<connState, subs, queues, published, seen>>
    BY <1>7 DEF SetLimit, vars
  <2> QED BY <2>1, FewerSubscribers DEF Subscribed
<1> QED BY <1>1, <1>2, <1>3, <1>4, <1>5, <1>6, <1>7 DEF Next

LEMMA DeliveryInvariant == Spec => []DeliveryInv
<1>1. Init => DeliveryInv
  <2> SUFFICES ASSUME Init PROVE DeliveryInv
    OBVIOUS
  <2>1. MadeSubs /\ OwnSubscribersLive /\ NoGap
    BY DEF Init, MadeSubs, OwnSubscribersLive, NoGap, Subscribers, Subscribed
  <2>2. QueueRecent
    BY DEF Init, QueueRecent, UpTo
  <2> QED BY <2>1, <2>2 DEF DeliveryInv
<1>2. TypeOK /\ TimerInv /\ DeliveryInv /\ [Next]_vars => DeliveryInv'
  BY NextDelivery
<1> QED BY <1>1, <1>2, TypeCorrect, TimerInvariant, PTL DEF Spec

\* A connection that is gone has no subscription under its own connID,
\* whatever ids clients subscribe under.
THEOREM LiveSubscribers == Spec => []OwnSubscribersLive
BY DeliveryInvariant, PTL DEF DeliveryInv

\* What a subscriber gets while its connection is open has no gap and no
\* repetition, whatever ids clients subscribe under.
THEOREM GaplessDelivery == Spec => []NoGap
BY DeliveryInvariant, PTL DEF DeliveryInv

=============================================================================
