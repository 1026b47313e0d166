------------------------------ MODULE Channels ------------------------------
(***************************************************************************)
(* Channel publish / subscribe:                                            *)
(*   core/comm.js            channels, subscribers, removal of channels    *)
(*   modules/pubsub.js       the handlers SR_SUB, SR_UNSUB, SR_PUB         *)
(*   extension/msgqueue.js   the backlog of each channel                   *)
(*   core/conn.js            the connections subscribers are reached by    *)
(* Each handler is one callback and so one action, and so is each timer.   *)
(* A message is its number on its channel.  An operator that ends in       *)
(* "Variant" is a faulty version of the definition after it, kept to show  *)
(* that a property can fail.                                               *)
(***************************************************************************)
EXTENDS Integers, Sequences

CONSTANTS
  Conn,        \* connections; a connection stands for its connID as well
  Channel,     \* names of channels
  SubId,       \* ids that clients may give when they subscribe: the connIDs
               \* and others, such as no id at all
  NoConn,      \* the connection of an id that is not subscribed
  Limit,       \* limits that clients ask for
  FirstLimit,  \* the limit at first (100 in the code)
  MaxMessages  \* bound: messages published on a channel

ASSUME ChannelsAssumption ==
  /\ Conn \subseteq SubId
  /\ NoConn \notin Conn
  /\ Limit \subseteq Int
  /\ FirstLimit \in Nat
  /\ MaxMessages \in Nat

VARIABLES
  connState,   \* of each connection: not made yet, open, closed
  channels,    \* the keys of l_channels
  subs,        \* l_channels: the connection of each subscriber of a channel
  timers,      \* l_timeouts: channels whose removal is pending
  queues,      \* the backlog of each channel
  limit,       \* config.limit
  published,   \* number of messages published on each channel (history)
  seen         \* messages sent for a subscription since it was last asked
               \* for (history)

vars == <<connState, channels, subs, timers, queues, limit, published, seen>>

Message == 1 .. MaxMessages

TypeOK ==
  /\ connState \in [Conn -> {"new", "open", "closed"}]
  /\ channels \in SUBSET Channel
  /\ subs \in [Channel -> [SubId -> Conn \cup {NoConn}]]
  /\ timers \in SUBSET Channel
  /\ queues \in [Channel -> Seq(Message)]
  /\ limit \in Nat
  /\ published \in [Channel -> 0 .. MaxMessages]
  /\ seen \in [Channel -> [SubId -> Seq(Message)]]

Init ==
  /\ connState = [c \in Conn |-> "new"]
  /\ channels = {}
  /\ subs = [ch \in Channel |-> [id \in SubId |-> NoConn]]
  /\ timers = {}
  /\ queues = [ch \in Channel |-> << >>]
  /\ limit = FirstLimit
  /\ published = [ch \in Channel |-> 0]
  /\ seen = [ch \in Channel |-> [id \in SubId |-> << >>]]

Subscribed(ch, id) == subs[ch][id] # NoConn
Subscribers(ch) == {id \in SubId : Subscribed(ch, id)}

-----------------------------------------------------------------------------
(* Connections.                                                            *)

Connect(c) ==
  /\ connState[c] = "new"
  /\ connState' = [connState EXCEPT ![c] = "open"]
  /\ UNCHANGED <<channels, subs, timers, queues, limit, published, seen>>

\* unsubscribe(id, channel) for each channel of chs: a channel that loses its
\* last subscriber is given a timer.
Unsubscribe(id, chs) ==
  /\ subs' = [ch \in Channel |->
                IF ch \in chs THEN [subs[ch] EXCEPT ![id] = NoConn]
                              ELSE subs[ch]]
  /\ timers' = timers \cup {ch \in chs : Subscribers(ch) = {id}}

\* onDisconnect: the connection leaves all channels under its own connID.
DisconnectVariant(c) ==
  /\ connState[c] = "open"
  /\ connState' = [connState EXCEPT ![c] = "closed"]
  /\ UNCHANGED <<channels, subs, timers, queues, limit, published, seen>>
Disconnect(c) ==
  /\ connState[c] = "open"
  /\ connState' = [connState EXCEPT ![c] = "closed"]
  /\ Unsubscribe(c, channels)
  /\ UNCHANGED <<channels, queues, limit, published, seen>>

-----------------------------------------------------------------------------
(* Handlers.                                                               *)

\* subscribe(id, ch, conn): the removal of the channel is revoked; an id that
\* is subscribed already keeps its connection.
SubscribeVariant(id, ch, c) ==
  /\ UNCHANGED timers
  /\ channels' = channels \cup {ch}
  /\ subs' = [subs EXCEPT ![ch][id] = IF Subscribed(ch, id) THEN @ ELSE c]
Subscribe(id, ch, c) ==
  /\ timers' = timers \ {ch}
  /\ channels' = channels \cup {ch}
  /\ subs' = [subs EXCEPT ![ch][id] = IF Subscribed(ch, id) THEN @ ELSE c]

\* The n last messages of the backlog (the rule "last").
LastVariant(ch, n) ==
  SubSeq(queues[ch], 1, IF n > Len(queues[ch]) THEN Len(queues[ch]) ELSE n)
Last(ch, n) ==
  LET start == IF n > Len(queues[ch]) THEN 0 ELSE Len(queues[ch]) - n
  IN  SubSeq(queues[ch], start + 1, Len(queues[ch]))

\* SR_SUB: subscribe under the id that the client gives, which may be its own
\* connID, that of another client or any other, and get the last n messages.
\* They go to the asking connection, also when the id is taken.
HandleSub(c, id, ch, n) ==
  /\ connState[c] = "open"
  /\ Subscribe(id, ch, c)
  /\ seen' = IF subs'[ch][id] = c
               THEN [seen EXCEPT ![ch][id] = Last(ch, n)] ELSE seen
  /\ UNCHANGED <<connState, queues, limit, published>>

\* SR_UNSUB: the connection leaves the channel under its connID, whatever id
\* it subscribed under.
HandleUnsub(c, ch) ==
  /\ connState[c] = "open"
  /\ ch \in channels
  /\ Unsubscribe(c, {ch})
  /\ UNCHANGED <<connState, channels, queues, limit, published, seen>>

\* MsgQueue.add
Added(ch, m) ==
  IF Len(queues[ch]) + 1 > limit THEN Tail(Append(queues[ch], m))
                                 ELSE Append(queues[ch], m)

\* SR_PUB: publish to the subscribers and store in the backlog.
HandlePub(ch) ==
  /\ published[ch] < MaxMessages
  /\ published' = [published EXCEPT ![ch] = @ + 1]
  /\ seen' = [seen EXCEPT ![ch] = [id \in SubId |->
                IF Subscribed(ch, id) /\ connState[subs[ch][id]] = "open"
                  THEN Append(@[id], published[ch] + 1) ELSE @[id]]]
  /\ queues' = [queues EXCEPT ![ch] = Added(ch, published[ch] + 1)]
  /\ UNCHANGED <<connState, channels, subs, timers, limit>>

\* SR_PUBSUB_QUEUE: setLimit cuts a copy of each queue and drops it.
SetLimit(l) ==
  /\ l >= 0
  /\ limit' = l
  /\ UNCHANGED <<connState, channels, subs, timers, queues, published, seen>>

\* l_removeChannel: the timer of an empty channel goes off.
RemoveChannel(ch) ==
  /\ ch \in timers
  /\ channels' = channels \ {ch}
  /\ subs' = [subs EXCEPT ![ch] = [id \in SubId |-> NoConn]]
  /\ timers' = timers \ {ch}
  /\ UNCHANGED <<connState, queues, limit, published, seen>>

-----------------------------------------------------------------------------

Next ==
  \/ \E c \in Conn : Connect(c) \/ Disconnect(c)
  \/ \E c \in Conn, id \in SubId, ch \in Channel, n \in 0 .. MaxMessages :
       HandleSub(c, id, ch, n)
  \/ \E c \in Conn, ch \in Channel : HandleUnsub(c, ch)
  \/ \E ch \in Channel : HandlePub(ch) \/ RemoveChannel(ch)
  \/ \E l \in Limit : SetLimit(l)

Spec == Init /\ [][Next]_vars

-----------------------------------------------------------------------------
(* Properties.                                                             *)

\* The channels that wait for their removal are those without subscribers:
\* a removal never takes subscribers with it, and no empty channel is
\* forgotten (comm.js subscribe, unsubscribe, l_removeChannel).
TimersOfEmpty ==
  timers = {ch \in channels : Subscribers(ch) = {}}

\* Of the "automatic unsubscribe when a connection breaks" (comm.js 143): a
\* connection that is gone has no subscription under its own connID.  One that
\* it made under another id stays, and messages are still sent for it.
OwnSubscribersLive ==
  \A ch \in Channel : \A id \in Subscribers(ch) :
    connState[subs[ch][id]] = "open" \/ subs[ch][id] # id

\* What a subscriber gets, from the first message of its backlog on, has no
\* gap and no repetition and is up to date while its connection is open,
\* whatever id it subscribed under: no message falls between the backlog and
\* the messages that are sent as they are published.
UpTo(s, m) == \A i \in 1 .. Len(s) : s[i] = m - Len(s) + i
NoGap ==
  \A ch \in Channel : \A id \in Subscribers(ch) :
    connState[subs[ch][id]] = "open" => UpTo(seen[ch][id], published[ch])

=============================================================================
