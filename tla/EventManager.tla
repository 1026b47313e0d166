---------------------------- MODULE EventManager ----------------------------
(***************************************************************************)
(* The life of an event (one client request) in a Scalra server:           *)
(*   core/event_manager.js   queue of a connection, event pool, checkin,   *)
(*                           checkout, done, drop                          *)
(*   core/handler.js         the dispatcher and its 30 s watchdog          *)
(*   core/RPC.js             events handed to another server               *)
(*   core/conn.js            connection objects, onDisconnect              *)
(*   core/socket.js          the TCP transport                             *)
(*   extension/socketio.js   the socket.io transport                       *)
(*   core/REST/handler.js    the HTTP transport                            *)
(* Node runs one callback at a time, so each callback (a 'data' event, a   *)
(* timer, a handler's later call of event.done, a 'close' event) is one    *)
(* action.  An operator that ends in "Variant" is a faulty version of the  *)
(* definition after it, kept to show that a property can fail.             *)
(***************************************************************************)
EXTENDS Naturals, FiniteSets

CONSTANTS
  Conn,                    \* connection objects (connID is a fresh UUID)
  Event,                   \* events (event.id is a fresh UUID)
  NoConn,                  \* the connection of an event not yet created
  ConnType,                \* transport of each connection
  QueuedEventsPerSocket,   \* l_queuedEventsPerSocket (100 in the code)
  MaxDone                  \* bound: calls of event.done a handler makes

Transport == {"socket", "sockio", "HTTP"}

ASSUME ConnAssumption ==
  /\ NoConn \notin Conn
  /\ ConnType \in [Conn -> Transport]

ASSUME LimitAssumption ==
  /\ QueuedEventsPerSocket \in Nat
  /\ MaxDone \in Nat

VARIABLES
  connState,    \* of each connection object: not created, on record, removed
  status,       \* of each event: "running" while event.id exists
  conn,         \* event.conn
  queued,       \* connector.queuedEvents of each connection
  pool,         \* l_eventPool
  watchdog,     \* check_eventdone timer, set when the handler was called
  doneCalls,    \* calls of event.done made by the handler of each event
  relay,        \* of each event the dispatcher handed to another server
  replies       \* responses of each event handed to its transport (history)

vars == <<connState, status, conn, queued, pool, watchdog, doneCalls, relay,
          replies>>
eventVars == <<status, conn, queued, pool, watchdog, doneCalls, relay, replies>>

Status == {"none", "refused", "running", "done"}

\* An event may be pending in l_pendingEvents of RPC.js, refused by relayEvent
\* (the server is not on RPC's list), or answered by the other server.
Relay == {"no", "pending", "refused", "answered"}

TypeOK ==
  /\ connState \in [Conn -> {"new", "open", "closed"}]
  /\ status \in [Event -> Status]
  /\ conn \in [Event -> Conn \cup {NoConn}]
  /\ queued \in [Conn -> SUBSET Event]
  /\ pool \in SUBSET Event
  /\ watchdog \in [Event -> {"off", "armed", "fired"}]
  /\ doneCalls \in [Event -> 0 .. MaxDone]
  /\ relay \in [Event -> Relay]
  /\ replies \in [Event -> Nat]

Init ==
  /\ connState = [c \in Conn |-> "new"]
  /\ status = [e \in Event |-> "none"]
  /\ conn = [e \in Event |-> NoConn]
  /\ queued = [c \in Conn |-> {}]
  /\ pool = {}
  /\ watchdog = [e \in Event |-> "off"]
  /\ doneCalls = [e \in Event |-> 0]
  /\ relay = [e \in Event |-> "no"]
  /\ replies = [e \in Event |-> 0]

-----------------------------------------------------------------------------
(* Connection objects.                                                     *)

IsSocket(c) == ConnType[c] = "socket"
IsPersistent(c) == ConnType[c] \in {"socket", "sockio"}

\* ConnHandler.addConnection: a persistent connection is put on record.
Connect(c) ==
  /\ IsPersistent(c)
  /\ connState[c] = "new"
  /\ connState' = [connState EXCEPT ![c] = "open"]
  /\ UNCHANGED eventVars

\* The transport is lost: disconnect_handler runs once (socket.connected) and
\* removeConnection destroys the connection object in the same callback.
\* waitSocketsEmpty looks for queuedEvents on the net socket (or on the
\* connection object), while the list is kept on the sender function, so it
\* finds none and calls back at once whatever is queued.
Disconnect(c) ==
  /\ IsPersistent(c)
  /\ connState[c] = "open"
  /\ connState' = [connState EXCEPT ![c] = "closed"]
  /\ UNCHANGED eventVars

-----------------------------------------------------------------------------
(* Queueing and sending.                                                   *)

\* l_queueEvent refuses an event when the list is already over its limit.
QueueFullVariant(c) == FALSE
QueueFull(c) ==
  /\ IsSocket(c)
  /\ Cardinality(queued[c]) > QueuedEventsPerSocket

\* l_queueEvent keeps the events of a socket only.
QueueEvent(c, e) ==
  IF IsSocket(c) THEN [queued EXCEPT ![c] = @ \cup {e}] ELSE queued

\* l_unqueueEvent: a socket's event must still be on its list; any other
\* event passes, also when it was checked out before.
CanUnqueueVariant(e) == TRUE
CanUnqueue(e) == IsSocket(conn[e]) => e \in queued[conn[e]]

UnqueueEventVariant(e) == queued
UnqueueEvent(e) ==
  IF IsSocket(conn[e]) THEN [queued EXCEPT ![conn[e]] = @ \ {e}] ELSE queued

\* What l_send hands to the transport of connection c for one response.
\*   socket: an empty response is not written, nor is one to a lost socket;
\*   sockio: emitted unless empty, the library deals with a lost peer;
\*   HTTP:   an empty response ends the request without looking whether it
\*           was answered, a full one is written once (res.headersSent).
Written(c, full, before) ==
  CASE ConnType[c] = "socket" -> full /\ connState[c] = "open"
    [] ConnType[c] = "sockio" -> full
    [] ConnType[c] = "HTTP" -> full => before = 0

\* checkout(event, res_obj): nothing happens when the event cannot be
\* unqueued; otherwise it leaves queue and pool, loses its id, and the
\* response goes out.
Checkout(e, full) ==
  IF CanUnqueue(e)
    THEN /\ queued' = UnqueueEvent(e)
         /\ pool' = pool \ {e}
         /\ status' = [status EXCEPT ![e] = "done"]
         /\ replies' = IF Written(conn[e], full, replies[e])
                         THEN [replies EXCEPT ![e] = @ + 1]
                         ELSE replies
    ELSE UNCHANGED <<queued, pool, status, replies>>

-----------------------------------------------------------------------------
(* Arrival of an event: unpack, checkin and the dispatcher, one callback.  *)

\* checkin refuses the event; nothing is sent to the client.
Refused(c, e) ==
  /\ QueueFull(c)
  /\ status' = [status EXCEPT ![e] = "refused"]
  /\ UNCHANGED <<queued, pool, watchdog, doneCalls, relay, replies>>

\* The dispatcher settles the event itself: an unknown event type or the
\* response to an earlier message is checked out empty, a missing handler or
\* a failed checker is answered with an error.
Settled(c, e) ==
  /\ ~ QueueFull(c)
  /\ status' = [status EXCEPT ![e] = "done"]
  /\ \E error \in BOOLEAN :
       replies' = IF Written(c, error, 0)
                    THEN [replies EXCEPT ![e] = 1] ELSE replies
  /\ UNCHANGED <<queued, pool, watchdog, doneCalls, relay>>

\* The handler runs and does not call event.done before it returns (an
\* exception in it, caught when SAFE_CALL is set, looks the same); then the
\* watchdog is armed.
StartedVariant(c, e) ==
  /\ ~ QueueFull(c)
  /\ status' = [status EXCEPT ![e] = "running"]
  /\ queued' = QueueEvent(c, e)
  /\ pool' = pool \cup {e}
  /\ UNCHANGED <<watchdog, doneCalls, relay, replies>>
Started(c, e) ==
  /\ ~ QueueFull(c)
  /\ status' = [status EXCEPT ![e] = "running"]
  /\ queued' = QueueEvent(c, e)
  /\ pool' = pool \cup {e}
  /\ watchdog' = [watchdog EXCEPT ![e] = "armed"]
  /\ UNCHANGED <<doneCalls, relay, replies>>

\* The handler calls event.done before it returns; the watchdog is armed
\* all the same.
Answered(c, e) ==
  /\ ~ QueueFull(c)
  /\ MaxDone > 0
  /\ status' = [status EXCEPT ![e] = "done"]
  /\ watchdog' = [watchdog EXCEPT ![e] = "armed"]
  /\ doneCalls' = [doneCalls EXCEPT ![e] = 1]
  /\ \E full \in BOOLEAN :
       replies' = IF Written(c, full, 0)
                    THEN [replies EXCEPT ![e] = 1] ELSE replies
  /\ UNCHANGED <<queued, pool, relay>>

\* l_checkForward: a lobby with an app server of its own name gives the event
\* away and the dispatcher returns, with the event in queue and pool and with
\* no watchdog.  It does so also when relayEvent refused and sent nothing.
Forwarded(c, e) ==
  /\ ~ QueueFull(c)
  /\ status' = [status EXCEPT ![e] = "running"]
  /\ queued' = QueueEvent(c, e)
  /\ pool' = pool \cup {e}
  /\ \E r \in {"pending", "refused"} : relay' = [relay EXCEPT ![e] = r]
  /\ UNCHANGED <<watchdog, doneCalls, replies>>

Checkin(c, e) ==
  /\ status[e] = "none"
  /\ conn' = [conn EXCEPT ![e] = c]
  /\ \/ Refused(c, e) \/ Settled(c, e)
     \/ Started(c, e) \/ Answered(c, e) \/ Forwarded(c, e)

\* Data on a persistent connection.
Receive(c, e) ==
  /\ IsPersistent(c)
  /\ connState[c] = "open"
  /\ Checkin(c, e)
  /\ UNCHANGED connState

\* An HTTP request has a connection object of its own, kept on no record.
Request(c, e) ==
  /\ ~ IsPersistent(c)
  /\ connState[c] = "new"
  /\ connState' = [connState EXCEPT ![c] = "open"]
  /\ Checkin(c, e)

-----------------------------------------------------------------------------
(* Later callbacks.                                                        *)

\* The handler calls event.done(), with a response or without one: in time,
\* after the watchdog, or once more than it should.  (A handler may itself
\* have relayed the event, login.js:315; the answer is then such a call.)
Done(e, full) ==
  /\ watchdog[e] # "off"
  /\ doneCalls[e] < MaxDone
  /\ doneCalls' = [doneCalls EXCEPT ![e] = @ + 1]
  /\ Checkout(e, full)
  /\ UNCHANGED <<connState, conn, watchdog, relay>>

\* SRR_SYS_RPC_EVENT: the other server answers an event that is pending, once
\* per packet.  Nothing makes it: it may have gone, or its handler be silent.
RelayAnswer(e) ==
  /\ relay[e] = "pending"
  /\ relay' = [relay EXCEPT ![e] = "answered"]
  /\ Checkout(e, TRUE)
  /\ UNCHANGED <<connState, conn, watchdog, doneCalls>>

\* check_eventdone, TIMEOUT_EVENTHANDLE ms after the handler was called: an
\* event that still has its id is dropped, that is checked out empty.
Timeout(e) ==
  /\ watchdog[e] = "armed"
  /\ watchdog' = [watchdog EXCEPT ![e] = "fired"]
  /\ IF status[e] = "running"
       THEN Checkout(e, FALSE)
       ELSE UNCHANGED <<queued, pool, status, replies>>
  /\ UNCHANGED <<connState, conn, doneCalls, relay>>

-----------------------------------------------------------------------------

Next ==
  \/ \E c \in Conn : Connect(c) \/ Disconnect(c)
  \/ \E c \in Conn, e \in Event : Receive(c, e) \/ Request(c, e)
  \/ \E e \in Event, full \in BOOLEAN : Done(e, full)
  \/ \E e \in Event : RelayAnswer(e) \/ Timeout(e)

Spec == Init /\ [][Next]_vars

\* A timer that was set goes off: the event loop owes that to every timer.
\* Nothing is assumed of clients, of handlers or of other servers.
Fairness == \A e \in Event : WF_vars(Timeout(e))
FairSpec == Spec /\ Fairness

-----------------------------------------------------------------------------
(* Properties.                                                             *)

OnSocket(e) == conn[e] \in Conn /\ IsSocket(conn[e])

\* Another server owes the event its end: it was handed over, or was to be.
HandedOver(e) == relay[e] \in {"pending", "refused"}

\* The records of the events under way agree: l_eventPool holds exactly the
\* events that have an id, the list of a socket holds exactly the pooled
\* events that came over it, and what RPC.js keeps for an answer is pooled
\* (event_manager.js checkin and checkout, RPC.js l_pendingEvents).
RecordsAgree ==
  /\ pool = {e \in Event : status[e] = "running"}
  /\ \A c \in Conn :
       queued[c] = {e \in pool : conn[e] = c /\ IsSocket(c)}
  /\ {e \in Event : HandedOver(e)} \subseteq pool

\* A client on a socket never gets two responses to one event, however often
\* and however late the handler calls event.done (l_unqueueEvent).
UniqueResponse == \A e \in Event : OnSocket(e) => replies[e] <= 1

\* An event under way has its watchdog armed, or else was handed to another
\* server, and never both: the relay is the one path of the dispatcher that
\* leaves an event pending without a timer (handler.js:558-560).
WatchdogCoversPending ==
  \A e \in Event :
    status[e] = "running" => (watchdog[e] = "armed" <=> ~ HandedOver(e))

\* The list of a socket never outgrows its limit by more than the one event
\* that l_queueEvent lets in when the list is just full (event_manager.js:86
\* calls the limit the maximum; the test comes before the insertion).
QueueBounded ==
  \A c \in Conn : Cardinality(queued[c]) <= QueuedEventsPerSocket + 1

\* Once an event of a socket is checked out or refused nothing more is ever
\* written for it and it never comes back to life.
SettledIsFinal ==
  [][\A e \in Event :
       (OnSocket(e) /\ status[e] \in {"done", "refused"})
         => /\ status'[e] = status[e]
            /\ replies'[e] = replies[e]]_vars

\* Every event that is taken in is checked out in the end, whatever its
\* handler does and whether or not its connection lives, or it was handed
\* over: only the other server's answer ends such an event, and it may stay
\* in pool and queue for ever.
EventuallyCheckedOut ==
  \A e \in Event : status[e] = "running" ~> status[e] = "done" \/ HandedOver(e)

\* The events of the sockets follow the abstract request-reply protocol.
Protocol == INSTANCE RequestReply WITH
  phase <- [e \in Event |-> IF OnSocket(e) THEN status[e] ELSE "none"],
  answers <- [e \in Event |-> IF OnSocket(e) THEN replies[e] ELSE 0]
ImplementsProtocol == Protocol!Spec

=============================================================================
