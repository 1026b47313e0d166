------------------------ MODULE EventManager_proofs ------------------------
(***************************************************************************)
(* Proofs about EventManager, for any number of connections and events,    *)
(* any mix of transports, any queue limit and any number of calls of       *)
(* event.done.                                                             *)
(***************************************************************************)
EXTENDS EventManager, FiniteSetTheorems, TLAPS

USE DEF Status, Transport, Relay

\* Every callback keeps the types.
LEMMA TypeStep == TypeOK /\ [Next]_vars => TypeOK'
<1> SUFFICES ASSUME TypeOK, [Next]_vars PROVE TypeOK'
  OBVIOUS
<1> USE DEF TypeOK
<1>1. ASSUME NEW c \in Conn, Connect(c) PROVE TypeOK'
  BY <1>1 DEF Connect, eventVars
<1>2. ASSUME NEW c \in Conn, Disconnect(c) PROVE TypeOK'
  BY <1>2 DEF Disconnect, eventVars
<1>3. ASSUME NEW c \in Conn, NEW e \in Event, Checkin(c, e),
             connState' \in [Conn -> {"new", "open", "closed"}]
      PROVE  TypeOK'
  <2>1. CASE Refused(c, e)
    BY <1>3, <2>1 DEF Checkin, Refused
  <2>2. CASE Settled(c, e)
    BY <1>3, <2>2 DEF Checkin, Settled
  <2>3. CASE Started(c, e)
    BY <1>3, <2>3 DEF Checkin, Started, QueueEvent
  <2>4. CASE Answered(c, e)
    BY <1>3, <2>4, LimitAssumption DEF Checkin, Answered
  <2>5. CASE Forwarded(c, e)
    BY <1>3, <2>5 DEF Checkin, Forwarded, QueueEvent
  <2> QED BY <1>3, <2>1, <2>2, <2>3, <2>4, <2>5 DEF Checkin
<1>4. ASSUME NEW c \in Conn, NEW e \in Event, Receive(c, e) PROVE TypeOK'
  BY <1>3, <1>4 DEF Receive
<1>5. ASSUME NEW c \in Conn, NEW e \in Event, Request(c, e) PROVE TypeOK'
  BY <1>3, <1>5 DEF Request
<1>6. ASSUME NEW e \in Event, NEW full \in BOOLEAN, Checkout(e, full)
      PROVE  /\ queued' \in [Conn -> SUBSET Event]
             /\ pool' \in SUBSET Event
             /\ status' \in [Event -> Status]
             /\ replies' \in [Event -> Nat]
  BY <1>6 DEF Checkout, UnqueueEvent
<1>7. ASSUME NEW e \in Event, NEW full \in BOOLEAN, Done(e, full)
      PROVE  TypeOK'
  BY <1>6, <1>7, LimitAssumption DEF Done
<1>8. ASSUME NEW e \in Event, Timeout(e) PROVE TypeOK'
  BY <1>6, <1>8 DEF Timeout
<1>9. ASSUME NEW e \in Event, RelayAnswer(e) PROVE TypeOK'
  BY <1>6, <1>9 DEF RelayAnswer
<1>10. CASE UNCHANGED vars
  BY <1>10 DEF vars
<1> QED BY <1>1, <1>2, <1>4, <1>5, <1>7, <1>8, <1>9, <1>10 DEF Next

\* The state of every variable keeps its type under every handler, timer and
\* transport callback.
THEOREM TypeCorrect == Spec => []TypeOK
<1>1. Init => TypeOK
  BY LimitAssumption DEF Init, TypeOK
<1> QED BY <1>1, TypeStep, PTL DEF Spec

-----------------------------------------------------------------------------

\* An event gets its connection when it arrives and keeps it.
ConnKnown == \A e \in Event : conn[e] = NoConn <=> status[e] = "none"

\* Nothing is written for an event that is not settled.
NoEarlyReply == \A e \in Event : status[e] # "done" => replies[e] = 0

\* Only an event whose handler was called has a watchdog.
WatchdogKnown ==
  \A e \in Event : status[e] \in {"none", "refused"} => watchdog[e] = "off"

\* An event that was handed over had no handler called here.
RelayKnown ==
  \A e \in Event :
    /\ status[e] \in {"none", "refused"} => relay[e] = "no"
    /\ HandedOver(e) => status[e] = "running" /\ watchdog[e] = "off"

\* RecordsAgree, UniqueResponse and WatchdogCoversPending are not inductive
\* alone: that a second event.done finds nothing to unqueue follows from
\* RecordsAgree, and that the first finds no reply from NoEarlyReply.
IndInv ==
  /\ TypeOK
  /\ RecordsAgree
  /\ WatchdogCoversPending
  /\ UniqueResponse
  /\ ConnKnown
  /\ NoEarlyReply
  /\ WatchdogKnown
  /\ RelayKnown

USE DEF OnSocket, IsSocket, IsPersistent, HandedOver

LEMMA InitInv == Init => IndInv
BY ConnAssumption, LimitAssumption
DEF Init, IndInv, TypeOK, RecordsAgree, WatchdogCoversPending, UniqueResponse,
    ConnKnown, NoEarlyReply, WatchdogKnown, RelayKnown

\* A connection comes or goes: the events and their records stay as they are.
LEMMA ConnectionStep ==
  ASSUME IndInv, TypeOK', UNCHANGED eventVars
  PROVE  IndInv'
BY DEF IndInv, eventVars, RecordsAgree, WatchdogCoversPending, UniqueResponse,
       ConnKnown, NoEarlyReply, WatchdogKnown, RelayKnown

\* An event arrives and is refused, settled, started or answered.
LEMMA CheckinStep ==
  ASSUME IndInv, TypeOK', NEW c \in Conn, NEW e \in Event, Checkin(c, e)
  PROVE  IndInv'
<1> USE DEF IndInv, TypeOK
<1>1. /\ status[e] = "none" /\ conn[e] = NoConn /\ e \notin pool
      /\ conn' = [conn EXCEPT ![e] = c]
      /\ replies[e] = 0 /\ watchdog[e] = "off"
  BY DEF Checkin, ConnKnown, RecordsAgree, NoEarlyReply, WatchdogKnown, RelayKnown
<1>2. CASE Refused(c, e)
  BY <1>1, <1>2, ConnAssumption
  DEF Refused, RecordsAgree, WatchdogCoversPending, UniqueResponse,
      ConnKnown, NoEarlyReply, WatchdogKnown, RelayKnown
<1>3. CASE Settled(c, e)
  BY <1>1, <1>3, ConnAssumption
  DEF Settled, RecordsAgree, WatchdogCoversPending, UniqueResponse,
      ConnKnown, NoEarlyReply, WatchdogKnown, RelayKnown
<1>4. CASE Started(c, e)
  BY <1>1, <1>4, ConnAssumption
  DEF Started, QueueEvent, RecordsAgree, WatchdogCoversPending,
      UniqueResponse, ConnKnown, NoEarlyReply, WatchdogKnown, RelayKnown
<1>5. CASE Answered(c, e)
  BY <1>1, <1>5, ConnAssumption
  DEF Answered, RecordsAgree, WatchdogCoversPending, UniqueResponse,
      ConnKnown, NoEarlyReply, WatchdogKnown, RelayKnown
<1>6. CASE Forwarded(c, e)
  BY <1>1, <1>6, ConnAssumption
  DEF Forwarded, QueueEvent, RecordsAgree, WatchdogCoversPending,
      UniqueResponse, ConnKnown, NoEarlyReply, WatchdogKnown, RelayKnown
<1> QED BY <1>2, <1>3, <1>4, <1>5, <1>6 DEF Checkin

\* event.done is called, the watchdog drops the event, or the other server
\* answers.  A socket's event that is not under way is on no list, so it is
\* left alone.
LEMMA CheckoutStep ==
  ASSUME IndInv, TypeOK', NEW e \in Event, NEW full \in BOOLEAN,
         watchdog[e] # "off" \/ HandedOver(e), Checkout(e, full),
         UNCHANGED conn,
         \/ UNCHANGED watchdog
         \/ watchdog[e] # "off" /\ watchdog' = [watchdog EXCEPT ![e] = "fired"],
         \/ UNCHANGED relay /\ watchdog[e] # "off"
         \/ relay' = [relay EXCEPT ![e] = "answered"]
  PROVE  IndInv'
<1> USE DEF IndInv, TypeOK
<1>1. status[e] \in {"running", "done"} /\ conn[e] \in Conn
  BY DEF WatchdogKnown, ConnKnown, RelayKnown
<1>2. CASE ~ CanUnqueue(e)
  <2>1. status[e] = "done"
    BY <1>1, <1>2 DEF CanUnqueue, RecordsAgree
  <2> QED BY <1>1, <1>2, <2>1
    DEF Checkout, RecordsAgree, WatchdogCoversPending, UniqueResponse,
        ConnKnown, NoEarlyReply, WatchdogKnown, RelayKnown
<1>3. CASE CanUnqueue(e)
  <2>1. IsSocket(conn[e]) => status[e] = "running" /\ replies[e] = 0
    BY <1>1, <1>3 DEF CanUnqueue, RecordsAgree, NoEarlyReply
  <2>2. /\ queued' = UnqueueEvent(e)
        /\ pool' = pool \ {e}
        /\ status' = [status EXCEPT ![e] = "done"]
        /\ \A d \in Event : d # e => replies'[d] = replies[d]
        /\ replies'[e] \in {replies[e], replies[e] + 1}
    BY <1>3 DEF Checkout
  <2>3. RecordsAgree'
    <3>1. ~ HandedOver(e)' /\ \A d \in Event : HandedOver(d)' => HandedOver(d)
      BY DEF RelayKnown
    <3>2. pool' = {d \in Event : status'[d] = "running"}
      BY <1>1, <2>2 DEF RecordsAgree
    <3>3. \A c \in Conn :
            queued'[c] = {d \in pool' : conn'[d] = c /\ IsSocket(c)}
      BY <1>1, <2>2 DEF UnqueueEvent, RecordsAgree
    <3>4. {d \in Event : HandedOver(d)'} \subseteq pool'
      BY <2>2, <3>1 DEF RecordsAgree
    <3> QED BY <3>2, <3>3, <3>4 DEF RecordsAgree
  <2>4. UniqueResponse'
    BY <2>1, <2>2 DEF UniqueResponse
  <2> QED BY <1>1, <2>2, <2>3, <2>4
    DEF WatchdogCoversPending, ConnKnown, NoEarlyReply, WatchdogKnown, RelayKnown
<1> QED BY <1>2, <1>3

\* Every step keeps the inductive invariant.
LEMMA NextInv == IndInv /\ [Next]_vars => IndInv'
<1> SUFFICES ASSUME IndInv, [Next]_vars PROVE IndInv'
  OBVIOUS
<1>1. TypeOK'
  BY TypeStep DEF IndInv
<1>2. ASSUME NEW c \in Conn, Connect(c) \/ Disconnect(c) PROVE IndInv'
  BY <1>1, <1>2, ConnectionStep DEF Connect, Disconnect
<1>3. ASSUME NEW c \in Conn, NEW e \in Event, Receive(c, e) \/ Request(c, e)
      PROVE  IndInv'
  BY <1>1, <1>3, CheckinStep DEF Receive, Request
<1>4. ASSUME NEW e \in Event, NEW full \in BOOLEAN, Done(e, full)
      PROVE  IndInv'
  BY <1>1, <1>4, CheckoutStep DEF Done
<1>5. ASSUME NEW e \in Event, Timeout(e) PROVE IndInv'
  <2>1. CASE status[e] = "running"
    BY <1>1, <1>5, <2>1, CheckoutStep DEF Timeout
  <2>2. CASE status[e] # "running"
    BY <1>1, <1>5, <2>2
    DEF Timeout, IndInv, TypeOK, RecordsAgree, WatchdogCoversPending,
        UniqueResponse, ConnKnown, NoEarlyReply, WatchdogKnown, RelayKnown
  <2> QED BY <2>1, <2>2
<1>6. ASSUME NEW e \in Event, RelayAnswer(e) PROVE IndInv'
  BY <1>1, <1>6, CheckoutStep DEF RelayAnswer
<1>7. CASE UNCHANGED vars
  BY <1>1, <1>7, ConnectionStep DEF vars, eventVars
<1> QED BY <1>2, <1>3, <1>4, <1>5, <1>6, <1>7 DEF Next

\* The inductive invariant holds in every reachable state.
LEMMA Invariant == Spec => []IndInv
BY InitInv, NextInv, PTL DEF Spec

\* The event pool and the lists of the sockets always agree with the events
\* that have an id (checkin and checkout of event_manager.js).
THEOREM RecordsCorrect == Spec => []RecordsAgree
BY Invariant, PTL DEF IndInv

\* A client on a socket never gets two responses to one event.
THEOREM ResponseUnique == Spec => []UniqueResponse
BY Invariant, PTL DEF IndInv

\* The dispatcher leaves an event pending either with its 30 s timer or in
\* the hands of another server, never with both and never with neither.
THEOREM WatchdogAlways == Spec => []WatchdogCoversPending
BY Invariant, PTL DEF IndInv

-----------------------------------------------------------------------------

\* The part of SettledIsFinal that one event contributes.
Final(e) ==
  (OnSocket(e) /\ status[e] \in {"done", "refused"})
    => status'[e] = status[e] /\ replies'[e] = replies[e]

LEMMA FinalStep == IndInv /\ [Next]_vars => \A e \in Event : Final(e)
<1> SUFFICES ASSUME IndInv, [Next]_vars, NEW e \in Event,
                    OnSocket(e), status[e] \in {"done", "refused"}
             PROVE  status'[e] = status[e] /\ replies'[e] = replies[e]
  BY DEF Final
<1> USE DEF IndInv, TypeOK
<1>1. ASSUME NEW c \in Conn, Connect(c) \/ Disconnect(c)
      PROVE  status'[e] = status[e] /\ replies'[e] = replies[e]
  BY <1>1 DEF Connect, Disconnect, eventVars
<1>2. ASSUME NEW c \in Conn, NEW d \in Event, Checkin(c, d)
      PROVE  status'[e] = status[e] /\ replies'[e] = replies[e]
  <2>1. d # e
    BY <1>2 DEF Checkin
  <2> QED BY <1>2, <2>1
    DEF Checkin, Refused, Settled, Started, Answered, Forwarded
<1>3. ASSUME NEW d \in Event, NEW full \in BOOLEAN, Checkout(d, full)
      PROVE  status'[e] = status[e] /\ replies'[e] = replies[e]
  <2>1. CASE d = e
    BY <1>3, <2>1 DEF Checkout, CanUnqueue, RecordsAgree
  <2>2. CASE d # e
    BY <1>3, <2>2 DEF Checkout
  <2> QED BY <2>1, <2>2
<1>4. ASSUME NEW d \in Event, Timeout(d)
      PROVE  status'[e] = status[e] /\ replies'[e] = replies[e]
  BY <1>3, <1>4 DEF Timeout
<1> QED BY <1>1, <1>2, <1>3, <1>4
  DEF Next, Receive, Request, Done, RelayAnswer, vars

\* After a socket's event is checked out or refused nothing more is written
\* for it and it never gets an id again, whatever its handler still does.
THEOREM SettledStaysSettled == Spec => SettledIsFinal
<1>1. IndInv /\ [Next]_vars =>
        \A e \in Event :
          (OnSocket(e) /\ status[e] \in {"done", "refused"})
            => /\ status'[e] = status[e]
               /\ replies'[e] = replies[e]
  BY FinalStep DEF Final
<1> QED BY <1>1, Invariant, PTL DEF Spec, SettledIsFinal

-----------------------------------------------------------------------------

\* The lists are finite as well as bounded; without this the cardinality of
\* a list with one event more is not known.
ListFinite(c) ==
  /\ IsFiniteSet(queued[c])
  /\ Cardinality(queued[c]) <= QueuedEventsPerSocket + 1
ListsFinite == \A c \in Conn : ListFinite(c)

LEMMA ListsStep == IndInv /\ ListsFinite /\ [Next]_vars => ListsFinite'
<1> SUFFICES ASSUME IndInv, [Next]_vars, NEW c \in Conn, ListFinite(c)
             PROVE  ListFinite(c)'
  BY DEF ListsFinite
<1>0. queued' = queued => ListFinite(c)'
  BY DEF ListFinite
<1>1. ASSUME NEW b \in Conn, NEW e \in Event, Checkin(b, e)
      PROVE  ListFinite(c)'
  <2> DEFINE Queues == Started(b, e) \/ Forwarded(b, e)
  <2>1. CASE Queues /\ b = c /\ IsSocket(c)
    <3>1. queued'[c] = queued[c] \cup {e} /\ e \notin queued[c]
      BY <1>1, <2>1
      DEF Started, Forwarded, QueueEvent, Checkin, IndInv, TypeOK, RecordsAgree
    <3>2. /\ Cardinality(queued[c]) \in Nat
          /\ IsFiniteSet(queued[c] \cup {e})
          /\ Cardinality(queued[c] \cup {e}) = Cardinality(queued[c]) + 1
      BY <3>1, FS_AddElement, FS_CardinalityType DEF ListFinite
    <3>3. Cardinality(queued[c]) <= QueuedEventsPerSocket
      BY <2>1, <3>2, LimitAssumption DEF Started, Forwarded, QueueFull
    <3> QED BY <3>1, <3>2, <3>3, LimitAssumption DEF ListFinite
  <2>2. CASE Queues /\ ~ (b = c /\ IsSocket(c))
    <3>1. queued'[c] = queued[c]
      BY <2>2 DEF Started, Forwarded, QueueEvent, IndInv, TypeOK
    <3> QED BY <3>1 DEF ListFinite
  <2>3. CASE ~ Queues
    BY <1>0, <1>1, <2>3 DEF Checkin, Refused, Settled, Answered
  <2> QED BY <2>1, <2>2, <2>3
<1>2. ASSUME NEW e \in Event, NEW full \in BOOLEAN, Checkout(e, full)
      PROVE  ListFinite(c)'
  <2>1. queued'[c] = queued[c] \/ queued'[c] = queued[c] \ {e}
    BY <1>2 DEF Checkout, UnqueueEvent, IndInv, TypeOK
  <2>2. IsFiniteSet(queued[c]) /\ Cardinality(queued[c]) \in Nat
    BY FS_CardinalityType DEF ListFinite
  <2>3. /\ IsFiniteSet(queued[c] \ {e})
        /\ Cardinality(queued[c] \ {e}) <= Cardinality(queued[c])
        /\ Cardinality(queued[c] \ {e}) \in Nat
    <3>1. queued[c] \ {e} \in SUBSET queued[c]
      OBVIOUS
    <3>2. /\ IsFiniteSet(queued[c] \ {e})
          /\ Cardinality(queued[c] \ {e}) <= Cardinality(queued[c])
      BY <2>2, <3>1, FS_Subset
    <3> QED BY <3>2, FS_CardinalityType
  <2>4. Cardinality(queued[c] \ {e}) <= QueuedEventsPerSocket + 1
    BY <2>2, <2>3, LimitAssumption DEF ListFinite
  <2>5. CASE queued'[c] = queued[c]
    BY <2>5 DEF ListFinite
  <2>6. CASE queued'[c] = queued[c] \ {e}
    BY <2>3, <2>4, <2>6 DEF ListFinite
  <2> QED BY <2>1, <2>5, <2>6
<1>3. ASSUME NEW e \in Event, Timeout(e) PROVE ListFinite(c)'
  BY <1>0, <1>2, <1>3 DEF Timeout
<1>4. ASSUME NEW b \in Conn, Connect(b) \/ Disconnect(b) PROVE ListFinite(c)'
  BY <1>0, <1>4 DEF Connect, Disconnect, eventVars
<1>5. ASSUME NEW b \in Conn, NEW e \in Event, Receive(b, e) \/ Request(b, e)
      PROVE  ListFinite(c)'
  BY <1>1, <1>5 DEF Receive, Request
<1>6. ASSUME NEW e \in Event, NEW full \in BOOLEAN, Done(e, full) PROVE ListFinite(c)'
  BY <1>2, <1>6 DEF Done
<1>7. ASSUME NEW e \in Event, RelayAnswer(e) PROVE ListFinite(c)'
  BY <1>2, <1>7 DEF RelayAnswer
<1>8. CASE UNCHANGED vars
  BY <1>0, <1>8 DEF vars
<1> QED BY <1>3, <1>4, <1>5, <1>6, <1>7, <1>8 DEF Next

\* The list of a socket stays within one of its limit, however many requests
\* its client has under way.
THEOREM ListsBounded == Spec => []QueueBounded
<1>1. Init => ListsFinite
  BY FS_EmptySet, LimitAssumption DEF Init, ListsFinite, ListFinite
<1>2. ListsFinite => QueueBounded
  BY DEF ListsFinite, ListFinite, QueueBounded
<1> QED BY <1>1, <1>2, ListsStep, Invariant, PTL DEF Spec

-----------------------------------------------------------------------------

\* The abstract state: what the sockets' clients can tell of their requests.
SocketPhase == [e \in Event |-> IF OnSocket(e) THEN status[e] ELSE "none"]
SocketAnswers == [e \in Event |-> IF OnSocket(e) THEN replies[e] ELSE 0]

LEMMA ProtocolInit == Init => Protocol!Init
BY ConnAssumption DEF Init, Protocol!Init

\* An arrival over a socket is an abstract Accept, Refuse or Settle.
LEMMA ProtocolCheckin ==
  ASSUME IndInv, NEW c \in Conn, NEW e \in Event, Checkin(c, e)
  PROVE  [Protocol!Next]_(Protocol!vars)
<1> USE DEF IndInv, TypeOK
<1>1. /\ conn[e] = NoConn /\ replies[e] = 0
      /\ conn' = [conn EXCEPT ![e] = c]
      /\ SocketPhase[e] = "none" /\ SocketAnswers[e] = 0
  BY ConnAssumption
  DEF Checkin, ConnKnown, NoEarlyReply, SocketPhase, SocketAnswers
<1>2. CASE ~ IsSocket(c)
  <2>1. SocketPhase' = SocketPhase /\ SocketAnswers' = SocketAnswers
    BY <1>1, <1>2, ConnAssumption
    DEF Checkin, Refused, Settled, Started, Answered, Forwarded, SocketPhase,
        SocketAnswers
  <2> QED BY <2>1 DEF Protocol!vars, SocketPhase, SocketAnswers
<1>3. CASE IsSocket(c) /\ Refused(c, e)
  <2>1. /\ SocketPhase' = [SocketPhase EXCEPT ![e] = "refused"]
        /\ SocketAnswers' = SocketAnswers
    BY <1>1, <1>3, ConnAssumption DEF Refused, SocketPhase, SocketAnswers
  <2>2. Protocol!Refuse(e)
    BY <1>1, <2>1 DEF Protocol!Refuse, SocketPhase, SocketAnswers
  <2> QED BY <2>2 DEF Protocol!Next
<1>4. CASE IsSocket(c) /\ (Started(c, e) \/ Forwarded(c, e))
  <2>1. /\ SocketPhase' = [SocketPhase EXCEPT ![e] = "running"]
        /\ SocketAnswers' = SocketAnswers
    BY <1>1, <1>4, ConnAssumption
    DEF Started, Forwarded, SocketPhase, SocketAnswers
  <2>2. Protocol!Accept(e)
    BY <1>1, <2>1 DEF Protocol!Accept, SocketPhase, SocketAnswers
  <2> QED BY <2>2 DEF Protocol!Next
<1>5. CASE IsSocket(c) /\ (Settled(c, e) \/ Answered(c, e))
  <2>1. /\ status' = [status EXCEPT ![e] = "done"]
        /\ replies'[e] \in {0, 1}
        /\ \A d \in Event : d # e => replies'[d] = replies[d]
    BY <1>1, <1>5 DEF Settled, Answered
  <2>2. SocketPhase' = [SocketPhase EXCEPT ![e] = "done"]
    BY <1>1, <1>5, <2>1, ConnAssumption DEF SocketPhase
  <2>3. SocketAnswers' = [SocketAnswers EXCEPT ![e] = replies'[e]]
    BY <1>1, <1>5, <2>1, ConnAssumption DEF SocketAnswers
  <2>4. Protocol!Settle(e)
    BY <1>1, <2>1, <2>2, <2>3 DEF Protocol!Settle, SocketPhase, SocketAnswers
  <2> QED BY <2>4 DEF Protocol!Next
<1> QED BY <1>2, <1>3, <1>4, <1>5 DEF Checkin

\* A checkout is an abstract Settle when the event is a socket's and still
\* under way; otherwise the sockets' clients see nothing.
LEMMA ProtocolCheckout ==
  ASSUME IndInv, NEW e \in Event, NEW full \in BOOLEAN, Checkout(e, full),
         watchdog[e] # "off" \/ HandedOver(e), UNCHANGED conn
  PROVE  [Protocol!Next]_(Protocol!vars)
<1> USE DEF IndInv, TypeOK
<1>1. conn[e] \in Conn
  BY DEF WatchdogKnown, ConnKnown, RelayKnown
<1>2. CASE ~ IsSocket(conn[e]) \/ ~ CanUnqueue(e)
  <2>1. SocketPhase' = SocketPhase /\ SocketAnswers' = SocketAnswers
    BY <1>1, <1>2 DEF Checkout, CanUnqueue, SocketPhase, SocketAnswers
  <2> QED BY <2>1 DEF Protocol!vars, SocketPhase, SocketAnswers
<1>3. CASE IsSocket(conn[e]) /\ CanUnqueue(e)
  <2>1. status[e] = "running" /\ replies[e] = 0
    BY <1>1, <1>3 DEF CanUnqueue, RecordsAgree, NoEarlyReply
  <2>2. SocketPhase[e] = "running"
    BY <1>1, <1>3, <2>1 DEF SocketPhase
  <2>3. /\ status' = [status EXCEPT ![e] = "done"]
        /\ replies'[e] \in {0, 1}
        /\ \A d \in Event : d # e => replies'[d] = replies[d]
    BY <1>3, <2>1 DEF Checkout
  <2>4. SocketPhase' = [SocketPhase EXCEPT ![e] = "done"]
    BY <1>1, <1>3, <2>3 DEF SocketPhase
  <2>5. SocketAnswers' = [SocketAnswers EXCEPT ![e] = replies'[e]]
    BY <1>1, <1>3, <2>3 DEF SocketAnswers
  <2>6. Protocol!Settle(e)
    BY <2>2, <2>3, <2>4, <2>5
    DEF Protocol!Settle, SocketPhase, SocketAnswers
  <2> QED BY <2>6 DEF Protocol!Next
<1> QED BY <1>2, <1>3

\* Each callback, seen at the events of the sockets only, is a step of the
\* abstract protocol or none.
LEMMA ProtocolStep == IndInv /\ [Next]_vars => [Protocol!Next]_(Protocol!vars)
<1> SUFFICES ASSUME IndInv, [Next]_vars PROVE [Protocol!Next]_(Protocol!vars)
  OBVIOUS
<1>1. (UNCHANGED <<status, conn, replies>>) => UNCHANGED Protocol!vars
  BY DEF Protocol!vars
<1>2. ASSUME NEW c \in Conn, Connect(c) \/ Disconnect(c)
      PROVE  UNCHANGED Protocol!vars
  BY <1>1, <1>2 DEF Connect, Disconnect, eventVars
<1>3. ASSUME NEW c \in Conn, NEW e \in Event, Receive(c, e) \/ Request(c, e)
      PROVE  [Protocol!Next]_(Protocol!vars)
  BY <1>3, ProtocolCheckin DEF Receive, Request
<1>4. ASSUME NEW e \in Event, NEW full \in BOOLEAN, Done(e, full)
      PROVE  [Protocol!Next]_(Protocol!vars)
  BY <1>4, ProtocolCheckout DEF Done
<1>5. ASSUME NEW e \in Event, Timeout(e)
      PROVE  [Protocol!Next]_(Protocol!vars)
  <2>1. CASE status[e] = "running"
    <3>1. Checkout(e, FALSE) /\ watchdog[e] # "off" /\ UNCHANGED conn
      BY <1>5, <2>1 DEF Timeout
    <3> QED BY <3>1, ProtocolCheckout
  <2>2. CASE status[e] # "running"
    BY <1>1, <1>5, <2>2 DEF Timeout
  <2> QED BY <2>1, <2>2
<1>6. ASSUME NEW e \in Event, RelayAnswer(e)
      PROVE  [Protocol!Next]_(Protocol!vars)
  BY <1>6, ProtocolCheckout DEF RelayAnswer
<1>7. CASE UNCHANGED vars
  BY <1>1, <1>7 DEF vars
<1> QED BY <1>2, <1>3, <1>4, <1>5, <1>6, <1>7 DEF Next

\* The event layer implements the request-reply protocol for its sockets.
THEOREM Refinement == Spec => ImplementsProtocol
BY ProtocolInit, ProtocolStep, Invariant, PTL
DEF Spec, ImplementsProtocol, Protocol!Spec

=============================================================================
