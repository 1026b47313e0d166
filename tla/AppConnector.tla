---------------------------- MODULE AppConnector ----------------------------
(***************************************************************************)
(* The link of an app server to the lobby:                                 *)
(*   core/connector.js      the sockets of the connector                   *)
(*   core/app_connector.js  registering at the lobby, connecting again     *)
(*   core/socket.js         the listeners of a socket and its way down     *)
(*   core/conn.js           the connection object of a socket              *)
(* The lobby and the network are the environment: they accept or refuse a  *)
(* socket, answer SR_APP_READY, close a link or break it.                  *)
(*                                                                         *)
(* The callback that connect() gives a socket works on the variable        *)
(* l_socket, not on the socket that has connected, so that it may set up   *)
(* another one.  A closed socket stands for one not created yet, unless it *)
(* is the one in use.  An operator that ends in "Variant" is a faulty       *)
(* version of the definition after it, kept to show that a property can    *)
(* fail.                                                                   *)
(***************************************************************************)
EXTENDS Naturals

CONSTANTS
  Socket,    \* sockets of the connector
  NoSocket,  \* the value of l_socket when it is undefined
  MaxTimers  \* bound: calls of l_connect that are pending

ASSUME AppConnectorAssumption ==
  /\ NoSocket \notin Socket
  /\ MaxTimers \in Nat

VARIABLES
  autoshut,    \* APPSERVER_AUTOSHUT
  state,       \* of each socket: connecting, open, closed
  ended,       \* sockets that are not closed yet although the app called end()
  connected,   \* sockets whose flag "connected" is set
  listeners,   \* number of times each socket was set up
  unanswered,  \* SR_APP_READY sent on each socket and not answered yet
  deaf,        \* sockets that carry messages no end can parse any more
  l_socket,    \* the socket in use, or NoSocket
  watched,     \* the socket that l_disconnect listens to
  timers,      \* calls of l_connect that are pending
  disposed,    \* l_appConnector is undefined again
  started,     \* l_onDone has been called
  alive        \* no exception has ended the process

connector_vars ==
  <<autoshut, state, ended, connected, listeners, unanswered, deaf, l_socket,
    watched, timers, disposed, started, alive>>

wires == <<unanswered, deaf>>

ConnectorTypeOK ==
  /\ autoshut \in BOOLEAN
  /\ state \in [Socket -> {"connecting", "open", "closed"}]
  /\ ended \in SUBSET Socket
  /\ connected \in SUBSET Socket
  /\ listeners \in [Socket -> Nat]
  /\ unanswered \in [Socket -> Nat]
  /\ deaf \in SUBSET Socket
  /\ l_socket \in Socket \cup {NoSocket}
  /\ watched \in Socket \cup {NoSocket}
  /\ timers \in 0 .. MaxTimers
  /\ disposed \in BOOLEAN
  /\ started \in BOOLEAN
  /\ alive \in BOOLEAN

Live(s) == state[s] # "closed"
LiveSockets == {s \in Socket : Live(s)}

\* The socket in use, if any.
InUse == {s \in Socket : s = l_socket}

\* init() calls l_connect at once, and thus creates the first socket.
ConnectorInit ==
  /\ autoshut \in BOOLEAN
  /\ l_socket \in Socket
  /\ state = [s \in Socket |-> IF s = l_socket THEN "connecting" ELSE "closed"]
  /\ ended = {}
  /\ connected = {}
  /\ listeners = [s \in Socket |-> 0]
  /\ unanswered = [s \in Socket |-> 0]
  /\ deaf = {}
  /\ watched = NoSocket
  /\ timers = 0
  /\ disposed = FALSE
  /\ started = FALSE
  /\ alive = TRUE

-----------------------------------------------------------------------------
(* Connecting.                                                             *)

\* Without the end().
ConnectVariant(s) ==
  /\ ~Live(s) /\ s # l_socket
  /\ l_socket' = s
  /\ state' = [state EXCEPT ![s] = "connecting"]
  /\ listeners' = [listeners EXCEPT ![s] = 0]
  /\ unanswered' = [unanswered EXCEPT ![s] = 0]
  /\ connected' = connected \ {s}
  /\ UNCHANGED <<ended, deaf>>

\* connect(): the socket in use is ended, and s takes its place.
Connect(s) ==
  /\ ~Live(s) /\ s # l_socket
  /\ l_socket' = s
  /\ ended' = ended \cup (InUse \cap LiveSockets)
  /\ state' = [state EXCEPT ![s] = "connecting"]
  /\ listeners' = [listeners EXCEPT ![s] = 0]
  /\ unanswered' = [unanswered EXCEPT ![s] = 0]
  /\ connected' = connected \ {s}
  /\ UNCHANGED deaf

\* A timer calls l_connect, which does nothing without a connector.
TimerFires ==
  /\ alive
  /\ timers > 0
  /\ timers' = timers - 1
  /\ \/ /\ ~disposed
        /\ \E s \in Socket : Connect(s)
     \/ /\ disposed
        /\ UNCHANGED <<state, ended, connected, listeners, wires, l_socket>>
  /\ UNCHANGED <<autoshut, watched, disposed, started, alive>>

\* Without l_register.
SetupVariant(s) ==
  /\ connected' = connected \cup {s}
  /\ listeners' = [listeners EXCEPT ![s] = @ + 1]
  /\ UNCHANGED unanswered

\* setup() of socket s, and l_register after it.
Setup(s) ==
  /\ connected' = connected \cup {s}
  /\ listeners' = [listeners EXCEPT ![s] = @ + 1]
  /\ unanswered' = [unanswered EXCEPT ![s] = @ + 1]

\* Socket s has connected: its callback sets up the socket in use.
Established(s) ==
  /\ alive
  /\ state[s] = "connecting"
  /\ l_socket # NoSocket
  /\ state' = [state EXCEPT ![s] = "open"]
  /\ Setup(l_socket)
  /\ UNCHANGED <<autoshut, ended, deaf, l_socket, watched, timers, disposed,
                 started, alive>>

\* The same after l_disconnect: "connected" of undefined is a TypeError that
\* nothing catches.
EstablishedLate(s) ==
  /\ alive
  /\ state[s] = "connecting"
  /\ l_socket = NoSocket
  /\ state' = [state EXCEPT ![s] = "open"]
  /\ alive' = FALSE
  /\ UNCHANGED <<autoshut, ended, connected, listeners, wires, l_socket,
                 watched, timers, disposed, started>>

-----------------------------------------------------------------------------
(* Going down.                                                             *)

\* l_appConnector keeps its value.
KeepVariant(live) ==
  /\ ended' = (ended \cup InUse) \cap live
  /\ watched' = l_socket
  /\ l_socket' = NoSocket
  /\ UNCHANGED disposed

\* Without the end().
LetGoVariant(live) ==
  IF disposed
  THEN /\ ended' = ended \cap live
       /\ UNCHANGED <<l_socket, watched, disposed>>
  ELSE /\ ended' = ended \cap live
       /\ watched' = l_socket
       /\ l_socket' = NoSocket
       /\ disposed' = TRUE

\* l_dispose and l_disconnect: the socket in use is ended and let go.  Of the
\* sockets that have been ended those in live are not closed yet.
LetGo(live) ==
  IF disposed
  THEN /\ ended' = ended \cap live
       /\ UNCHANGED <<l_socket, watched, disposed>>
  ELSE /\ ended' = (ended \cup InUse) \cap live
       /\ watched' = l_socket
       /\ l_socket' = NoSocket
       /\ disposed' = TRUE

\* The connector is disposed of: by a step of the shutdown, or by APP_SHUTDOWN.
Dispose ==
  /\ alive
  /\ ~disposed
  /\ LetGo(LiveSockets)
  /\ UNCHANGED <<autoshut, state, connected, listeners, wires, timers, started,
                 alive>>

\* Socket s goes down, and disconnect_handler with it if the socket has been
\* set up: the app shuts down, or sets a timer in addition to n others.
GoDown(s, n) ==
  /\ state' = [state EXCEPT ![s] = "closed"]
  /\ connected' = connected \ {s}
  /\ listeners' = [listeners EXCEPT ![s] = 0]
  /\ unanswered' = [unanswered EXCEPT ![s] = 0]
  /\ deaf' = deaf \ {s}
  /\ \/ /\ s \in connected /\ autoshut
        /\ LetGo(LiveSockets \ {s})
        /\ timers' = timers + n
     \/ /\ s \in connected /\ ~autoshut
        /\ timers' = timers + n + 1
        /\ ended' = ended \ {s}
        /\ UNCHANGED <<l_socket, watched, disposed>>
     \/ /\ s \notin connected
        /\ timers' = timers + n
        /\ ended' = ended \ {s}
        /\ UNCHANGED <<l_socket, watched, disposed>>
  /\ timers' <= MaxTimers
  /\ UNCHANGED <<autoshut, started>>

\* A link is closed in good order, by the lobby or after an end().
Closed(s) ==
  /\ alive
  /\ state[s] = "open"
  /\ GoDown(s, 0)
  /\ UNCHANGED alive

\* The callback of connect() does not set a timer.
ErrorVariant(s) ==
  /\ alive
  /\ Live(s) \/ s \in connected
  /\ GoDown(s, 0)
  /\ alive' = ~(Live(s) /\ watched' = s)

\* An error: the lobby refuses the socket, the link breaks, or the app has
\* written to a socket that is gone.  connect() has an error listener of its
\* own, which sets a timer.  The "close" that comes after the error finds the
\* listener of l_disconnect, which reads l_socket: a TypeError again.
Error(s) ==
  /\ alive
  /\ Live(s) \/ s \in connected
  /\ GoDown(s, 1)
  /\ alive' = ~(Live(s) /\ watched' = s)

-----------------------------------------------------------------------------
(* Messages.                                                               *)

\* The lobby's SR_APP_READY_RES comes in: l_onDone is called the first time.
Answered(s) ==
  /\ alive
  /\ state[s] = "open"
  /\ unanswered[s] > 0
  /\ s \notin deaf
  /\ unanswered' = [unanswered EXCEPT ![s] = @ - 1]
  /\ started' = TRUE
  /\ UNCHANGED <<autoshut, state, ended, connected, listeners, deaf, l_socket,
                 watched, timers, disposed, alive>>

\* Two messages of one link come in together: process() cannot parse the
\* buffer, and keeps it before all that comes later.
Merge(s) ==
  /\ alive
  /\ state[s] = "open"
  /\ s \in connected \ deaf
  /\ deaf' = deaf \cup {s}
  /\ UNCHANGED <<autoshut, state, ended, connected, listeners, unanswered,
                 l_socket, watched, timers, disposed, started, alive>>

ConnectorNext ==
  \/ TimerFires
  \/ Dispose
  \/ \E s \in Socket :
       \/ Established(s) \/ EstablishedLate(s)
       \/ Closed(s) \/ Error(s)
       \/ Answered(s) \/ Merge(s)

ConnectorSpec == ConnectorInit /\ [][ConnectorNext]_connector_vars

\* What comes of an attempt to connect.
Attempt(s) ==
  /\ state[s] = "connecting"
  /\ Established(s) \/ EstablishedLate(s) \/ Error(s)

\* Timers fire and each socket gets somewhere: an attempt is accepted or
\* refused, and a link that was ended is closed.  The lobby is there: it does
\* not refuse the socket in use each time, nor leave its messages unanswered.
Fairness ==
  /\ WF_connector_vars(TimerFires)
  /\ SF_connector_vars(\E s \in Socket : s = l_socket /\ Established(s))
  /\ \A s \in Socket :
       /\ WF_connector_vars(Attempt(s))
       /\ WF_connector_vars(s \in ended /\ Closed(s))
       /\ SF_connector_vars(Answered(s))

FairConnectorSpec == ConnectorSpec /\ Fairness

-----------------------------------------------------------------------------
(* Properties.                                                             *)

\* The app server never gives the lobby up: until it is disposed of, it has
\* a link, an attempt under way, or a timer that makes the next attempt
\* (app_connector.js, onDisconnect and l_connect).
NeverStranded ==
  alive /\ ~disposed =>
    timers > 0 \/ InUse \cap LiveSockets # {}

\* However many timers run at a time, the app holds at most one socket it has
\* not hung up, and none once it is disposed of: connect() ends the socket in
\* use before it makes another (connector.js:86-93), l_disconnect ends it too.
OneLink ==
  \A s \in Socket : Live(s) => s \in ended \/ s = l_socket

\* Callbacks that come too late end the process, but in a shutdown only.
CrashInShutdownOnly ==
  ~alive => disposed

\* The start of the app server gets on: the lobby answers SR_APP_READY some
\* time, unless the app is stopped or one of its links has gone deaf.
Starts == <>(started \/ disposed \/ deaf # {})

\* After a shutdown that does not crash no link is left.
ShutdownCloses == disposed ~> (~alive \/ \A s \in Socket : ~Live(s))

=============================================================================
