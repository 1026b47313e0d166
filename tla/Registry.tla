------------------------------ MODULE Registry ------------------------------
(***************************************************************************)
(* What the lobby knows of its app servers:                                *)
(*   core/app_manager_handler.js  the messages of app servers              *)
(*   core/app_conn.js             records of app servers, user counts      *)
(*   core/RPC.js                  the servers that events are relayed to   *)
(*   extension/location.js        the app server each account is at        *)
(*   core/app_connector.js        what an app server sends, and when       *)
(* Each end of a link finds out in its own time that the other is gone,    *)
(* and an app server may be back on a new link before the lobby has        *)
(* noticed the end of the old one.  All app servers have one name and thus *)
(* one location; a location that is deleted and made again has a new id.   *)
(* An operator that ends in "Variant" is a faulty version of the           *)
(* definition after it, kept to show that a property can fail.             *)
(***************************************************************************)
EXTENDS Integers, Sequences, FiniteSetsExt

CONSTANTS
  App,       \* app servers; an app server stands for its id as well
  Conn,      \* links; a link stands for its connID at the lobby as well
  Account,
  NoApp, NoConn,
  MaxUsers,  \* bound: users connected to one app server at a time
  MaxWire    \* bound: messages in flight

ASSUME RegistryAssumption ==
  /\ NoApp \notin App
  /\ NoConn \notin Conn
  /\ MaxUsers \in Nat
  /\ MaxWire \in Nat

VARIABLES
  underload,  \* a server setting servers.underload of 0 exists
  owner,      \* the app server that made each link
  link,       \* of each link: new, open, half (the app server is gone), lost
              \* (the lobby is gone), closed
  wire,       \* messages to the lobby; those that a link has gone deaf for
              \* stay in flight
  current,    \* l_conn of each app server
  users,      \* number of users connected to each app server
  apps,       \* AppConn.l_apps: the connID on the record of each app server
  count,      \* AppConn.l_apps: the usercount on it
  placed,     \* AppConn.l_apps: records whose locationID exists
  conn2app,   \* AppConn.l_conn2app
  servers,    \* RPC.l_servers: the connection of each server
  located,    \* Location.l_apps: its keys
  members,    \* Location.l_apps: the users of each app server
  at          \* Location.l_accounts

links == <<owner, link, wire, current>>
records == <<apps, count, placed>>
locations == <<located, members, at>>
vars == <<underload, links, users, records, conn2app, servers, locations>>

Message ==
  {<<"READY">>, <<"CONNECTED">>, <<"DISCONNECTED">>}
    \cup ({"LOGIN", "LOGOUT"} \X Account)

TypeOK ==
  /\ underload \in BOOLEAN
  /\ owner \in [Conn -> App \cup {NoApp}]
  /\ link \in [Conn -> {"new", "open", "half", "lost", "closed"}]
  /\ wire \in [Conn -> Seq(Message)]
  /\ current \in [App -> Conn \cup {NoConn}]
  /\ users \in [App -> 0 .. MaxUsers]
  /\ apps \in [App -> Conn \cup {NoConn}]
  /\ count \in [App -> Int]
  /\ placed \in SUBSET App
  /\ conn2app \in [Conn -> App \cup {NoApp}]
  /\ servers \in [App -> Conn \cup {NoConn}]
  /\ located \in SUBSET App
  /\ members \in [App -> SUBSET Account]
  /\ at \in [Account -> App \cup {NoApp}]

Init ==
  /\ underload \in BOOLEAN
  /\ owner = [c \in Conn |-> NoApp]
  /\ link = [c \in Conn |-> "new"]
  /\ wire = [c \in Conn |-> << >>]
  /\ current = [a \in App |-> NoConn]
  /\ users = [a \in App |-> 0]
  /\ apps = [a \in App |-> NoConn]
  /\ count = [a \in App |-> 0]
  /\ placed = {}
  /\ conn2app = [c \in Conn |-> NoApp]
  /\ servers = [a \in App |-> NoConn]
  /\ located = {}
  /\ members = [a \in App |-> {}]
  /\ at = [acc \in Account |-> NoApp]

\* Links that exist at the lobby (isConnected), and app servers on record.
Connected == {c \in Conn : link[c] \in {"open", "half"}}
Recorded == {a \in App : apps[a] # NoConn}

-----------------------------------------------------------------------------
(* The app servers.                                                        *)

\* There is room for n more messages in flight.
Room(n) == MapThenSumSet(LAMBDA c : Len(wire[c]), Conn) + n <= MaxWire

\* Link c once its app server has let go of it.
AppGone(c) ==
  IF link[c] = "open" THEN "half"
  ELSE IF link[c] = "lost" THEN "closed"
  ELSE link[c]

\* App server a makes link c, hangs up the one before, and registers: twice
\* where connector.js has set up the socket twice.
Dial(a, c) ==
  /\ link[c] = "new"
  /\ owner' = [owner EXCEPT ![c] = a]
  /\ current' = [current EXCEPT ![a] = c]
  /\ link' = [d \in Conn |->
                IF d = c THEN "open"
                ELSE IF d = current[a] THEN AppGone(d)
                ELSE link[d]]
  /\ \E ready \in {<< <<"READY">> >>, << <<"READY">>, <<"READY">> >>} :
       /\ Room(Len(ready))
       /\ wire' = [wire EXCEPT ![c] = ready]
  /\ UNCHANGED <<underload, users, records, conn2app, servers, locations>>

\* The end of link c at the app server.
AppClosed(c) ==
  /\ link[c] \in {"open", "lost"}
  /\ link' = [link EXCEPT ![c] = AppGone(c)]
  /\ UNCHANGED <<underload, owner, wire, current, users, records,
                 conn2app, servers, locations>>

\* notifyLobby: what is sent on a link that is gone is lost.
Notify(a, m) ==
  \E c \in Conn :
    /\ c = current[a]
    /\ IF link[c] = "open"
       THEN /\ Room(1)
            /\ wire' = [wire EXCEPT ![c] = Append(@, m)]
       ELSE UNCHANGED wire

\* Before the first link is made there is nothing to send on.
NotifyOrDrop(a, m) ==
  \/ Notify(a, m)
  \/ current[a] = NoConn /\ UNCHANGED wire

\* A user connects to app server a, or leaves it.
UserConnects(a) ==
  /\ users[a] < MaxUsers
  /\ users' = [users EXCEPT ![a] = @ + 1]
  /\ NotifyOrDrop(a, <<"CONNECTED">>)
  /\ UNCHANGED <<underload, owner, link, current, records, conn2app,
                 servers, locations>>

UserLeaves(a) ==
  /\ users[a] > 0
  /\ users' = [users EXCEPT ![a] = @ - 1]
  /\ NotifyOrDrop(a, <<"DISCONNECTED">>)
  /\ UNCHANGED <<underload, owner, link, current, records, conn2app,
                 servers, locations>>

\* verifyClient and disposeClient.
Report(a, acc) ==
  /\ \E type \in {"LOGIN", "LOGOUT"} : Notify(a, <<type, acc>>)
  /\ UNCHANGED <<underload, owner, link, current, users, records,
                 conn2app, servers, locations>>

-----------------------------------------------------------------------------
(* The lobby.                                                              *)

\* Location.delApp, for an app server that may have no location record.  The
\* location goes with its last app server, whatever records refer to it.
DelApp(a) ==
  /\ located' = located \ {a}
  /\ members' = [members EXCEPT ![a] = {}]
  /\ placed' = IF located = {a} THEN {} ELSE placed \ {a}

\* deleteApp for an app server whose user count is n by now.  If accounts are
\* at it, an exception ends it first, as the variable l_transferLobbyRequests
\* does not exist.  safeCall catches it when SAFE_CALL is set, as modelled
\* here; a lobby without it, that is not in production, shuts down.
DeleteApp(a, n) ==
  \/ /\ members[a] # {}
     /\ count' = [count EXCEPT ![a] = n]
     /\ UNCHANGED <<apps, placed, located, members>>
  \/ /\ members[a] = {}
     /\ apps' = [apps EXCEPT ![a] = NoConn]
     /\ count' = [count EXCEPT ![a] = 0]
     /\ DelApp(a)

\* The next message of link c is m.
Takes(c, m) ==
  /\ c \in Connected
  /\ wire[c] # << >>
  /\ m = Head(wire[c])
  /\ wire' = [wire EXCEPT ![c] = Tail(@)]

\* A record that exists is given the new connection.
CreateAppVariant(a, c) ==
  /\ apps' = [apps EXCEPT ![a] = c]
  /\ count' = [count EXCEPT ![a] = 0]
  /\ placed' = placed \cup {a}
  /\ conn2app' = [conn2app EXCEPT ![c] = a]
  /\ servers' = [servers EXCEPT ![a] = IF @ = NoConn THEN c ELSE @]

\* createApp and the callbacks of onAppServerStart.  A record that exists is
\* left alone, although SR_APP_READY_RES says that all is well.
CreateApp(a, c) ==
  \/ /\ a \notin Recorded
     /\ apps' = [apps EXCEPT ![a] = c]
     /\ count' = [count EXCEPT ![a] = 0]
     /\ placed' = placed \cup {a}
     /\ conn2app' = [conn2app EXCEPT ![c] = a]
     /\ servers' = [servers EXCEPT ![a] = IF @ = NoConn THEN c ELSE @]
  \/ /\ a \in Recorded
     /\ UNCHANGED <<records, conn2app, servers>>

HandleReady(c) ==
  /\ Takes(c, <<"READY">>)
  /\ CreateApp(owner[c], c)
  /\ UNCHANGED <<underload, owner, link, current, users, locations>>

\* getAppID of link c, as far as there is a record: a set of one or none.
AppOf(c) == {a \in Recorded : a = conn2app[c]}

HandleConnected(c) ==
  /\ Takes(c, <<"CONNECTED">>)
  /\ count' = [a \in App |-> IF a \in AppOf(c) THEN count[a] + 1 ELSE count[a]]
  /\ UNCHANGED <<underload, owner, link, current, users, apps, placed,
                 conn2app, servers, locations>>

\* The user count goes down, and at the threshold the record is deleted.
HandleDisconnected(c) ==
  /\ Takes(c, <<"DISCONNECTED">>)
  /\ \/ \E a \in AppOf(c) :
          IF underload /\ count[a] - 1 <= 0
          THEN DeleteApp(a, count[a] - 1)
          ELSE /\ count' = [count EXCEPT ![a] = @ - 1]
               /\ UNCHANGED <<apps, placed, located, members>>
     \/ AppOf(c) = {} /\ UNCHANGED <<records, located, members>>
  /\ UNCHANGED <<underload, owner, link, current, users, conn2app,
                 servers, at>>

\* delUser, for an account that is somewhere.
Without(acc) == [a \in App |-> members[a] \ {acc}]

\* setUser and delUser fail for an account whose app server has no location
\* record.
Misplaced(acc) == at[acc] # NoApp /\ at[acc] \notin located

\* The account stays a member of the app server it was at.
HandleLoginVariant(c, acc) ==
  /\ Takes(c, <<"LOGIN", acc>>)
  /\ \/ \E a \in AppOf(c) \cap placed :
          /\ ~Misplaced(acc)
          /\ located' = located \cup {a}
          /\ members' = [members EXCEPT ![a] = @ \cup {acc}]
          /\ at' = [at EXCEPT ![acc] = a]
     \/ UNCHANGED locations
  /\ UNCHANGED <<underload, owner, link, current, users, records,
                 conn2app, servers>>

\* An account logs in at the app server of link c, which puts it there if its
\* token is right and the location of the app server exists.
HandleLogin(c, acc) ==
  /\ Takes(c, <<"LOGIN", acc>>)
  /\ \/ \E a \in AppOf(c) \cap placed :
          /\ ~Misplaced(acc)
          /\ located' = located \cup {a}
          /\ members' = [Without(acc) EXCEPT ![a] = @ \cup {acc}]
          /\ at' = [at EXCEPT ![acc] = a]
     \/ UNCHANGED locations
  /\ UNCHANGED <<underload, owner, link, current, users, records,
                 conn2app, servers>>

\* It logs out, whichever app server says so.
HandleLogout(c, acc) ==
  /\ Takes(c, <<"LOGOUT", acc>>)
  /\ IF Misplaced(acc)
     THEN UNCHANGED <<members, at>>
     ELSE /\ members' = Without(acc)
          /\ at' = [at EXCEPT ![acc] = NoApp]
  /\ UNCHANGED <<underload, owner, link, current, users, records,
                 conn2app, servers, located>>

\* removeServer, looking for the wrong connection.
RemoveServerVariant(c) ==
  UNCHANGED servers

\* removeServer.
RemoveServer(c) ==
  servers' = [a \in App |-> IF servers[a] = c THEN NoConn ELSE servers[a]]

\* The lobby finds that link c is gone: the callback of RPC.js comes first,
\* then onDisconnect of AppConn.
LobbyClosed(c) ==
  /\ c \in Connected
  /\ link' = [link EXCEPT ![c] = IF @ = "open" THEN "lost" ELSE "closed"]
  /\ wire' = [wire EXCEPT ![c] = << >>]
  /\ RemoveServer(c)
  /\ conn2app' = [conn2app EXCEPT ![c] = NoApp]
  /\ \/ \E a \in App : a = conn2app[c] /\ DeleteApp(a, count[a])
     \/ conn2app[c] = NoApp /\ UNCHANGED <<records, located, members>>
  /\ UNCHANGED <<underload, owner, current, users, at>>

Next ==
  \/ \E a \in App :
       \/ \E c \in Conn : Dial(a, c)
       \/ UserConnects(a) \/ UserLeaves(a)
       \/ \E acc \in Account : Report(a, acc)
  \/ \E c \in Conn :
       \/ AppClosed(c) \/ LobbyClosed(c)
       \/ HandleReady(c) \/ HandleConnected(c) \/ HandleDisconnected(c)
       \/ \E acc \in Account : HandleLogin(c, acc) \/ HandleLogout(c, acc)

Spec == Init /\ [][Next]_vars

-----------------------------------------------------------------------------
(* Properties.                                                             *)

\* The lists of connections agree with the links: neither a relayed event nor
\* a message of an app server is ever taken for another app server's, or sent
\* to a link that the lobby knows to be gone (RPC.l_servers, l_conn2app).
ServersAgree ==
  \A a \in App : servers[a] # NoConn =>
    servers[a] \in Connected /\ owner[servers[a]] = a

LinksAgree ==
  \A c \in Conn : conn2app[c] # NoApp =>
    c \in Connected /\ owner[c] = conn2app[c]

RecordsAgree ==
  \A a \in Recorded : apps[a] \in Connected => conn2app[apps[a]] = a

RegistryAgrees == ServersAgree /\ LinksAgree /\ RecordsAgree

\* Without underload an app server has one registered link at most, and it is
\* the one on its record.
OneRegistration ==
  ~underload => \A c \in Conn : conn2app[c] # NoApp => apps[conn2app[c]] = c

\* The dispatcher hands events to an app server on record; as long as the
\* record's link lives, RPC knows a server to relay them to (handler.js:310).
ForwardHasTarget ==
  ~underload =>
    \A a \in Recorded : apps[a] \in Connected => servers[a] # NoConn

\* Where an account is said to be it is: its app server has a record, a
\* location record that lists it, and a location; no other lists it.
LocationResolves ==
  /\ \A acc \in Account, a \in App : acc \in members[a] <=> at[acc] = a
  /\ \A acc \in Account : at[acc] # NoApp => at[acc] \in located
  /\ located \subseteq Recorded \cap placed

\* Users coming and going that the lobby is still to hear of.
Number(type, msgs) == Cardinality({i \in 1 .. Len(msgs) : msgs[i] = <<type>>})
Pending(msgs) == Number("CONNECTED", msgs) - Number("DISCONNECTED", msgs)

\* Without underload an app server with a registered link is never thought
\* busier than it is: its count, with what is on the way, is not above its
\* users, however many links it has lost (app_conn.js, updateUserCount).
CountNotAbove ==
  ~underload => \A a \in App, c \in Conn :
    /\ c = current[a] /\ link[c] = "open"
    /\ conn2app[c] = a /\ apps[a] = c
    => count[a] + Pending(wire[c]) <= users[a]

=============================================================================
