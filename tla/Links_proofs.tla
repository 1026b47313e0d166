---------------------------- MODULE Links_proofs ----------------------------
(***************************************************************************)
(* Proofs about the two ends of the links between app servers and the      *)
(* lobby: the registry of the lobby (Registry), for any app servers, links *)
(* and accounts and any bounds, and the connector of an app server         *)
(* (AppConnector), for any number of sockets and timers.                   *)
(***************************************************************************)
EXTENDS Registry, AppConnector, FiniteSetTheorems, FunctionTheorems,
        SequenceTheorems, TLAPS

-----------------------------------------------------------------------------
(* Types.                                                                  *)

\* The variables that deleteApp changes.
RecordTypes ==
  /\ apps \in [App -> Conn \cup {NoConn}]
  /\ count \in [App -> Int]
  /\ placed \in SUBSET App
  /\ located \in SUBSET App
  /\ members \in [App -> SUBSET Account]

\* A link that was made has an owner.
Owned == \A c \in Conn : link[c] # "new" => owner[c] \in App

LEMMA InitTypes == Init => TypeOK /\ Owned
BY RegistryAssumption DEF Init, TypeOK, Owned

\* What is sent is a message.
LEMMA NotifyTypes ==
  ASSUME TypeOK, NEW a \in App, NEW m \in Message, Notify(a, m)
  PROVE  wire' \in [Conn -> Seq(Message)]
<1>1. PICK c \in Conn :
        \/ wire' = [wire EXCEPT ![c] = Append(@, m)]
        \/ wire' = wire
  BY DEF Notify
<1>2. wire \in [Conn -> Seq(Message)]
  BY DEF TypeOK
<1>3. Append(wire[c], m) \in Seq(Message)
  BY <1>2
<1> QED BY <1>1, <1>2, <1>3

LEMMA NotifyOrDropTypes ==
  ASSUME TypeOK, NEW a \in App, NEW m \in Message, NotifyOrDrop(a, m)
  PROVE  wire' \in [Conn -> Seq(Message)]
BY NotifyTypes DEF TypeOK, NotifyOrDrop

LEMMA TakesTypes ==
  ASSUME TypeOK, NEW c \in Conn, NEW m, Takes(c, m)
  PROVE  wire' \in [Conn -> Seq(Message)]
BY DEF TypeOK, Takes

LEMMA DeleteAppTypes ==
  ASSUME TypeOK, NEW a \in App, NEW n \in Int, DeleteApp(a, n)
  PROVE  RecordTypes'
<1>1. RecordTypes
  BY DEF TypeOK, RecordTypes
<1>2. CASE /\ count' = [count EXCEPT ![a] = n]
           /\ UNCHANGED <<apps, placed, located, members>>
  BY <1>1, <1>2 DEF RecordTypes
<1>3. CASE /\ apps' = [apps EXCEPT ![a] = NoConn]
           /\ count' = [count EXCEPT ![a] = 0]
           /\ DelApp(a)
  <2>1. /\ apps' \in [App -> Conn \cup {NoConn}]
        /\ count' \in [App -> Int]
    BY <1>1, <1>3 DEF RecordTypes
  <2>2. /\ placed' \in SUBSET App
        /\ located' \in SUBSET App
        /\ members' \in [App -> SUBSET Account]
    BY <1>1, <1>3 DEF RecordTypes, DelApp
  <2> QED BY <2>1, <2>2 DEF RecordTypes
<1> QED BY <1>2, <1>3 DEF DeleteApp

LEMMA StepTypes == TypeOK /\ Owned /\ [Next]_vars => TypeOK' /\ Owned'
<1> SUFFICES ASSUME TypeOK, Owned, [Next]_vars PROVE TypeOK' /\ Owned'
  OBVIOUS
<1> USE DEF links, records, locations
<1>1. ASSUME NEW a \in App, NEW c \in Conn, Dial(a, c) PROVE TypeOK'
  <2>1. wire' \in [Conn -> Seq(Message)]
    <3>1. <<"READY">> \in Message
      BY DEF Message
    <3>2. << <<"READY">> >> \in Seq(Message) /\ << <<"READY">>, <<"READY">> >> \in Seq(Message)
      BY <3>1
    <3> QED BY <1>1, <3>2 DEF Dial, TypeOK
  <2>2. link' \in [Conn -> {"new", "open", "half", "lost", "closed"}]
    BY <1>1 DEF Dial, TypeOK, AppGone
  <2>3. owner' \in [Conn -> App \cup {NoApp}] /\ current' \in [App -> Conn \cup {NoConn}]
    BY <1>1 DEF Dial, TypeOK
  <2> QED BY <1>1, <2>1, <2>2, <2>3 DEF Dial, TypeOK
<1>2. ASSUME NEW a \in App, UserConnects(a) PROVE TypeOK'
  <2>1. <<"CONNECTED">> \in Message
    BY DEF Message
  <2>2. wire' \in [Conn -> Seq(Message)]
    BY <1>2, <2>1, NotifyOrDropTypes DEF UserConnects
  <2>3. users' \in [App -> 0 .. MaxUsers]
    BY <1>2, RegistryAssumption DEF UserConnects, TypeOK
  <2> QED BY <1>2, <2>2, <2>3 DEF UserConnects, TypeOK
<1>3. ASSUME NEW a \in App, UserLeaves(a) PROVE TypeOK'
  <2>1. <<"DISCONNECTED">> \in Message
    BY DEF Message
  <2>2. wire' \in [Conn -> Seq(Message)]
    BY <1>3, <2>1, NotifyOrDropTypes DEF UserLeaves
  <2>3. users' \in [App -> 0 .. MaxUsers]
    BY <1>3, RegistryAssumption DEF UserLeaves, TypeOK
  <2> QED BY <1>3, <2>2, <2>3 DEF UserLeaves, TypeOK
<1>4. ASSUME NEW a \in App, NEW acc \in Account, Report(a, acc) PROVE TypeOK'
  <2>1. \A type \in {"LOGIN", "LOGOUT"} : <<type, acc>> \in Message
    BY DEF Message
  <2>2. wire' \in [Conn -> Seq(Message)]
    BY <1>4, <2>1, NotifyTypes DEF Report
  <2> QED BY <1>4, <2>2 DEF Report, TypeOK
<1>5. ASSUME NEW c \in Conn, AppClosed(c) PROVE TypeOK'
  BY <1>5 DEF AppClosed, AppGone, TypeOK
<1>6. ASSUME NEW c \in Conn, LobbyClosed(c) PROVE TypeOK'
  <2>1. RecordTypes'
    <3>1. ASSUME NEW a \in App, DeleteApp(a, count[a]) PROVE RecordTypes'
      <4>1. count[a] \in Int
        BY DEF TypeOK
      <4> QED BY <3>1, <4>1, DeleteAppTypes
    <3>2. CASE UNCHANGED <<records, located, members>>
      BY <3>2 DEF TypeOK, RecordTypes
    <3> QED BY <1>6, <3>1, <3>2 DEF LobbyClosed
  <2> QED BY <1>6, <2>1 DEF LobbyClosed, RemoveServer, TypeOK, RecordTypes
<1>7. ASSUME NEW c \in Conn, HandleReady(c) PROVE TypeOK'
  <2>1. wire' \in [Conn -> Seq(Message)]
    BY <1>7, TakesTypes DEF HandleReady
  <2>2. CreateApp(owner[c], c)
    BY <1>7 DEF HandleReady
  <2>3. owner[c] \in App
    BY <1>7 DEF HandleReady, Takes, Connected, Owned
  <2>4. /\ apps' \in [App -> Conn \cup {NoConn}]
        /\ count' \in [App -> Int]
        /\ placed' \in SUBSET App
        /\ conn2app' \in [Conn -> App \cup {NoApp}]
        /\ servers' \in [App -> Conn \cup {NoConn}]
    <3>1. CASE UNCHANGED <<records, conn2app, servers>>
      BY <3>1 DEF TypeOK
    <3>2. CASE /\ apps' = [apps EXCEPT ![owner[c]] = c]
               /\ count' = [count EXCEPT ![owner[c]] = 0]
               /\ placed' = placed \cup {owner[c]}
               /\ conn2app' = [conn2app EXCEPT ![c] = owner[c]]
               /\ servers' = [servers EXCEPT ![owner[c]] = IF @ = NoConn THEN c ELSE @]
      BY <2>3, <3>2 DEF TypeOK
    <3> QED BY <2>2, <3>1, <3>2 DEF CreateApp
  <2> QED BY <1>7, <2>1, <2>4 DEF HandleReady, TypeOK
<1>8. ASSUME NEW c \in Conn, HandleConnected(c) PROVE TypeOK'
  <2>1. wire' \in [Conn -> Seq(Message)]
    BY <1>8, TakesTypes DEF HandleConnected
  <2>2. count' \in [App -> Int]
    BY <1>8 DEF HandleConnected, TypeOK
  <2> QED BY <1>8, <2>1, <2>2 DEF HandleConnected, TypeOK
<1>9. ASSUME NEW c \in Conn, HandleDisconnected(c) PROVE TypeOK'
  <2>1. wire' \in [Conn -> Seq(Message)]
    BY <1>9, TakesTypes DEF HandleDisconnected
  <2>2. RecordTypes'
    <3>1. ASSUME NEW a \in AppOf(c), DeleteApp(a, count[a] - 1) PROVE RecordTypes'
      <4>1. a \in App
        BY DEF AppOf, Recorded
      <4>2. count[a] - 1 \in Int
        BY <4>1 DEF TypeOK
      <4> QED BY <3>1, <4>1, <4>2, DeleteAppTypes
    <3>2. ASSUME NEW a \in AppOf(c), count' = [count EXCEPT ![a] = @ - 1],
                 UNCHANGED <<apps, placed, located, members>>
          PROVE  RecordTypes'
      BY <3>2 DEF TypeOK, RecordTypes, AppOf, Recorded
    <3>3. CASE UNCHANGED <<records, located, members>>
      BY <3>3 DEF TypeOK, RecordTypes
    <3> QED BY <1>9, <3>1, <3>2, <3>3 DEF HandleDisconnected
  <2> QED BY <1>9, <2>1, <2>2 DEF HandleDisconnected, TypeOK, RecordTypes
<1>10. ASSUME NEW c \in Conn, NEW acc \in Account, HandleLogin(c, acc) PROVE TypeOK'
  <2>1. wire' \in [Conn -> Seq(Message)]
    BY <1>10, TakesTypes DEF HandleLogin
  <2>2. /\ located' \in SUBSET App
        /\ members' \in [App -> SUBSET Account]
        /\ at' \in [Account -> App \cup {NoApp}]
    <3>1. Without(acc) \in [App -> SUBSET Account]
      BY DEF Without, TypeOK
    <3>2. ASSUME NEW a \in App,
                 located' = located \cup {a},
                 members' = [Without(acc) EXCEPT ![a] = @ \cup {acc}],
                 at' = [at EXCEPT ![acc] = a]
          PROVE  /\ located' \in SUBSET App
                 /\ members' \in [App -> SUBSET Account]
                 /\ at' \in [Account -> App \cup {NoApp}]
      BY <3>1, <3>2 DEF TypeOK
    <3>3. CASE UNCHANGED locations
      BY <3>3 DEF TypeOK
    <3> QED BY <1>10, <3>2, <3>3 DEF HandleLogin, AppOf, Recorded
  <2> QED BY <1>10, <2>1, <2>2 DEF HandleLogin, TypeOK
<1>11. ASSUME NEW c \in Conn, NEW acc \in Account, HandleLogout(c, acc) PROVE TypeOK'
  <2>1. wire' \in [Conn -> Seq(Message)]
    BY <1>11, TakesTypes DEF HandleLogout
  <2>2. /\ members' \in [App -> SUBSET Account]
        /\ at' \in [Account -> App \cup {NoApp}]
    <3>1. Without(acc) \in [App -> SUBSET Account]
      BY DEF Without, TypeOK
    <3>2. CASE members' = Without(acc) /\ at' = [at EXCEPT ![acc] = NoApp]
      BY <3>1, <3>2 DEF TypeOK
    <3>3. CASE UNCHANGED <<members, at>>
      BY <3>3 DEF TypeOK
    <3> QED BY <1>11, <3>2, <3>3 DEF HandleLogout
  <2> QED BY <1>11, <2>1, <2>2 DEF HandleLogout, TypeOK
<1>12. ASSUME UNCHANGED vars PROVE TypeOK'
  BY <1>12 DEF vars, TypeOK
<1>13. TypeOK'
  BY <1>1, <1>2, <1>3, <1>4, <1>5, <1>6, <1>7, <1>8, <1>9, <1>10, <1>11, <1>12
  DEF Next
<1>14. Owned'
  <2>1. ASSUME NEW a \in App, NEW c \in Conn, Dial(a, c) PROVE Owned'
    BY <2>1 DEF Dial, Owned, AppGone, TypeOK
  <2>2. ASSUME NEW c \in Conn, AppClosed(c) PROVE Owned'
    BY <2>2 DEF AppClosed, AppGone, Owned, TypeOK
  <2>3. ASSUME NEW c \in Conn, LobbyClosed(c) PROVE Owned'
    BY <2>3 DEF LobbyClosed, Connected, Owned, TypeOK
  <2>4. CASE UNCHANGED <<owner, link>>
    BY <2>4 DEF Owned
  <2> QED BY <2>1, <2>2, <2>3, <2>4
  DEF Next, vars, UserConnects, UserLeaves, Report, HandleReady, HandleConnected,
      HandleDisconnected, HandleLogin, HandleLogout
<1> QED BY <1>13, <1>14

\* Each variable keeps its type: the model of the lobby's records is type
\* correct.
THEOREM TypeCorrect == Spec => []TypeOK
<1>1. Init => TypeOK /\ Owned
  BY InitTypes
<1>2. (TypeOK /\ Owned) /\ [Next]_vars => (TypeOK /\ Owned)'
  BY StepTypes
<1> QED BY <1>1, <1>2, PTL DEF Spec

-----------------------------------------------------------------------------
(* Accounts.                                                               *)

LEMMA DeleteAppResolves ==
  ASSUME TypeOK, LocationResolves, NEW a \in App, NEW n, DeleteApp(a, n),
         UNCHANGED at
  PROVE  LocationResolves'
<1>1. CASE UNCHANGED <<apps, placed, located, members>>
  BY <1>1 DEF LocationResolves, Recorded
<1>2. CASE /\ members[a] = {}
           /\ apps' = [apps EXCEPT ![a] = NoConn]
           /\ DelApp(a)
  <2>1. \A acc \in Account : at[acc] # a
    BY <1>2 DEF LocationResolves
  <2>2. members' = members
    BY <1>2 DEF DelApp, TypeOK
  <2>3. \A acc \in Account : at'[acc] # NoApp => at'[acc] \in located'
    BY <1>2, <2>1 DEF LocationResolves, DelApp
  <2>4. located' \subseteq Recorded' \cap placed'
    <3>1. Recorded' = Recorded \ {a}
      BY <1>2 DEF Recorded, TypeOK
    <3>2. located' \subseteq placed'
      BY <1>2 DEF DelApp, LocationResolves
    <3> QED BY <1>2, <3>1, <3>2 DEF DelApp, LocationResolves
  <2>5. \A acc \in Account, b \in App : acc \in members'[b] <=> at'[acc] = b
    BY <2>2 DEF LocationResolves
  <2> QED BY <2>3, <2>4, <2>5 DEF LocationResolves
<1> QED BY <1>1, <1>2 DEF DeleteApp

LEMMA ReadyResolves ==
  ASSUME TypeOK, Owned, LocationResolves, NEW c \in Conn, HandleReady(c)
  PROVE  LocationResolves'
<1>1. owner[c] \in App
  BY DEF HandleReady, Takes, Connected, Owned
<1>2. Recorded \subseteq Recorded' /\ placed \subseteq placed'
  <2>1. CASE UNCHANGED <<records, conn2app, servers>>
    BY <2>1 DEF Recorded, records
  <2>2. CASE apps' = [apps EXCEPT ![owner[c]] = c] /\ placed' = placed \cup {owner[c]}
    <3>1. c # NoConn
      BY RegistryAssumption
    <3> QED BY <1>1, <2>2, <3>1 DEF Recorded, TypeOK
  <2> QED BY <2>1, <2>2 DEF HandleReady, CreateApp
<1>3. UNCHANGED locations
  BY DEF HandleReady
<1> QED BY <1>2, <1>3 DEF LocationResolves, locations

LEMMA LoginResolves ==
  ASSUME TypeOK, LocationResolves, NEW c \in Conn, NEW acc \in Account,
         HandleLogin(c, acc)
  PROVE  LocationResolves'
<1>1. UNCHANGED records
  BY DEF HandleLogin
<1>2. Recorded' = Recorded /\ placed' = placed
  BY <1>1 DEF Recorded, records
<1>3. CASE UNCHANGED locations
  BY <1>2, <1>3 DEF LocationResolves, locations
<1>4. ASSUME NEW a \in AppOf(c) \cap placed,
             located' = located \cup {a},
             members' = [Without(acc) EXCEPT ![a] = @ \cup {acc}],
             at' = [at EXCEPT ![acc] = a]
      PROVE  LocationResolves'
  <2>1. a \in Recorded \cap placed /\ a \in App
    BY DEF AppOf, Recorded
  <2>2. \A b \in App : members'[b] = IF b = a THEN (members[b] \ {acc}) \cup {acc}
                                     ELSE members[b] \ {acc}
    BY <1>4, <2>1 DEF Without
  <2>3. \A k \in Account : at'[k] = IF k = acc THEN a ELSE at[k]
    BY <1>4 DEF TypeOK
  <2>4. \A k \in Account, b \in App : k \in members'[b] <=> at'[k] = b
    <3> SUFFICES ASSUME NEW k \in Account, NEW b \in App
                 PROVE  k \in members'[b] <=> at'[k] = b
      OBVIOUS
    <3>1. k \in members[b] <=> at[k] = b
      BY DEF LocationResolves
    <3>2. CASE k = acc
      BY <2>2, <2>3, <3>2
    <3>3. CASE k # acc
      BY <2>2, <2>3, <3>1, <3>3
    <3> QED BY <3>2, <3>3
  <2>5. \A k \in Account : at'[k] # NoApp => at'[k] \in located'
    BY <1>4, <2>3 DEF LocationResolves
  <2>6. located' \subseteq Recorded' \cap placed'
    BY <1>2, <1>4, <2>1 DEF LocationResolves
  <2> QED BY <2>4, <2>5, <2>6 DEF LocationResolves
<1> QED BY <1>3, <1>4 DEF HandleLogin

LEMMA LogoutResolves ==
  ASSUME TypeOK, LocationResolves, NEW c \in Conn, NEW acc \in Account,
         HandleLogout(c, acc)
  PROVE  LocationResolves'
<1>1. UNCHANGED records /\ located' = located
  BY DEF HandleLogout
<1>2. Recorded' = Recorded /\ placed' = placed
  BY <1>1 DEF Recorded, records
<1>3. CASE UNCHANGED <<members, at>>
  BY <1>1, <1>2, <1>3 DEF LocationResolves
<1>4. CASE members' = Without(acc) /\ at' = [at EXCEPT ![acc] = NoApp]
  <2>1. \A b \in App : members'[b] = members[b] \ {acc}
    BY <1>4 DEF Without
  <2>2. \A k \in Account : at'[k] = IF k = acc THEN NoApp ELSE at[k]
    BY <1>4 DEF TypeOK
  <2>3. \A k \in Account, b \in App : k \in members'[b] <=> at'[k] = b
    BY <2>1, <2>2, RegistryAssumption DEF LocationResolves
  <2>4. \A k \in Account : at'[k] # NoApp => at'[k] \in located'
    BY <1>1, <2>2 DEF LocationResolves
  <2> QED BY <1>1, <1>2, <2>3, <2>4 DEF LocationResolves
<1> QED BY <1>3, <1>4 DEF HandleLogout

LEMMA StepResolves ==
  TypeOK /\ Owned /\ LocationResolves /\ [Next]_vars => LocationResolves'
<1> SUFFICES ASSUME TypeOK, Owned, LocationResolves, [Next]_vars
             PROVE  LocationResolves'
  OBVIOUS
<1>1. CASE UNCHANGED <<apps, placed, locations>>
  BY <1>1 DEF LocationResolves, Recorded, locations
<1>2. ASSUME NEW c \in Conn, LobbyClosed(c) PROVE LocationResolves'
  <2>1. ASSUME NEW a \in App, DeleteApp(a, count[a]) PROVE LocationResolves'
    BY <1>2, <2>1, DeleteAppResolves DEF LobbyClosed
  <2>2. CASE UNCHANGED <<records, located, members>>
    BY <1>1, <1>2, <2>2 DEF LobbyClosed, records, locations
  <2> QED BY <1>2, <2>1, <2>2 DEF LobbyClosed
<1>3. ASSUME NEW c \in Conn, HandleDisconnected(c) PROVE LocationResolves'
  <2>1. ASSUME NEW a \in AppOf(c), DeleteApp(a, count[a] - 1) PROVE LocationResolves'
    BY <1>3, <2>1, DeleteAppResolves DEF HandleDisconnected, AppOf, Recorded
  <2>2. CASE UNCHANGED <<apps, placed, located, members>>
    BY <1>1, <1>3, <2>2 DEF HandleDisconnected, locations
  <2> QED BY <1>3, <2>1, <2>2 DEF HandleDisconnected, records
<1> QED BY <1>1, <1>2, <1>3, ReadyResolves, LoginResolves, LogoutResolves
  DEF Next, vars, records, Dial, AppClosed, UserConnects, UserLeaves, Report,
      HandleConnected

\* An account that is said to be at an app server is there, and nowhere else:
\* the app server is on record, has a location, and lists the account.
THEOREM AccountsResolve == Spec => []LocationResolves
<1>1. Init => TypeOK /\ Owned /\ LocationResolves
  <2>1. Init => LocationResolves
    BY RegistryAssumption DEF Init, LocationResolves, Recorded
  <2> QED BY <2>1, InitTypes
<1>2. (TypeOK /\ Owned /\ LocationResolves) /\ [Next]_vars
        => (TypeOK /\ Owned /\ LocationResolves)'
  BY StepTypes, StepResolves
<1> QED BY <1>1, <1>2, PTL DEF Spec

-----------------------------------------------------------------------------
(* Links.                                                                  *)

\* A link that is still to be made is on no record.
Unused == \A c \in Conn : link[c] = "new" => \A a \in App : apps[a] # c

\* Without underload RPC's server for an app server is the link on its record.
ServersOnRecord ==
  ~underload => \A a \in App : servers[a] # NoConn => servers[a] = apps[a]

\* The inductive invariant.
LinkInv ==
  /\ Unused
  /\ ServersAgree
  /\ LinksAgree
  /\ RecordsAgree
  /\ OneRegistration
  /\ ServersOnRecord
  /\ ForwardHasTarget

\* A step that leaves the records alone, and the links to the lobby as well.
LEMMA SameLinks ==
  ASSUME LinkInv, Connected' = Connected,
         \A c \in Conn : link'[c] = "new" => link[c] = "new",
         UNCHANGED <<underload, owner, apps, conn2app, servers>>
  PROVE  LinkInv'
<1>1. Recorded' = Recorded
  BY DEF Recorded
<1>2. Unused'
  BY DEF LinkInv, Unused
<1>3. ServersAgree' /\ LinksAgree' /\ RecordsAgree'
  BY <1>1 DEF LinkInv, ServersAgree, LinksAgree, RecordsAgree
<1>4. OneRegistration' /\ ServersOnRecord' /\ ForwardHasTarget'
  BY <1>1 DEF LinkInv, OneRegistration, ServersOnRecord, ForwardHasTarget
<1> QED BY <1>2, <1>3, <1>4 DEF LinkInv

LEMMA DialLinks ==
  ASSUME TypeOK, LinkInv, NEW a \in App, NEW c \in Conn, Dial(a, c)
  PROVE  LinkInv'
<1>1. Connected' = Connected \cup {c} /\ c \notin Connected
  BY DEF Dial, AppGone, Connected
<1>2. UNCHANGED <<underload, apps, conn2app, servers>>
  BY DEF Dial, records
<1>3. \A d \in Connected : owner'[d] = owner[d]
  BY <1>1 DEF Dial, TypeOK, Connected
<1>4. \A b \in App : apps[b] # c
  BY DEF Dial, LinkInv, Unused
<1>5. Recorded' = Recorded
  BY <1>2 DEF Recorded
<1>6. Unused'
  BY <1>2 DEF Dial, AppGone, LinkInv, Unused
<1>7. ServersAgree' /\ LinksAgree'
  BY <1>1, <1>2, <1>3 DEF LinkInv, ServersAgree, LinksAgree
<1>8. RecordsAgree'
  BY <1>1, <1>2, <1>4, <1>5 DEF LinkInv, RecordsAgree, Recorded
<1>9. OneRegistration' /\ ServersOnRecord'
  BY <1>2 DEF LinkInv, OneRegistration, ServersOnRecord
<1>10. ForwardHasTarget'
  BY <1>1, <1>2, <1>4, <1>5 DEF LinkInv, ForwardHasTarget, Recorded
<1> QED BY <1>6, <1>7, <1>8, <1>9, <1>10 DEF LinkInv

\* A link that registers: it is on no record and no list before.
LEMMA ReadyLinks ==
  ASSUME TypeOK, Owned, LinkInv, NEW c \in Conn, HandleReady(c)
  PROVE  LinkInv'
<1> DEFINE a == owner[c]
<1>1. a \in App /\ a # NoApp /\ c \in Connected /\ c # NoConn
  BY RegistryAssumption DEF HandleReady, Takes, Connected, Owned
<1>2. UNCHANGED <<underload, owner, link>> /\ Connected' = Connected
  BY DEF HandleReady, Connected
<1>3. CASE UNCHANGED <<records, conn2app, servers>>
  BY <1>2, <1>3, SameLinks DEF records
<1>4. CASE /\ a \notin Recorded
           /\ apps' = [apps EXCEPT ![a] = c]
           /\ conn2app' = [conn2app EXCEPT ![c] = a]
           /\ servers' = [servers EXCEPT ![a] = IF @ = NoConn THEN c ELSE @]
  <2>1. apps[a] = NoConn
    BY <1>1, <1>4 DEF Recorded
  <2>2. \A b \in App : apps'[b] = IF b = a THEN c ELSE apps[b]
    BY <1>4 DEF TypeOK
  <2>3. \A d \in Conn : conn2app'[d] = IF d = c THEN a ELSE conn2app[d]
    BY <1>4 DEF TypeOK
  <2>4. \A b \in App : servers'[b] = IF b = a /\ servers[a] = NoConn THEN c
                                    ELSE servers[b]
    BY <1>1, <1>4 DEF TypeOK
  <2>5. Recorded' = Recorded \cup {a}
    BY <1>1, <2>2 DEF Recorded
  <2>6. Unused'
    BY <1>1, <1>2, <2>2 DEF LinkInv, Unused, Connected
  <2>7. ServersAgree'
    BY <1>1, <1>2, <2>4 DEF LinkInv, ServersAgree
  <2>8. LinksAgree'
    BY <1>1, <1>2, <2>3 DEF LinkInv, LinksAgree
  <2>9. RecordsAgree'
    <3> SUFFICES ASSUME NEW b \in Recorded', apps'[b] \in Connected
                 PROVE  conn2app'[apps'[b]] = b
      BY <1>2 DEF RecordsAgree
    <3>1. CASE b = a
      BY <1>1, <2>2, <2>3, <3>1
    <3>2. CASE b # a
      <4>1. b \in Recorded /\ b \in App /\ apps'[b] = apps[b]
        BY <2>2, <2>5, <3>2 DEF Recorded
      <4>2. conn2app[apps[b]] = b /\ b # NoApp /\ apps[b] \in Conn
        BY <4>1, RegistryAssumption DEF LinkInv, RecordsAgree, Connected
      <4>3. owner[apps[b]] = b
        BY <4>2 DEF LinkInv, LinksAgree
      <4> QED BY <2>3, <3>2, <4>1, <4>2, <4>3
    <3> QED BY <3>1, <3>2
  <2>10. OneRegistration'
    <3> SUFFICES ASSUME ~underload, NEW d \in Conn, conn2app'[d] # NoApp
                 PROVE  apps'[conn2app'[d]] = d
      BY <1>2 DEF OneRegistration
    <3>1. CASE d = c
      BY <1>1, <2>2, <2>3, <3>1
    <3>2. CASE d # c
      <4>1. conn2app'[d] = conn2app[d] /\ apps[conn2app[d]] = d
        BY <2>3, <3>2 DEF LinkInv, OneRegistration
      <4>2. conn2app[d] \in App
        BY <4>1 DEF TypeOK
      <4>3. conn2app[d] # a
        BY <2>1, <4>1, RegistryAssumption
      <4> QED BY <2>2, <4>1, <4>2, <4>3
    <3> QED BY <3>1, <3>2
  <2>11. ServersOnRecord'
    BY <1>1, <1>2, <2>1, <2>2, <2>4 DEF LinkInv, ServersOnRecord
  <2>12. ForwardHasTarget'
    BY <1>1, <1>2, <2>2, <2>4, <2>5 DEF LinkInv, ForwardHasTarget, Recorded
  <2> QED BY <2>6, <2>7, <2>8, <2>9, <2>10, <2>11, <2>12 DEF LinkInv
<1> QED BY <1>3, <1>4 DEF HandleReady, CreateApp

\* At the underload threshold a record goes while its link lives.
LEMMA DisconnectedLinks ==
  ASSUME TypeOK, LinkInv, NEW c \in Conn, HandleDisconnected(c)
  PROVE  LinkInv'
<1>1. UNCHANGED <<underload, owner, link, conn2app, servers>> /\ Connected' = Connected
  BY DEF HandleDisconnected, Connected
<1>2. CASE UNCHANGED apps
  BY <1>1, <1>2, SameLinks
<1>3. ASSUME NEW a \in App, underload, apps' = [apps EXCEPT ![a] = NoConn]
      PROVE  LinkInv'
  <2>1. \A b \in App : apps'[b] = IF b = a THEN NoConn ELSE apps[b]
    BY <1>3 DEF TypeOK
  <2>2. Unused'
    BY <1>1, <2>1, RegistryAssumption DEF LinkInv, Unused
  <2>3. ServersAgree' /\ LinksAgree'
    BY <1>1 DEF LinkInv, ServersAgree, LinksAgree
  <2>4. RecordsAgree'
    BY <1>1, <2>1 DEF LinkInv, RecordsAgree, Recorded
  <2>5. OneRegistration' /\ ServersOnRecord' /\ ForwardHasTarget'
    BY <1>1, <1>3 DEF OneRegistration, ServersOnRecord, ForwardHasTarget
  <2> QED BY <2>2, <2>3, <2>4, <2>5 DEF LinkInv
<1> QED BY <1>2, <1>3 DEF HandleDisconnected, DeleteApp, AppOf, Recorded, records

\* The end of a link takes the link from each list, and the record with it
\* unless accounts are in the way.
LEMMA ClosedLinks ==
  ASSUME TypeOK, LinkInv, NEW c \in Conn, LobbyClosed(c)
  PROVE  LinkInv'
<1>1. UNCHANGED <<underload, owner>> /\ Connected' = Connected \ {c} /\ c \in Connected
  BY DEF LobbyClosed, Connected, TypeOK
<1>2. \A b \in App : servers'[b] = IF servers[b] = c THEN NoConn ELSE servers[b]
  BY DEF LobbyClosed, RemoveServer
<1>3. \A d \in Conn : conn2app'[d] = IF d = c THEN NoApp ELSE conn2app[d]
  BY DEF LobbyClosed, TypeOK
<1>4. \A b \in App : apps'[b] = apps[b] \/ (b = conn2app[c] /\ apps'[b] = NoConn)
  BY DEF LobbyClosed, DeleteApp, records, TypeOK
<1>5. Unused'
  BY <1>4, RegistryAssumption DEF LobbyClosed, Connected, TypeOK, LinkInv, Unused
<1>6. ServersAgree'
  BY <1>1, <1>2 DEF LinkInv, ServersAgree
<1>7. LinksAgree'
  BY <1>1, <1>3 DEF LinkInv, LinksAgree
<1>8. RecordsAgree'
  BY <1>1, <1>3, <1>4 DEF LinkInv, RecordsAgree, Recorded, Connected
<1>9. ASSUME ~underload, NEW b \in App, apps'[b] # apps[b] PROVE apps[b] = c
  BY <1>4, <1>9, RegistryAssumption DEF LinkInv, OneRegistration
<1>10. OneRegistration'
  BY <1>1, <1>3, <1>9 DEF LinkInv, OneRegistration, TypeOK
<1>11. ServersOnRecord'
  BY <1>1, <1>2, <1>9 DEF LinkInv, ServersOnRecord
<1>12. ForwardHasTarget'
  <2> SUFFICES ASSUME ~underload, NEW b \in Recorded', apps'[b] \in Connected \ {c}
               PROVE  servers'[b] # NoConn
    BY <1>1 DEF ForwardHasTarget
  <2>1. b \in App /\ apps'[b] = apps[b]
    BY <1>4, RegistryAssumption DEF Recorded
  <2>2. b \in Recorded
    BY <2>1 DEF Recorded
  <2>3. servers[b] # NoConn /\ servers[b] = apps[b]
    BY <2>1, <2>2 DEF LinkInv, ForwardHasTarget, ServersOnRecord
  <2> QED BY <1>2, <2>1, <2>3
<1> QED BY <1>5, <1>6, <1>7, <1>8, <1>10, <1>11, <1>12 DEF LinkInv

LEMMA StepLinks == TypeOK /\ Owned /\ LinkInv /\ [Next]_vars => LinkInv'
<1> SUFFICES ASSUME TypeOK, Owned, LinkInv, [Next]_vars PROVE LinkInv'
  OBVIOUS
<1>1. CASE UNCHANGED <<underload, owner, link, apps, conn2app, servers>>
  BY <1>1, SameLinks DEF Connected
<1>2. ASSUME NEW c \in Conn, AppClosed(c) PROVE LinkInv'
  <2>1. Connected' = Connected
    BY <1>2 DEF AppClosed, AppGone, Connected, TypeOK
  <2>2. \A d \in Conn : link'[d] = "new" => link[d] = "new"
    BY <1>2 DEF AppClosed, AppGone, TypeOK
  <2> QED BY <1>2, <2>1, <2>2, SameLinks DEF AppClosed, records
<1> QED BY <1>1, <1>2, DialLinks, ReadyLinks, DisconnectedLinks, ClosedLinks
  DEF Next, vars, links, records, UserConnects, UserLeaves, Report,
      HandleConnected, HandleLogin, HandleLogout

LEMMA Invariance == Spec => [](TypeOK /\ Owned /\ LinkInv)
<1>1. Init => TypeOK /\ Owned /\ LinkInv
  <2>1. Init => LinkInv
    BY RegistryAssumption DEF Init, LinkInv, Unused, ServersAgree, LinksAgree,
       RecordsAgree, OneRegistration, ServersOnRecord, ForwardHasTarget, Recorded
  <2> QED BY <2>1, InitTypes
<1>2. (TypeOK /\ Owned /\ LinkInv) /\ [Next]_vars => (TypeOK /\ Owned /\ LinkInv)'
  BY StepTypes, StepLinks
<1> QED BY <1>1, <1>2, PTL DEF Spec

\* The lobby's three lists of connections agree about every link that lives,
\* and none of the lists that messages are sent by names a dead one.
THEOREM ListsAgree == Spec => []RegistryAgrees
<1>1. LinkInv => RegistryAgrees
  BY DEF LinkInv, RegistryAgrees
<1> QED BY <1>1, Invariance, PTL

\* Without underload no two links speak for one app server.
THEOREM OneSpeaker == Spec => []OneRegistration
<1>1. LinkInv => OneRegistration
  BY DEF LinkInv
<1> QED BY <1>1, Invariance, PTL

\* Without underload an event that is handed to an app server whose link lives
\* finds a server to be relayed to.
THEOREM ForwardFinds == Spec => []ForwardHasTarget
<1>1. LinkInv => ForwardHasTarget
  BY DEF LinkInv
<1> QED BY <1>1, Invariance, PTL

-----------------------------------------------------------------------------
(* User counts.                                                            *)

LEMMA NumberFinite ==
  ASSUME NEW s \in Seq(Message), NEW t
  PROVE  IsFiniteSet({i \in 1 .. Len(s) : s[i] = <<t>>})
<1>1. IsFiniteSet(1 .. Len(s))
  BY FS_Interval, LenProperties
<1> QED BY <1>1, FS_Subset

LEMMA NumberNat == ASSUME NEW s \in Seq(Message), NEW t PROVE Number(t, s) \in Nat
BY NumberFinite, FS_CardinalityType DEF Number

LEMMA NumberAppend ==
  ASSUME NEW s \in Seq(Message), NEW m \in Message, NEW t
  PROVE  Number(t, Append(s, m)) = Number(t, s) + IF m = <<t>> THEN 1 ELSE 0
<1> DEFINE S == {i \in 1 .. Len(s) : s[i] = <<t>>}
           T == {i \in 1 .. Len(Append(s, m)) : Append(s, m)[i] = <<t>>}
<1>1. /\ Len(Append(s, m)) = Len(s) + 1 /\ Len(s) \in Nat
      /\ \A i \in 1 .. Len(s) : Append(s, m)[i] = s[i]
      /\ Append(s, m)[Len(s) + 1] = m
  BY AppendProperties, LenProperties
<1>2. IsFiniteSet(S) /\ Cardinality(S) \in Nat
  BY NumberFinite, FS_CardinalityType
<1>3. Len(s) + 1 \notin S
  BY <1>1
<1>4. T = IF m = <<t>> THEN S \cup {Len(s) + 1} ELSE S
  <2>1. ASSUME NEW i
        PROVE  i \in T <=> i \in S \/ (i = Len(s) + 1 /\ m = <<t>>)
    <3>1. i \in 1 .. Len(Append(s, m)) <=> i \in 1 .. Len(s) \/ i = Len(s) + 1
      BY <1>1
    <3>2. i = Len(s) + 1 => i \notin 1 .. Len(s)
      BY <1>1
    <3>3. i \in T <=> i \in 1 .. Len(Append(s, m)) /\ Append(s, m)[i] = <<t>>
      OBVIOUS
    <3>4. i \in S <=> i \in 1 .. Len(s) /\ s[i] = <<t>>
      OBVIOUS
    <3> HIDE DEF S, T
    <3> QED BY <1>1, <3>1, <3>2, <3>3, <3>4, Zenon
  <2> HIDE DEF S, T
  <2> QED BY <2>1
<1> HIDE DEF S, T
<1>5. Cardinality(S \cup {Len(s) + 1}) = Cardinality(S) + 1
  BY <1>2, <1>3, FS_AddElement
<1>6. Cardinality(T) = Cardinality(S) + IF m = <<t>> THEN 1 ELSE 0
  BY <1>2, <1>4, <1>5
<1> QED BY <1>6 DEF Number, S, T

LEMMA NumberTail ==
  ASSUME NEW s \in Seq(Message), s # << >>, NEW t
  PROVE  Number(t, s) = Number(t, Tail(s)) + IF Head(s) = <<t>> THEN 1 ELSE 0
<1> DEFINE S == {i \in 1 .. Len(s) : s[i] = <<t>>}
           T == {i \in 1 .. Len(Tail(s)) : Tail(s)[i] = <<t>>}
           later == S \ {1}
           shift == [i \in later |-> i - 1]
<1>1. /\ Tail(s) \in Seq(Message) /\ Len(Tail(s)) = Len(s) - 1 /\ Len(s) \in Nat \ {0}
      /\ \A i \in 1 .. Len(Tail(s)) : Tail(s)[i] = s[i + 1]
      /\ Head(s) = s[1]
  BY HeadTailProperties, LenProperties, EmptySeq
<1>2. IsFiniteSet(S) /\ Cardinality(S) \in Nat
  BY NumberFinite, FS_CardinalityType
<1>3. shift \in Bijection(later, T)
  <2>1. ASSUME NEW i \in later
        PROVE  shift[i] \in T
    BY <1>1
  <2>2. ASSUME NEW i \in later, NEW k \in later, shift[i] = shift[k]
        PROVE  i = k
    BY <1>1, <2>2
  <2>3. ASSUME NEW k \in T
        PROVE  \E i \in later : shift[i] = k
    <3>1. k + 1 \in later
      BY <1>1
    <3>2. shift[k + 1] = k
      BY <1>1, <3>1
    <3> QED BY <3>1, <3>2
  <2>4. shift \in [later -> T]
    BY <2>1
  <2> HIDE DEF shift, later, T
  <2> QED BY <2>2, <2>3, <2>4, Fun_IsBij
<1>4. 1 \in S <=> Head(s) = <<t>>
  BY <1>1
<1> HIDE DEF S, T, shift
<1>5. IsFiniteSet(later) /\ Cardinality(T) = Cardinality(later)
  BY <1>2, <1>3, FS_Subset, FS_Bijection DEF ExistsBijection
<1>6. Cardinality(S) = Cardinality(T) + IF Head(s) = <<t>> THEN 1 ELSE 0
  BY <1>2, <1>4, <1>5, FS_RemoveElement
<1> QED BY <1>6 DEF Number, S, T

LEMMA NumberNone ==
  ASSUME NEW s, NEW t, \A i \in 1 .. Len(s) : s[i] # <<t>>
  PROVE  Number(t, s) = 0
<1>1. {i \in 1 .. Len(s) : s[i] = <<t>>} = {}
  OBVIOUS
<1> QED BY <1>1, FS_EmptySet DEF Number

\* What a message adds to the users on their way.
Change(m) == CASE m = <<"CONNECTED">> -> 1
               [] m = <<"DISCONNECTED">> -> -1
               [] OTHER -> 0

LEMMA PendingInt == ASSUME NEW s \in Seq(Message) PROVE Pending(s) \in Int
BY NumberNat DEF Pending

LEMMA Distinct ==
  /\ <<"CONNECTED">> # <<"DISCONNECTED">>
  /\ <<"CONNECTED">> # <<"READY">>
  /\ <<"DISCONNECTED">> # <<"READY">>
  /\ \A type, acc : /\ <<type, acc>> # <<"CONNECTED">>
                    /\ <<type, acc>> # <<"DISCONNECTED">>
                    /\ <<type, acc>> # <<"READY">>
OBVIOUS

LEMMA PendingAppend ==
  ASSUME NEW s \in Seq(Message), NEW m \in Message
  PROVE  Pending(Append(s, m)) = Pending(s) + Change(m)
<1> DEFINE up == IF m = <<"CONNECTED">> THEN 1 ELSE 0
           down == IF m = <<"DISCONNECTED">> THEN 1 ELSE 0
<1>1. /\ Number("CONNECTED", Append(s, m)) = Number("CONNECTED", s) + up
      /\ Number("DISCONNECTED", Append(s, m)) = Number("DISCONNECTED", s) + down
  BY NumberAppend
<1>2. Number("CONNECTED", s) \in Nat /\ Number("DISCONNECTED", s) \in Nat
  BY NumberNat
<1>3. Change(m) = up - down
  BY Distinct DEF Change
<1> HIDE DEF up, down
<1>4. up \in {0, 1} /\ down \in {0, 1}
  BY DEF up, down
<1> QED BY <1>1, <1>2, <1>3, <1>4 DEF Pending

LEMMA PendingTail ==
  ASSUME NEW s \in Seq(Message), s # << >>
  PROVE  Pending(s) = Pending(Tail(s)) + Change(Head(s))
<1> DEFINE up == IF Head(s) = <<"CONNECTED">> THEN 1 ELSE 0
           down == IF Head(s) = <<"DISCONNECTED">> THEN 1 ELSE 0
<1>1. /\ Number("CONNECTED", s) = Number("CONNECTED", Tail(s)) + up
      /\ Number("DISCONNECTED", s) = Number("DISCONNECTED", Tail(s)) + down
  BY NumberTail
<1>2. Number("CONNECTED", Tail(s)) \in Nat /\ Number("DISCONNECTED", Tail(s)) \in Nat
  BY NumberNat, HeadTailProperties
<1>3. Change(Head(s)) = up - down
  BY Distinct DEF Change
<1> HIDE DEF up, down
<1>4. up \in {0, 1} /\ down \in {0, 1}
  BY DEF up, down
<1> QED BY <1>1, <1>2, <1>3, <1>4 DEF Pending

\* A link carries its registrations before anything else.
ReadyFirst(msgs) ==
  \A i, j \in 1 .. Len(msgs) :
    i < j /\ msgs[j] = <<"READY">> => msgs[i] = <<"READY">>

Registers(msgs) == \E i \in 1 .. Len(msgs) : msgs[i] = <<"READY">>

\* An app server uses no link that another has made.
CurrentOwned ==
  \A a \in App : current[a] # NoConn =>
    owner[current[a]] = a /\ link[current[a]] # "new"

\* The users who come over link c to the lobby are users of a: all of them
\* while c is still to be registered, those not yet counted afterwards.
Counted(a, c) ==
  /\ Registers(wire[c]) => Pending(wire[c]) <= users[a]
  /\ conn2app[c] = a /\ apps[a] = c => count[a] + Pending(wire[c]) <= users[a]

\* The inductive invariant.
UsersInv ==
  /\ CurrentOwned
  /\ \A c \in Conn : ReadyFirst(wire[c])
  /\ ~underload => \A a \in App, c \in Conn :
       c = current[a] /\ link[c] = "open" => Counted(a, c)

LEMMA WireAppend ==
  ASSUME NEW s \in Seq(Message), NEW m \in Message, m # <<"READY">>
  PROVE  /\ ReadyFirst(s) => ReadyFirst(Append(s, m))
         /\ Registers(Append(s, m)) => Registers(s)
<1>1. /\ Len(Append(s, m)) = Len(s) + 1 /\ Len(s) \in Nat
      /\ \A i \in 1 .. Len(s) : Append(s, m)[i] = s[i]
      /\ Append(s, m)[Len(s) + 1] = m
  BY AppendProperties, LenProperties
<1>2. ASSUME NEW i \in 1 .. Len(Append(s, m)), Append(s, m)[i] = <<"READY">>
      PROVE  i \in 1 .. Len(s) /\ s[i] = <<"READY">>
  <2>1. i \in 1 .. Len(s) \/ i = Len(s) + 1
    BY <1>1
  <2> QED BY <1>1, <1>2, <2>1
<1>3. ASSUME NEW j \in 1 .. Len(s), NEW i \in 1 .. Len(Append(s, m)), i < j
      PROVE  i \in 1 .. Len(s)
  BY <1>1, <1>3
<1>4. ASSUME ReadyFirst(s) PROVE ReadyFirst(Append(s, m))
  BY <1>1, <1>2, <1>3, <1>4 DEF ReadyFirst
<1>5. ASSUME Registers(Append(s, m)) PROVE Registers(s)
  BY <1>2, <1>5 DEF Registers
<1> QED BY <1>4, <1>5

LEMMA WireTail ==
  ASSUME NEW s \in Seq(Message), s # << >>, ReadyFirst(s)
  PROVE  /\ ReadyFirst(Tail(s))
         /\ Registers(Tail(s)) => Registers(s) /\ Head(s) = <<"READY">>
         /\ Head(s) = <<"READY">> => Registers(s)
<1>1. /\ Len(Tail(s)) = Len(s) - 1 /\ Len(s) \in Nat \ {0}
      /\ \A i \in 1 .. Len(Tail(s)) : Tail(s)[i] = s[i + 1]
      /\ Head(s) = s[1]
  BY HeadTailProperties, LenProperties, EmptySeq
<1>2. \A i \in 1 .. Len(Tail(s)) : i + 1 \in 1 .. Len(s) /\ 1 < i + 1
  BY <1>1
<1>3. 1 \in 1 .. Len(s)
  BY <1>1
<1>4. ReadyFirst(Tail(s))
  <2> SUFFICES ASSUME NEW i \in 1 .. Len(Tail(s)), NEW j \in 1 .. Len(Tail(s)),
                      i < j, Tail(s)[j] = <<"READY">>
               PROVE  Tail(s)[i] = <<"READY">>
    BY DEF ReadyFirst
  <2>1. i + 1 < j + 1
    BY <1>1
  <2> QED BY <1>1, <1>2, <2>1 DEF ReadyFirst
<1>5. ASSUME Registers(Tail(s)) PROVE Registers(s) /\ Head(s) = <<"READY">>
  <2>1. PICK i \in 1 .. Len(Tail(s)) : s[i + 1] = <<"READY">>
    BY <1>1, <1>5 DEF Registers
  <2> QED BY <1>1, <1>2, <1>3, <2>1 DEF Registers, ReadyFirst
<1> QED BY <1>1, <1>3, <1>4, <1>5 DEF Registers

\* A step of the lobby that takes message m of link c, and that counts what m
\* says of the app server on whose record c is.
LEMMA TakeUsers ==
  ASSUME TypeOK, UsersInv, NEW c \in Conn, NEW m, Takes(c, m),
         UNCHANGED <<underload, owner, link, current, users>>,
         \A a \in App, d \in Conn :
           ~underload /\ conn2app'[d] = a /\ apps'[a] = d =>
             \/ /\ conn2app[d] = a /\ apps[a] = d
                /\ count'[a] = count[a] + IF d = c THEN Change(m) ELSE 0
             \/ d = c /\ m = <<"READY">> /\ count'[a] = 0
  PROVE  UsersInv'
<1>1. /\ wire \in [Conn -> Seq(Message)] /\ wire[c] # << >> /\ m = Head(wire[c])
      /\ wire'[c] = Tail(wire[c])
      /\ \A d \in Conn \ {c} : wire'[d] = wire[d]
  BY DEF Takes, TypeOK
<1>2. /\ ReadyFirst(wire'[c])
      /\ Registers(wire'[c]) => Registers(wire[c]) /\ m = <<"READY">>
      /\ m = <<"READY">> => Registers(wire[c])
      /\ Pending(wire[c]) = Pending(wire'[c]) + Change(m)
      /\ Pending(wire'[c]) \in Int
  <2>1. wire[c] \in Seq(Message) /\ ReadyFirst(wire[c])
    BY <1>1 DEF UsersInv
  <2>2. Pending(Tail(wire[c])) \in Int
    BY <1>1, <2>1, PendingInt, HeadTailProperties
  <2>3. Pending(wire[c]) = Pending(Tail(wire[c])) + Change(Head(wire[c]))
    BY <1>1, <2>1, PendingTail
  <2> QED BY <1>1, <2>1, <2>2, <2>3, WireTail
<1>3. m = <<"READY">> => Change(m) = 0
  BY Distinct DEF Change
<1>4. CurrentOwned'
  BY DEF UsersInv, CurrentOwned
<1>5. \A d \in Conn : ReadyFirst(wire'[d])
  BY <1>1, <1>2 DEF UsersInv
<1>6. ASSUME ~underload, NEW a \in App, NEW d \in Conn, d = current[a], link[d] = "open"
      PROVE  Counted(a, d)'
  <2>1. /\ Counted(a, d)
        /\ count[a] \in Int /\ users[a] \in Int
        /\ Change(m) \in Int
        /\ Pending(wire[d]) \in Int
    BY <1>6, PendingInt DEF UsersInv, TypeOK, Change
  <2>2. CASE d # c
    BY <1>1, <1>6, <2>1, <2>2 DEF Counted
  <2>3. CASE d = c
    <3>1. Registers(wire'[c]) => Pending(wire'[c]) <= users[a]
      BY <1>2, <1>3, <2>1, <2>3 DEF Counted
    <3>2. ASSUME conn2app'[c] = a, apps'[a] = c
          PROVE  count'[a] + Pending(wire'[c]) <= users[a]
      <4>1. CASE /\ conn2app[c] = a /\ apps[a] = c
                 /\ count'[a] = count[a] + Change(m)
        BY <1>2, <2>1, <2>3, <4>1 DEF Counted
      <4>2. CASE m = <<"READY">> /\ count'[a] = 0
        BY <1>2, <1>3, <2>1, <2>3, <4>2 DEF Counted
      <4> QED BY <1>6, <2>3, <3>2, <4>1, <4>2
    <3> QED BY <2>3, <3>1, <3>2 DEF Counted
  <2> QED BY <2>2, <2>3
<1> QED BY <1>4, <1>5, <1>6 DEF UsersInv

\* A step of app server a that tells the lobby what it does to its users.
LEMMA NotifyUsers ==
  ASSUME TypeOK, UsersInv, NEW a \in App, NEW m \in Message, m # <<"READY">>,
         NotifyOrDrop(a, m), users'[a] = users[a] + Change(m),
         \A b \in App \ {a} : users'[b] = users[b],
         UNCHANGED <<underload, owner, link, current, apps, count, conn2app>>
  PROVE  UsersInv'
<1>1. wire \in [Conn -> Seq(Message)]
  BY DEF TypeOK
<1>2. CurrentOwned'
  BY DEF UsersInv, CurrentOwned
<1>3. ASSUME NEW d \in Conn
      PROVE  \/ /\ d = current[a] /\ link[d] = "open"
                /\ wire'[d] = Append(wire[d], m)
             \/ wire'[d] = wire[d] /\ ~ (d = current[a] /\ link[d] = "open")
  BY <1>1, RegistryAssumption DEF NotifyOrDrop, Notify
<1>4. \A d \in Conn : ReadyFirst(wire'[d])
  BY <1>1, <1>3, WireAppend DEF UsersInv
<1>5. ASSUME ~underload, NEW b \in App, NEW d \in Conn, d = current[b], link[d] = "open"
      PROVE  Counted(b, d)'
  <2>1. /\ Counted(b, d)
        /\ count[b] \in Int /\ users[b] \in Int
        /\ Change(m) \in Int
        /\ Pending(wire[d]) \in Int
    BY <1>1, <1>5, PendingInt DEF UsersInv, TypeOK, Change
  <2>2. CASE b = a
    <3>1. wire'[d] = Append(wire[d], m)
      BY <1>3, <1>5, <2>2
    <3>2. /\ Pending(wire'[d]) = Pending(wire[d]) + Change(m)
          /\ Registers(wire'[d]) => Registers(wire[d])
      BY <1>1, <3>1, PendingAppend, WireAppend
    <3>3. users'[b] = users[b] + Change(m)
      BY <2>2
    <3> QED BY <2>1, <3>2, <3>3 DEF Counted
  <2>3. CASE b # a
    <3>1. d # current[a]
      BY <1>5, <2>3, RegistryAssumption DEF UsersInv, CurrentOwned
    <3>2. wire'[d] = wire[d] /\ users'[b] = users[b]
      BY <1>3, <2>3, <3>1
    <3> QED BY <2>1, <3>2 DEF Counted
  <2> QED BY <2>2, <2>3
<1> QED BY <1>2, <1>4, <1>5 DEF UsersInv

LEMMA DialUsers ==
  ASSUME TypeOK, LinkInv, UsersInv, NEW a \in App, NEW c \in Conn, Dial(a, c)
  PROVE  UsersInv'
<1>1. PICK ready \in {<< <<"READY">> >>, << <<"READY">>, <<"READY">> >>} :
        wire' = [wire EXCEPT ![c] = ready]
  BY DEF Dial
<1>2. /\ link[c] = "new" /\ owner' = [owner EXCEPT ![c] = a]
      /\ current' = [current EXCEPT ![a] = c]
      /\ UNCHANGED <<underload, users, apps, count, conn2app>>
  BY DEF Dial, records
<1>3. /\ link'[c] = "open"
      /\ \A d \in Conn : link'[d] # "new" <=> link[d] # "new" \/ d = c
      /\ \A d \in Conn \ {c} : link'[d] = "open" => link[d] = "open"
  BY DEF Dial, AppGone, TypeOK
<1>4. /\ wire'[c] = ready /\ \A d \in Conn \ {c} : wire'[d] = wire[d]
      /\ ready \in Seq(Message) /\ \A i \in 1 .. Len(ready) : ready[i] = <<"READY">>
  <2>1. <<"READY">> \in Message
    BY DEF Message
  <2>2. CASE ready = << <<"READY">> >>
    BY <1>1, <2>1, <2>2 DEF TypeOK
  <2>3. CASE ready = << <<"READY">>, <<"READY">> >>
    BY <1>1, <2>1, <2>3 DEF TypeOK
  <2> QED BY <2>2, <2>3
<1>5. ReadyFirst(ready)
  BY <1>4 DEF ReadyFirst
<1>6. Pending(ready) = 0
  <2>1. Number("CONNECTED", ready) = 0 /\ Number("DISCONNECTED", ready) = 0
    BY <1>4, NumberNone, Distinct
  <2> QED BY <2>1 DEF Pending
<1>7. CurrentOwned'
  <2> SUFFICES ASSUME NEW b \in App, current'[b] # NoConn
               PROVE  owner'[current'[b]] = b /\ link'[current'[b]] # "new"
    BY DEF CurrentOwned
  <2>1. CASE b = a
    BY <1>2, <1>3, <2>1 DEF TypeOK
  <2>2. CASE b # a
    <3>1. /\ current'[b] = current[b] /\ current[b] \in Conn
          /\ owner[current[b]] = b /\ link[current[b]] # "new"
      BY <1>2, <2>2 DEF TypeOK, UsersInv, CurrentOwned
    <3> QED BY <1>2, <1>3, <3>1 DEF TypeOK
  <2> QED BY <2>1, <2>2
<1>8. \A d \in Conn : ReadyFirst(wire'[d])
  BY <1>4, <1>5 DEF UsersInv
<1>9. ASSUME ~underload, NEW b \in App, NEW d \in Conn, d = current'[b], link'[d] = "open"
      PROVE  Counted(b, d)'
  <2>1. CASE d = c
    <3>1. conn2app[c] # b
      BY <1>2, RegistryAssumption DEF LinkInv, LinksAgree, Connected
    <3>2. users[b] >= 0
      BY RegistryAssumption DEF TypeOK
    <3> QED BY <1>2, <1>4, <1>6, <2>1, <3>1, <3>2 DEF Counted
  <2>2. CASE d # c
    <3>1. d = current[b] /\ link[d] = "open" /\ wire'[d] = wire[d]
      BY <1>2, <1>3, <1>4, <1>9, <2>2 DEF TypeOK
    <3> QED BY <1>2, <1>9, <3>1 DEF UsersInv, Counted
  <2> QED BY <2>1, <2>2
<1> QED BY <1>2, <1>7, <1>8, <1>9 DEF UsersInv

LEMMA LobbyClosedUsers ==
  ASSUME TypeOK, LinkInv, UsersInv, NEW c \in Conn, LobbyClosed(c)
  PROVE  UsersInv'
<1>1. /\ c \in Connected /\ link'[c] # "open" /\ link'[c] # "new" /\ wire'[c] = << >>
      /\ \A d \in Conn \ {c} : link'[d] = link[d] /\ wire'[d] = wire[d] /\ conn2app'[d] = conn2app[d]
      /\ UNCHANGED <<underload, owner, current, users>>
  BY DEF LobbyClosed, TypeOK
<1>2. ASSUME NEW a \in App
      PROVE  \/ apps'[a] = apps[a] /\ count'[a] = count[a]
             \/ conn2app[c] = a /\ apps'[a] \in {apps[a], NoConn}
  BY DEF LobbyClosed, DeleteApp, records, TypeOK
<1>3. CurrentOwned'
  BY <1>1 DEF UsersInv, CurrentOwned, TypeOK
<1>4. \A d \in Conn : ReadyFirst(wire'[d])
  BY <1>1 DEF UsersInv, ReadyFirst
<1>5. ASSUME ~underload, NEW a \in App, NEW d \in Conn, d = current[a], link'[d] = "open"
      PROVE  Counted(a, d)'
  <2>1. d # c /\ link[d] = "open" /\ wire'[d] = wire[d] /\ conn2app'[d] = conn2app[d]
    BY <1>1, <1>5
  <2>2. Counted(a, d)
    BY <1>5, <2>1 DEF UsersInv
  <2>3. conn2app[c] = a => apps[a] = c
    BY <1>5, RegistryAssumption DEF LinkInv, OneRegistration
  <2>4. apps'[a] = d => apps'[a] = apps[a] /\ count'[a] = count[a]
    BY <1>2, <2>1, <2>3, RegistryAssumption
  <2> QED BY <1>1, <2>1, <2>2, <2>4 DEF Counted
<1> QED BY <1>1, <1>3, <1>4, <1>5 DEF UsersInv

LEMMA StepUsers ==
  ASSUME TypeOK, Owned, LinkInv, UsersInv, [Next]_vars
  PROVE  UsersInv'
<1>1. ASSUME NEW a \in App, NEW c \in Conn, Dial(a, c) PROVE UsersInv'
  BY <1>1, DialUsers
<1>2. ASSUME NEW a \in App, UserConnects(a) PROVE UsersInv'
  <2>1. /\ <<"CONNECTED">> \in Message /\ Change(<<"CONNECTED">>) = 1
        /\ <<"CONNECTED">> # <<"READY">>
    BY Distinct DEF Message, Change
  <2>2. users'[a] = users[a] + 1 /\ \A b \in App \ {a} : users'[b] = users[b]
    BY <1>2 DEF UserConnects, TypeOK
  <2>3. /\ NotifyOrDrop(a, <<"CONNECTED">>)
        /\ UNCHANGED <<underload, owner, link, current, apps, count, conn2app>>
    BY <1>2 DEF UserConnects, records
  <2> QED BY <2>1, <2>2, <2>3, NotifyUsers
<1>3. ASSUME NEW a \in App, UserLeaves(a) PROVE UsersInv'
  <2>1. /\ <<"DISCONNECTED">> \in Message /\ Change(<<"DISCONNECTED">>) = -1
        /\ <<"DISCONNECTED">> # <<"READY">>
    BY Distinct DEF Message, Change
  <2>2. users'[a] = users[a] + (-1) /\ \A b \in App \ {a} : users'[b] = users[b]
    BY <1>3 DEF UserLeaves, TypeOK
  <2>3. /\ NotifyOrDrop(a, <<"DISCONNECTED">>)
        /\ UNCHANGED <<underload, owner, link, current, apps, count, conn2app>>
    BY <1>3 DEF UserLeaves, records
  <2> QED BY <2>1, <2>2, <2>3, NotifyUsers
<1>4. ASSUME NEW a \in App, NEW acc \in Account, Report(a, acc) PROVE UsersInv'
  <2>1. PICK type \in {"LOGIN", "LOGOUT"} : Notify(a, <<type, acc>>)
    BY <1>4 DEF Report
  <2>2. /\ <<type, acc>> \in Message /\ Change(<<type, acc>>) = 0
        /\ <<type, acc>> # <<"READY">>
    BY Distinct DEF Message, Change
  <2>3. /\ NotifyOrDrop(a, <<type, acc>>)
        /\ UNCHANGED <<underload, owner, link, current, users, apps, count, conn2app>>
    BY <1>4, <2>1 DEF Report, records, NotifyOrDrop
  <2>4. users'[a] = users[a] + 0
    BY <2>3 DEF TypeOK
  <2> QED BY <2>2, <2>3, <2>4, NotifyUsers
<1>5. ASSUME NEW c \in Conn, HandleReady(c) PROVE UsersInv'
  <2>1. /\ Takes(c, <<"READY">>)
        /\ UNCHANGED <<underload, owner, link, current, users>>
    BY <1>5 DEF HandleReady
  <2>2. owner[c] \in App
    BY <2>1 DEF Takes, Connected, Owned
  <2>3. Change(<<"READY">>) = 0
    BY Distinct DEF Change
  <2>4. ASSUME NEW a \in App, NEW d \in Conn, conn2app'[d] = a, apps'[a] = d
        PROVE  \/ /\ conn2app[d] = a /\ apps[a] = d
                  /\ count'[a] = count[a] + IF d = c THEN Change(<<"READY">>) ELSE 0
               \/ d = c /\ count'[a] = 0
    <3>1. count[a] \in Int
      BY DEF TypeOK
    <3>2. CASE UNCHANGED <<records, conn2app>>
      BY <2>3, <2>4, <3>1, <3>2 DEF records
    <3>3. CASE /\ apps' = [apps EXCEPT ![owner[c]] = c]
               /\ count' = [count EXCEPT ![owner[c]] = 0]
               /\ conn2app' = [conn2app EXCEPT ![c] = owner[c]]
      <4>1. CASE a = owner[c]
        BY <2>2, <2>4, <3>3, <4>1 DEF TypeOK
      <4>2. CASE a # owner[c]
        BY <2>3, <2>4, <3>1, <3>3, <4>2 DEF TypeOK
      <4> QED BY <4>1, <4>2
    <3> QED BY <1>5, <3>2, <3>3 DEF HandleReady, CreateApp
  <2> QED BY <2>1, <2>4, TakeUsers
<1>6. ASSUME NEW c \in Conn, HandleConnected(c) PROVE UsersInv'
  <2>1. /\ Takes(c, <<"CONNECTED">>)
        /\ UNCHANGED <<underload, owner, link, current, users, apps, conn2app>>
        /\ \A a \in App : count'[a] = IF a \in AppOf(c) THEN count[a] + 1 ELSE count[a]
    BY <1>6 DEF HandleConnected
  <2>2. Change(<<"CONNECTED">>) = 1
    BY Distinct DEF Change
  <2>3. ASSUME ~underload, NEW a \in App, NEW d \in Conn, conn2app'[d] = a, apps'[a] = d
        PROVE  /\ conn2app[d] = a /\ apps[a] = d
               /\ count'[a] = count[a] + IF d = c THEN Change(<<"CONNECTED">>) ELSE 0
    <3>1. conn2app[d] = a /\ apps[a] = d /\ count[a] \in Int
      BY <2>1, <2>3 DEF TypeOK
    <3>2. a \in AppOf(c) <=> d = c
      BY <2>3, <3>1, RegistryAssumption DEF AppOf, Recorded, LinkInv, OneRegistration
    <3> QED BY <2>1, <2>2, <3>1, <3>2
  <2> QED BY <2>1, <2>3, TakeUsers
<1>7. ASSUME NEW c \in Conn, HandleDisconnected(c) PROVE UsersInv'
  <2>1. /\ Takes(c, <<"DISCONNECTED">>)
        /\ UNCHANGED <<underload, owner, link, current, users, conn2app>>
    BY <1>7 DEF HandleDisconnected
  <2>2. Change(<<"DISCONNECTED">>) = -1
    BY Distinct DEF Change
  <2>3. ASSUME ~underload, NEW a \in App, NEW d \in Conn, conn2app'[d] = a, apps'[a] = d
        PROVE  /\ conn2app[d] = a /\ apps[a] = d
               /\ count'[a] = count[a] + IF d = c THEN Change(<<"DISCONNECTED">>) ELSE 0
    <3>1. /\ apps' = apps
          /\ \/ \E b \in AppOf(c) : count' = [count EXCEPT ![b] = @ - 1]
             \/ AppOf(c) = {} /\ count' = count
      BY <1>7, <2>3 DEF HandleDisconnected, records
    <3>2. conn2app[d] = a /\ apps[a] = d /\ count[a] \in Int
      BY <2>1, <2>3, <3>1 DEF TypeOK
    <3>3. a \in AppOf(c) <=> d = c
      BY <2>3, <3>2, RegistryAssumption DEF AppOf, Recorded, LinkInv, OneRegistration
    <3>4. \A b \in AppOf(c) : b = conn2app[c] /\ b \in App
      BY DEF AppOf, Recorded
    <3>5. count'[a] = IF d = c THEN count[a] - 1 ELSE count[a]
      BY <3>1, <3>2, <3>3, <3>4 DEF TypeOK
    <3> QED BY <2>2, <3>2, <3>5
  <2> QED BY <2>1, <2>3, TakeUsers
<1>8. ASSUME NEW c \in Conn, NEW acc \in Account, HandleLogin(c, acc) \/ HandleLogout(c, acc)
      PROVE  UsersInv'
  <2>1. /\ Takes(c, <<"LOGIN", acc>>) \/ Takes(c, <<"LOGOUT", acc>>)
        /\ UNCHANGED <<underload, owner, link, current, users, apps, count, conn2app>>
    BY <1>8 DEF HandleLogin, HandleLogout, records
  <2>2. Change(<<"LOGIN", acc>>) = 0 /\ Change(<<"LOGOUT", acc>>) = 0
    BY Distinct DEF Change
  <2>3. \A a \in App, d \in Conn : count'[a] = count[a] + IF d = c THEN 0 ELSE 0
    BY <2>1 DEF TypeOK
  <2> QED BY <2>1, <2>2, <2>3, TakeUsers
<1>9. ASSUME NEW c \in Conn, AppClosed(c) PROVE UsersInv'
  <2>1. UNCHANGED <<underload, owner, wire, current, users, apps, count, conn2app>>
    BY <1>9 DEF AppClosed, records
  <2>2. \A d \in Conn : /\ link'[d] = "open" => link[d] = "open"
                        /\ link[d] # "new" => link'[d] # "new"
    BY <1>9 DEF AppClosed, AppGone, TypeOK
  <2>3. CurrentOwned'
    BY <2>1, <2>2 DEF UsersInv, CurrentOwned, TypeOK
  <2> QED BY <2>1, <2>2, <2>3 DEF UsersInv, Counted
<1>10. ASSUME NEW c \in Conn, LobbyClosed(c) PROVE UsersInv'
  BY <1>10, LobbyClosedUsers
<1>11. CASE UNCHANGED vars
  BY <1>11 DEF vars, links, records, UsersInv, CurrentOwned, Counted
<1> QED BY <1>1, <1>2, <1>3, <1>4, <1>5, <1>6, <1>7, <1>8, <1>9, <1>10, <1>11 DEF Next

\* Without underload an app server is never thought busier than it is, however
\* many links it has lost and whatever is still on its way.
THEOREM NotBusier == Spec => []CountNotAbove
<1>1. Init => UsersInv
  BY EmptySeq, RegistryAssumption DEF Init, UsersInv, CurrentOwned, ReadyFirst
<1>2. TypeOK /\ Owned /\ LinkInv /\ UsersInv /\ [Next]_vars => UsersInv'
  BY StepUsers
<1>3. UsersInv => CountNotAbove
  BY DEF UsersInv, Counted, CountNotAbove
<1> QED BY <1>1, <1>2, <1>3, Invariance, PTL DEF Spec

-----------------------------------------------------------------------------
(* The connector of an app server.                                         *)

-----------------------------------------------------------------------------
(* Types.                                                                  *)

LEMMA ConnectorInitTypes == ConnectorInit => ConnectorTypeOK
<1> SUFFICES ASSUME ConnectorInit PROVE ConnectorTypeOK
  OBVIOUS
<1>1. 0 \in 0 .. MaxTimers
  BY AppConnectorAssumption
<1>2. /\ timers \in 0 .. MaxTimers
      /\ listeners \in [Socket -> Nat]
      /\ unanswered \in [Socket -> Nat]
  BY <1>1 DEF ConnectorInit
<1>3. /\ state \in [Socket -> {"connecting", "open", "closed"}]
      /\ ended \in SUBSET Socket
      /\ connected \in SUBSET Socket
      /\ deaf \in SUBSET Socket
      /\ l_socket \in Socket \cup {NoSocket}
      /\ watched \in Socket \cup {NoSocket}
  BY DEF ConnectorInit
<1>4. /\ autoshut \in BOOLEAN
      /\ disposed \in BOOLEAN
      /\ started \in BOOLEAN
      /\ alive \in BOOLEAN
  BY DEF ConnectorInit
<1> QED BY <1>2, <1>3, <1>4 DEF ConnectorTypeOK

LEMMA ConnectTypes ==
  ASSUME ConnectorTypeOK, NEW s \in Socket, Connect(s)
  PROVE  /\ state' \in [Socket -> {"connecting", "open", "closed"}]
         /\ ended' \in SUBSET Socket
         /\ connected' \in SUBSET Socket
         /\ listeners' \in [Socket -> Nat]
         /\ unanswered' \in [Socket -> Nat]
         /\ deaf' \in SUBSET Socket
         /\ l_socket' \in Socket
BY DEF ConnectorTypeOK, Connect, InUse

LEMMA LetGoTypes ==
  ASSUME ConnectorTypeOK, NEW live \in SUBSET Socket, LetGo(live)
  PROVE  /\ ended' \in SUBSET Socket
         /\ l_socket' \in Socket \cup {NoSocket}
         /\ watched' \in Socket \cup {NoSocket}
         /\ disposed' \in BOOLEAN
BY DEF ConnectorTypeOK, LetGo, InUse

\* What a step that lets a socket go down leaves behind.
LEMMA GoDownTypes ==
  ASSUME ConnectorTypeOK, NEW s \in Socket, NEW n \in Nat, GoDown(s, n)
  PROVE  /\ state' \in [Socket -> {"connecting", "open", "closed"}]
         /\ ended' \in SUBSET Socket
         /\ connected' \in SUBSET Socket
         /\ listeners' \in [Socket -> Nat]
         /\ unanswered' \in [Socket -> Nat]
         /\ deaf' \in SUBSET Socket
         /\ l_socket' \in Socket \cup {NoSocket}
         /\ watched' \in Socket \cup {NoSocket}
         /\ timers' \in 0 .. MaxTimers
         /\ disposed' \in BOOLEAN
<1>1. /\ state' \in [Socket -> {"connecting", "open", "closed"}]
      /\ connected' \in SUBSET Socket
      /\ listeners' \in [Socket -> Nat]
      /\ unanswered' \in [Socket -> Nat]
      /\ deaf' \in SUBSET Socket
  BY DEF ConnectorTypeOK, GoDown
<1>2. timers' \in 0 .. MaxTimers
  <2>1. timers \in Nat /\ timers' <= MaxTimers
    BY AppConnectorAssumption DEF ConnectorTypeOK, GoDown
  <2>2. timers' = timers + n \/ timers' = timers + n + 1
    BY DEF GoDown
  <2> QED BY <2>1, <2>2, AppConnectorAssumption
<1>3. /\ ended' \in SUBSET Socket
      /\ l_socket' \in Socket \cup {NoSocket}
      /\ watched' \in Socket \cup {NoSocket}
      /\ disposed' \in BOOLEAN
  <2>1. CASE LetGo(LiveSockets \ {s})
    <3>1. LiveSockets \ {s} \in SUBSET Socket
      BY DEF LiveSockets
    <3> QED BY <2>1, <3>1, LetGoTypes
  <2>2. CASE /\ ended' = ended \ {s}
             /\ UNCHANGED <<l_socket, watched, disposed>>
    BY <2>2 DEF ConnectorTypeOK
  <2> QED BY <2>1, <2>2 DEF GoDown
<1> QED BY <1>1, <1>2, <1>3

LEMMA ConnectorStepTypes == ConnectorTypeOK /\ [ConnectorNext]_connector_vars => ConnectorTypeOK'
<1> SUFFICES ASSUME ConnectorTypeOK, [ConnectorNext]_connector_vars PROVE ConnectorTypeOK'
  OBVIOUS
<1>1. CASE TimerFires
  <2>1. timers' \in 0 .. MaxTimers
    BY <1>1, AppConnectorAssumption DEF ConnectorTypeOK, TimerFires
  <2>2. /\ state' \in [Socket -> {"connecting", "open", "closed"}]
        /\ ended' \in SUBSET Socket
        /\ connected' \in SUBSET Socket
        /\ listeners' \in [Socket -> Nat]
        /\ unanswered' \in [Socket -> Nat]
        /\ deaf' \in SUBSET Socket
        /\ l_socket' \in Socket \cup {NoSocket}
    <3>1. CASE \E s \in Socket : Connect(s)
      BY <3>1, ConnectTypes
    <3>2. CASE UNCHANGED <<state, ended, connected, listeners, wires, l_socket>>
      BY <3>2 DEF ConnectorTypeOK, wires
    <3> QED BY <1>1, <3>1, <3>2 DEF TimerFires
  <2>3. UNCHANGED <<autoshut, watched, disposed, started, alive>>
    BY <1>1 DEF TimerFires
  <2> QED BY <2>1, <2>2, <2>3 DEF ConnectorTypeOK
<1>2. CASE Dispose
  <2>1. LiveSockets \in SUBSET Socket
    BY DEF LiveSockets
  <2>2. LetGo(LiveSockets)
    BY <1>2 DEF Dispose
  <2>3. /\ ended' \in SUBSET Socket
        /\ l_socket' \in Socket \cup {NoSocket}
        /\ watched' \in Socket \cup {NoSocket}
        /\ disposed' \in BOOLEAN
    BY <2>1, <2>2, LetGoTypes
  <2> QED BY <1>2, <2>3 DEF Dispose, wires, ConnectorTypeOK
<1>3. ASSUME NEW s \in Socket, Established(s) PROVE ConnectorTypeOK'
  BY <1>3 DEF ConnectorTypeOK, Established, Setup
<1>4. ASSUME NEW s \in Socket, EstablishedLate(s) PROVE ConnectorTypeOK'
  BY <1>4 DEF ConnectorTypeOK, EstablishedLate, wires
<1>5. ASSUME NEW s \in Socket, Closed(s) PROVE ConnectorTypeOK'
  <2>1. GoDown(s, 0) /\ UNCHANGED alive
    BY <1>5 DEF Closed
  <2>2. UNCHANGED <<autoshut, started>>
    BY <2>1 DEF GoDown
  <2> QED BY <2>1, <2>2, GoDownTypes DEF ConnectorTypeOK
<1>6. ASSUME NEW s \in Socket, Error(s) PROVE ConnectorTypeOK'
  <2>1. GoDown(s, 1) /\ alive' \in BOOLEAN
    BY <1>6 DEF Error
  <2>2. UNCHANGED <<autoshut, started>>
    BY <2>1 DEF GoDown
  <2> QED BY <2>1, <2>2, GoDownTypes DEF ConnectorTypeOK
<1>7. ASSUME NEW s \in Socket, Answered(s) PROVE ConnectorTypeOK'
  BY <1>7 DEF ConnectorTypeOK, Answered
<1>8. ASSUME NEW s \in Socket, Merge(s) PROVE ConnectorTypeOK'
  BY <1>8 DEF ConnectorTypeOK, Merge
<1>9. CASE UNCHANGED connector_vars
  BY <1>9 DEF ConnectorTypeOK, connector_vars, wires
<1> QED BY <1>1, <1>2, <1>3, <1>4, <1>5, <1>6, <1>7, <1>8, <1>9 DEF ConnectorNext

\* Each variable keeps its type: the model of an app server's link to the
\* lobby is type correct.
THEOREM ConnectorTypeCorrect == ConnectorSpec => []ConnectorTypeOK
<1>1. ConnectorInit => ConnectorTypeOK
  BY ConnectorInitTypes
<1>2. ConnectorTypeOK /\ [ConnectorNext]_connector_vars => ConnectorTypeOK'
  BY ConnectorStepTypes
<1> QED BY <1>1, <1>2, PTL DEF ConnectorSpec

-----------------------------------------------------------------------------
(* One link, and never none.                                               *)

\* l_socket and l_appConnector are undefined together, and only then does a
\* listener of l_disconnect exist.
LetGoTogether ==
  /\ disposed <=> l_socket = NoSocket
  /\ watched # NoSocket => disposed

\* A socket in use that is open has been set up, so that its end will be
\* noticed.
Noticed == \A s \in InUse : state[s] = "open" => s \in connected

\* The inductive invariant.
ConnectorInv ==
  /\ ConnectorTypeOK
  /\ LetGoTogether
  /\ Noticed
  /\ NeverStranded
  /\ OneLink
  /\ CrashInShutdownOnly

LEMMA ConnectorInitInv == ConnectorInit => ConnectorInv
<1> SUFFICES ASSUME ConnectorInit PROVE ConnectorInv
  OBVIOUS
<1>1. ConnectorTypeOK
  BY ConnectorInitTypes
<1>2. /\ l_socket \in Socket /\ l_socket # NoSocket /\ watched = NoSocket
      /\ ~disposed /\ alive
      /\ \A s \in Socket : state[s] = IF s = l_socket THEN "connecting" ELSE "closed"
  BY AppConnectorAssumption DEF ConnectorInit
<1>3. LetGoTogether
  BY <1>2 DEF LetGoTogether
<1>4. Noticed
  BY <1>2 DEF Noticed, InUse
<1>5. l_socket \in InUse \cap LiveSockets
  BY <1>2 DEF InUse, LiveSockets, Live
<1>6. OneLink
  BY <1>2 DEF OneLink, Live
<1> QED BY <1>1, <1>2, <1>3, <1>4, <1>5, <1>6
    DEF ConnectorInv, NeverStranded, CrashInShutdownOnly

LEMMA TimerInv ==
  ASSUME ConnectorInv, TimerFires
  PROVE  /\ LetGoTogether' /\ Noticed' /\ NeverStranded' /\ OneLink'
         /\ CrashInShutdownOnly'
<1>1. UNCHANGED <<watched, disposed, alive>>
  BY DEF TimerFires
<1>2. CrashInShutdownOnly'
  BY <1>1 DEF ConnectorInv, CrashInShutdownOnly
<1>3. CASE ~disposed
  <2>1. PICK s \in Socket : Connect(s)
    BY <1>3 DEF TimerFires
  <2>2. /\ l_socket' = s /\ s # NoSocket
        /\ state' = [state EXCEPT ![s] = "connecting"]
        /\ state \in [Socket -> {"connecting", "open", "closed"}]
    BY <2>1, AppConnectorAssumption DEF Connect, ConnectorInv, ConnectorTypeOK
  <2>3. state'[s] = "connecting" /\ \A x \in Socket \ {s} : state'[x] = state[x]
    BY <2>2
  <2>4. LetGoTogether'
    BY <1>1, <1>3, <2>2 DEF ConnectorInv, LetGoTogether
  <2>5. Noticed'
    BY <2>2, <2>3 DEF Noticed, InUse
  <2>6. s \in (InUse \cap LiveSockets)'
    BY <2>2, <2>3 DEF InUse, LiveSockets, Live
  <2>7. ASSUME NEW x \in Socket, Live(x)' PROVE x \in ended' \/ x = l_socket'
    <3>1. CASE x # s
      <4>1. Live(x)
        BY <2>3, <2>7, <3>1 DEF Live
      <4>2. x \in ended \/ x = l_socket
        BY <4>1 DEF ConnectorInv, OneLink
      <4> QED BY <2>1, <4>1, <4>2 DEF Connect, InUse, LiveSockets
    <3> QED BY <2>2, <3>1
  <2> QED BY <1>2, <2>4, <2>5, <2>6, <2>7 DEF NeverStranded, OneLink
<1>4. CASE disposed
  <2>1. UNCHANGED <<state, ended, connected, l_socket>>
    BY <1>4 DEF TimerFires
  <2>2. LetGoTogether' /\ Noticed' /\ OneLink'
    BY <1>1, <2>1 DEF ConnectorInv, LetGoTogether, Noticed, InUse, OneLink, Live
  <2>3. NeverStranded'
    BY <1>1, <1>4 DEF NeverStranded
  <2> QED BY <1>2, <2>2, <2>3
<1> QED BY <1>3, <1>4 DEF ConnectorInv, ConnectorTypeOK

\* Letting the socket in use go, while the sockets outside live are closed.
LEMMA LetGoInv ==
  ASSUME ConnectorInv, NEW live \in SUBSET Socket, LetGo(live),
         \A s \in Socket : Live(s)' => s \in live /\ Live(s)
  PROVE  /\ disposed'
         /\ LetGoTogether' /\ Noticed' /\ NeverStranded' /\ OneLink'
         /\ CrashInShutdownOnly'
<1>1. disposed' /\ l_socket' = NoSocket
  BY DEF LetGo, ConnectorInv, LetGoTogether
<1>2. LetGoTogether' /\ NeverStranded' /\ CrashInShutdownOnly'
  BY <1>1 DEF LetGoTogether, NeverStranded, CrashInShutdownOnly
<1>3. Noticed'
  BY <1>1, AppConnectorAssumption DEF Noticed, InUse
<1>4. ASSUME NEW s \in Socket, Live(s)' PROVE s \in ended'
  <2>1. s \in live /\ (s \in ended \/ s = l_socket)
    BY <1>4 DEF ConnectorInv, OneLink
  <2>2. ended' = ended \cap live \/ ended' = (ended \cup InUse) \cap live
    BY DEF LetGo
  <2>3. CASE disposed
    <3>1. s # l_socket
      BY <2>3, AppConnectorAssumption DEF ConnectorInv, LetGoTogether
    <3> QED BY <2>1, <2>2, <3>1
  <2>4. CASE ~disposed
    <3>1. ended' = (ended \cup InUse) \cap live
      BY <2>4 DEF LetGo
    <3> QED BY <2>1, <3>1 DEF InUse
  <2> QED BY <2>3, <2>4
<1> QED BY <1>1, <1>2, <1>3, <1>4 DEF OneLink

\* Socket s goes down.  That there was a listener for it, or an error that
\* sets a timer of its own (n = 1), is what keeps the app going.
LEMMA GoDownInv ==
  ASSUME ConnectorInv, NEW s \in Socket, NEW n \in {0, 1}, GoDown(s, n),
         n = 1 \/ state[s] = "open",
         alive' => alive, alive' \/ disposed'
  PROVE  /\ LetGoTogether' /\ Noticed' /\ NeverStranded' /\ OneLink'
         /\ CrashInShutdownOnly'
<1>1. /\ state'[s] = "closed"
      /\ \A x \in Socket \ {s} : state'[x] = state[x]
      /\ connected' = connected \ {s}
      /\ state \in [Socket -> {"connecting", "open", "closed"}]
  BY DEF GoDown, ConnectorInv, ConnectorTypeOK
<1>2. \A x \in Socket : Live(x)' => x \in LiveSockets \ {s} /\ Live(x)
  BY <1>1 DEF Live, LiveSockets
<1>3. CASE LetGo(LiveSockets \ {s})
  <2>1. LiveSockets \ {s} \in SUBSET Socket
    BY DEF LiveSockets
  <2> QED BY <1>2, <1>3, <2>1, LetGoInv
<1>4. CASE /\ timers' = timers + n \/ timers' = timers + n + 1
           /\ s \in connected => timers' = timers + n + 1
           /\ ended' = ended \ {s}
           /\ UNCHANGED <<l_socket, watched, disposed>>
  <2>1. LetGoTogether'
    BY <1>4 DEF ConnectorInv, LetGoTogether
  <2>2. Noticed'
    BY <1>1, <1>4 DEF ConnectorInv, Noticed, InUse
  <2>3. OneLink'
    BY <1>2, <1>4 DEF ConnectorInv, OneLink, LiveSockets
  <2>4. CrashInShutdownOnly'
    BY DEF CrashInShutdownOnly
  <2>5. ASSUME alive', ~disposed' PROVE timers' > 0 \/ (InUse \cap LiveSockets)' # {}
    <3>1. timers > 0 \/ InUse \cap LiveSockets # {}
      BY <1>4, <2>5 DEF ConnectorInv, NeverStranded
    <3>2. timers \in Nat /\ n \in Nat
      BY AppConnectorAssumption DEF ConnectorInv, ConnectorTypeOK
    <3>3. CASE timers > 0
      BY <1>4, <3>2, <3>3
    <3>4. CASE s = l_socket
      <4>1. n = 1 \/ s \in connected
        BY <3>4 DEF ConnectorInv, Noticed, InUse
      <4> QED BY <1>4, <3>2, <4>1
    <3>5. CASE s # l_socket /\ InUse \cap LiveSockets # {}
      <4>1. PICK x \in Socket : x = l_socket /\ Live(x)
        BY <3>5 DEF InUse, LiveSockets
      <4>2. x = l_socket' /\ Live(x)'
        BY <1>1, <1>4, <3>5, <4>1 DEF Live
      <4>3. x \in (InUse \cap LiveSockets)'
        BY <4>2 DEF InUse, LiveSockets
      <4> QED BY <4>3
    <3> QED BY <3>1, <3>3, <3>4, <3>5
  <2> QED BY <2>1, <2>2, <2>3, <2>4, <2>5 DEF NeverStranded
<1> QED BY <1>3, <1>4 DEF GoDown

LEMMA ErrorInv ==
  ASSUME ConnectorInv, NEW s \in Socket, Error(s)
  PROVE  /\ LetGoTogether' /\ Noticed' /\ NeverStranded' /\ OneLink'
         /\ CrashInShutdownOnly'
<1>1. GoDown(s, 1) /\ alive /\ alive' = ~(Live(s) /\ watched' = s)
  BY DEF Error
<1>2. ASSUME ~alive' PROVE disposed'
  <2>1. watched' # NoSocket
    BY <1>1, <1>2, AppConnectorAssumption
  <2>2. CASE LetGo(LiveSockets \ {s})
    BY <2>2 DEF LetGo
  <2>3. CASE UNCHANGED <<l_socket, watched, disposed>>
    BY <2>1, <2>3 DEF ConnectorInv, LetGoTogether
  <2> QED BY <1>1, <2>2, <2>3 DEF GoDown
<1>3. alive' => alive
  BY <1>1
<1> QED BY <1>1, <1>2, <1>3, GoDownInv

LEMMA EstablishedInv ==
  ASSUME ConnectorInv, NEW s \in Socket, Established(s)
  PROVE  /\ LetGoTogether' /\ Noticed' /\ NeverStranded' /\ OneLink'
         /\ CrashInShutdownOnly'
<1>1. /\ state' = [state EXCEPT ![s] = "open"] /\ state[s] = "connecting"
      /\ connected' = connected \cup {l_socket}
      /\ UNCHANGED <<ended, l_socket, watched, timers, disposed, alive>>
  BY DEF Established, Setup
<1>2. \A x \in Socket : Live(x)' <=> Live(x)
  BY <1>1 DEF ConnectorInv, ConnectorTypeOK, Live
<1>3. LetGoTogether' /\ CrashInShutdownOnly'
  BY <1>1 DEF ConnectorInv, LetGoTogether, CrashInShutdownOnly
<1>4. Noticed'
  BY <1>1 DEF Noticed, InUse
<1>5. OneLink'
  BY <1>1, <1>2 DEF ConnectorInv, OneLink
<1>6. (InUse \cap LiveSockets)' = InUse \cap LiveSockets
  BY <1>1, <1>2 DEF InUse, LiveSockets
<1>7. NeverStranded'
  BY <1>1, <1>6 DEF ConnectorInv, NeverStranded
<1> QED BY <1>3, <1>4, <1>5, <1>7

\* What a step leaves of the invariant that changes no more than the messages
\* under way.
LEMMA MessageInv ==
  ASSUME ConnectorInv,
         UNCHANGED <<state, ended, connected, l_socket, watched, timers,
                     disposed, alive>>
  PROVE  /\ LetGoTogether' /\ Noticed' /\ NeverStranded' /\ OneLink'
         /\ CrashInShutdownOnly'
BY DEF ConnectorInv, LetGoTogether, Noticed, NeverStranded, OneLink,
       CrashInShutdownOnly, InUse, LiveSockets, Live

LEMMA ConnectorStepInv == ConnectorInv /\ [ConnectorNext]_connector_vars => ConnectorInv'
<1> SUFFICES ASSUME ConnectorInv, [ConnectorNext]_connector_vars PROVE ConnectorInv'
  OBVIOUS
<1> DEFINE Rest == /\ LetGoTogether' /\ Noticed' /\ NeverStranded' /\ OneLink'
                   /\ CrashInShutdownOnly'
<1>1. ConnectorTypeOK'
  BY ConnectorStepTypes DEF ConnectorInv
<1>2. ASSUME TimerFires PROVE Rest
  BY <1>2, TimerInv
<1>3. ASSUME Dispose PROVE Rest
  <2>1. LiveSockets \in SUBSET Socket
    BY DEF LiveSockets
  <2>2. LetGo(LiveSockets) /\ UNCHANGED state
    BY <1>3 DEF Dispose
  <2>3. \A s \in Socket : Live(s)' => s \in LiveSockets /\ Live(s)
    BY <2>2 DEF Live, LiveSockets
  <2> QED BY <2>1, <2>2, <2>3, LetGoInv
<1>4. ASSUME NEW s \in Socket, Established(s) PROVE Rest
  BY <1>4, EstablishedInv
<1>5. ASSUME NEW s \in Socket, EstablishedLate(s) PROVE Rest
  <2>1. /\ state' = [state EXCEPT ![s] = "open"] /\ state[s] = "connecting"
        /\ l_socket = NoSocket /\ ~alive'
        /\ UNCHANGED <<ended, connected, l_socket, watched, disposed>>
    BY <1>5 DEF EstablishedLate
  <2>2. LetGoTogether' /\ CrashInShutdownOnly' /\ NeverStranded'
    BY <2>1 DEF ConnectorInv, LetGoTogether, CrashInShutdownOnly, NeverStranded
  <2>3. Noticed'
    BY <2>1, AppConnectorAssumption DEF Noticed, InUse
  <2>4. OneLink'
    BY <2>1 DEF ConnectorInv, ConnectorTypeOK, OneLink, Live
  <2> QED BY <2>2, <2>3, <2>4
<1>6. ASSUME NEW s \in Socket, Closed(s) PROVE Rest
  <2>1. GoDown(s, 0) /\ state[s] = "open" /\ alive /\ alive' = alive
    BY <1>6 DEF Closed
  <2> QED BY <2>1, GoDownInv
<1>7. ASSUME NEW s \in Socket, Error(s) PROVE Rest
  BY <1>7, ErrorInv
<1>8. ASSUME NEW s \in Socket, Answered(s) \/ Merge(s) PROVE Rest
  BY <1>8, MessageInv DEF Answered, Merge
<1>9. ASSUME UNCHANGED connector_vars PROVE Rest
  BY <1>9, MessageInv DEF connector_vars
<1> HIDE DEF Rest
<1>10. Rest
  BY <1>2, <1>3, <1>4, <1>5, <1>6, <1>7, <1>8, <1>9 DEF ConnectorNext, Rest
<1> QED BY <1>1, <1>10 DEF ConnectorInv, Rest

LEMMA ConnectorInvariance == ConnectorSpec => []ConnectorInv
<1>1. ConnectorInit => ConnectorInv
  BY ConnectorInitInv
<1>2. ConnectorInv /\ [ConnectorNext]_connector_vars => ConnectorInv'
  BY ConnectorStepInv
<1> QED BY <1>1, <1>2, PTL DEF ConnectorSpec

\* An app server that runs and is not stopped never gives the lobby up: it
\* has a link, an attempt under way, or a timer (app_connector.js).
THEOREM NeverGivesUp == ConnectorSpec => []NeverStranded
<1>1. ConnectorInv => NeverStranded
  BY DEF ConnectorInv
<1> QED BY <1>1, ConnectorInvariance, PTL

\* However many calls of l_connect are pending, the app server holds one
\* socket at most that it has not ended, and none after dispose()
\* (connector.js, connect and l_disconnect).
THEOREM OneLinkAtMost == ConnectorSpec => []OneLink
<1>1. ConnectorInv => OneLink
  BY DEF ConnectorInv
<1> QED BY <1>1, ConnectorInvariance, PTL

\* The callbacks of the connector throw nothing unless it is disposed of.
THEOREM NoCrashInService == ConnectorSpec => []CrashInShutdownOnly
<1>1. ConnectorInv => CrashInShutdownOnly
  BY DEF ConnectorInv
<1> QED BY <1>1, ConnectorInvariance, PTL

=============================================================================
