---------------------------- MODULE StartServers ----------------------------
(***************************************************************************)
(* Starting servers on request, and for clients that look for one:         *)
(*   core/execute.js      _START_SERVER, and the processes it runs         *)
(*   handlers/system.js   SR_SYS_QUERY_SERVER, which starts one server     *)
(*   core/app_conn.js     which servers are there, and how many may be     *)
(* The file system, the processes and the users of the servers are the     *)
(* environment.  A process is known by the call that runs it and by its    *)
(* number in that call, as is the server that it becomes.                  *)
(* An operator that ends in "Variant" is a faulty version of the           *)
(* definition after it, kept to show that a property can fail.             *)
(***************************************************************************)
EXTENDS Naturals, FiniteSets, SequencesExt

CONSTANTS
  Request,     \* calls of _START_SERVER
  Query,       \* calls of l_queryAppServer, each of which may make one more
  Type,        \* owner, project and name of a server
  MaxSize,     \* bound: servers that one request asks for
  Elsewhere,   \* bound: calls whose frontier.js may be missing
  MaxServers,  \* the setting servers.max
  Pm2,         \* PM2_ENABLE
  Overload     \* whether servers can be full (servers.overload)

ASSUME StartAssumption ==
  /\ Request \cap Query = {}
  /\ MaxSize \in Nat \ {0}
  /\ MaxServers \in Nat
  /\ Pm2 \in BOOLEAN
  /\ Overload \in BOOLEAN

Call == Request \cup Query

VARIABLES
  type,          \* server_type of each call
  size,          \* servers that each call asks for
  looks,         \* of each call: new, or the file that it looks for, or over
  found,         \* number of times onFound was called in each call
  timers,        \* calls of start_server that are pending in each call
  state,         \* of each process of each call: launched, reported, serving
                 \* (AppConn.l_apps has its server), failed
  pendingStart,  \* l_pendingStart: the call and the servers of each task
  answers,       \* what onDone of each call was given (history)
  twice,         \* types of the processes that were reported twice (history)
  onHold         \* l_pendingQueryRequests

calls == <<type, size, looks, found, timers>>
tasks == <<pendingStart, answers, twice>>
vars == <<calls, state, tasks, onHold>>

\* The variable count of call c: the processes it has run.
count(c) == Len(state[c])

Process == UNION {{<<c, k>> : k \in 1 .. count(c)} : c \in Call}
ProcessId == Call \X Nat

State(p) == state[p[1]][p[2]]
Becomes(p, s) == state' = [state EXCEPT ![p[1]][p[2]] = s]
TypeOf(p) == type[p[1]]

\* What onStarted is given for a process: its id, or with PM2 an error, which
\* it puts on the list of servers all the same.
Entry == [process : ProcessId, error : BOOLEAN]
Id(p) == [process |-> p, error |-> FALSE]
ErrorOf(p) == [process |-> p, error |-> TRUE]

Task == [call : Call, servers : SUBSET Entry]

TypeOK ==
  /\ type \in [Call -> Type]
  /\ size \in [Call -> 1 .. MaxSize]
  /\ looks \in [Call -> {"new", "frontier", "package", "over"}]
  /\ found \in [Call -> 0 .. 2]
  /\ timers \in [Call -> Nat]
  /\ state \in [Call -> Seq({"launched", "reported", "serving", "failed"})]
  /\ pendingStart \in Seq(Task)
  /\ answers \in [Call -> Seq(SUBSET Entry)]
  /\ twice \subseteq Type
  /\ onHold \subseteq Query

Init ==
  /\ type \in [Call -> Type]
  /\ size \in [Call -> 1 .. MaxSize]
  /\ \A q \in Query : size[q] = 1
  /\ looks = [c \in Call |-> "new"]
  /\ found = [c \in Call |-> 0]
  /\ timers = [c \in Call |-> 0]
  /\ state = [c \in Call |-> << >>]
  /\ pendingStart = << >>
  /\ answers = [c \in Call |-> << >>]
  /\ twice = {}
  /\ onHold = {}

\* An error that is given to onDone instead of a list of servers.
Error == {}

\* The servers of type t that are on record.
Serving(t) == {p \in Process : State(p) = "serving" /\ TypeOf(p) = t}

-----------------------------------------------------------------------------
(* A request and its processes.                                            *)

\* Faulty: one server too many, because the count is compared with <=.
StartServerVariant(c, n) ==
  /\ state' = [state EXCEPT ![c] = Append(@, "launched")]
  /\ timers' = [timers EXCEPT ![c] = n + (IF count(c) + 1 <= size[c] THEN 1 ELSE 0)]

\* start_server, which leaves n other timers of call c: one process more, and
\* a timer for the next unless there are enough.
StartServer(c, n) ==
  /\ state' = [state EXCEPT ![c] = Append(@, "launched")]
  /\ timers' = [timers EXCEPT ![c] = n + (IF count(c) + 1 < size[c] THEN 1 ELSE 0)]

\* onFound: a task of its own each time it is called.
OnFound(c) ==
  /\ found' = [found EXCEPT ![c] = @ + 1]
  /\ pendingStart' = Append(pendingStart, [call |-> c, servers |-> {}])
  /\ StartServer(c, timers[c])

\* The call is refused, or the file frontier.js is looked for.
Begin(c) ==
  /\ looks[c] = "new"
  /\ \/ /\ looks' = [looks EXCEPT ![c] = "over"]
        /\ answers' = [answers EXCEPT ![c] = Append(@, Error)]
     \/ /\ looks' = [looks EXCEPT ![c] = "frontier"]
        /\ UNCHANGED answers
  /\ UNCHANGED <<type, size, found, timers, state, pendingStart, twice>>

Start(r) ==
  /\ Begin(r)
  /\ UNCHANGED onHold

\* frontier.js is there, or it is not and package.json is looked for.  Either
\* way onFound is called: nothing returns before it.
LookForFrontier(c) ==
  /\ looks[c] = "frontier"
  /\ \/ looks' = [looks EXCEPT ![c] = "over"]
     \/ /\ c \in Elsewhere
        /\ looks' = [looks EXCEPT ![c] = "package"]
  /\ OnFound(c)
  /\ UNCHANGED <<type, size, answers, twice, onHold>>

PackageFound(c) ==
  /\ looks[c] = "package"
  /\ looks' = [looks EXCEPT ![c] = "over"]
  /\ OnFound(c)
  /\ UNCHANGED <<type, size, answers, twice, onHold>>

PackageMissing(c) ==
  /\ looks[c] = "package"
  /\ looks' = [looks EXCEPT ![c] = "over"]
  /\ answers' = [answers EXCEPT ![c] = Append(@, Error)]
  /\ UNCHANGED <<type, size, found, timers, state, pendingStart, twice, onHold>>

TimerFires(c) ==
  /\ timers[c] > 0
  /\ StartServer(c, timers[c] - 1)
  /\ UNCHANGED <<type, size, looks, found, tasks, onHold>>

-----------------------------------------------------------------------------
(* What becomes of a process.                                              *)

\* Faulty: the loop has no break, and ends with the last task of the type.
TaskOfTypeVariant(t, pending) ==
  {i \in DOMAIN pending :
     /\ type[pending[i].call] = t
     /\ \A j \in i + 1 .. Len(pending) : type[pending[j].call] # t}

\* The task that the loop of onStarted finds for a process of type t, if any.
TaskOfType(t, pending) ==
  {i \in DOMAIN pending :
     /\ type[pending[i].call] = t
     /\ \A j \in 1 .. i - 1 : type[pending[j].call] # t}

\* Faulty: a task that has its servers is answered and stays on the list.
GivenVariant(s, i, e) ==
  LET c == s.pending[i].call
      servers == s.pending[i].servers \cup {e}
  IN [pending |-> [s.pending EXCEPT ![i].servers = servers],
      answers |-> IF Cardinality(servers) = size[c]
                  THEN [s.answers EXCEPT ![c] = Append(@, servers)]
                  ELSE s.answers]

\* Task i is given entry e; when it has its servers it is answered and taken
\* off the list.
Given(s, i, e) ==
  LET c == s.pending[i].call
      servers == s.pending[i].servers \cup {e}
  IN IF Cardinality(servers) = size[c]
     THEN [pending |-> RemoveAt(s.pending, i),
           answers |-> [s.answers EXCEPT ![c] = Append(@, servers)]]
     ELSE [pending |-> [s.pending EXCEPT ![i].servers = servers],
           answers |-> s.answers]

\* onStarted, called for entry e: what it makes of tasks and answers s.
\* Nothing is done for a process of which no task is found.
OnStarted(s, e) ==
  LET found_tasks == TaskOfType(TypeOf(e.process), s.pending)
  IN IF found_tasks = {} THEN s ELSE Given(s, CHOOSE i \in found_tasks : TRUE, e)

Now == [pending |-> pendingStart, answers |-> answers]
Tasks(s) == pendingStart' = s.pending /\ answers' = s.answers

\* A process prints for the first time, or is reported by PM2.
ReportOnce(p) ==
  /\ Tasks(OnStarted(Now, Id(p)))
  /\ UNCHANGED twice

\* PM2 has started it but tells no pid: after onDone(id) the catch calls
\* onDone(e) in the same callback, for the same process.
ReportTwice(p) ==
  /\ Pm2
  /\ Tasks(OnStarted(OnStarted(Now, Id(p)), ErrorOf(p)))
  /\ twice' = twice \cup {TypeOf(p)}

Report(p) ==
  /\ State(p) = "launched"
  /\ Becomes(p, "reported")
  /\ ReportOnce(p) \/ ReportTwice(p)
  /\ UNCHANGED <<calls, onHold>>

\* Its log cannot be opened, or it ends before it prints: nobody is told.  One
\* that has reported may end before it becomes a server.
FailSilently(p) ==
  /\ State(p) \in {"launched", "reported"}
  /\ Becomes(p, "failed")
  /\ UNCHANGED <<calls, tasks, onHold>>

\* PM2 does not start it, and the error goes where the id would.
FailAtPm2(p) ==
  /\ Pm2
  /\ State(p) = "launched"
  /\ Becomes(p, "failed")
  /\ Tasks(OnStarted(Now, ErrorOf(p)))
  /\ UNCHANGED <<calls, twice, onHold>>

\* Faulty: the answered queries stay on hold.
RegisterVariant(p) ==
  /\ State(p) = "reported"
  /\ Becomes(p, "serving")
  /\ UNCHANGED <<calls, tasks, onHold>>

\* The server of p is on record (SR_APP_READY), and the queries for its type are
\* answered.
Register(p) ==
  /\ State(p) = "reported"
  /\ Becomes(p, "serving")
  /\ onHold' = {q \in onHold : type[q] # TypeOf(p)}
  /\ UNCHANGED <<calls, tasks>>

\* A server goes (onAppServerStop).
Unregister(p) ==
  /\ State(p) = "serving"
  /\ Becomes(p, "failed")
  /\ UNCHANGED <<calls, tasks, onHold>>

-----------------------------------------------------------------------------
(* Clients that look for a server.                                         *)

\* getServerCapacity: there may be one server more.
Capacity(t) == Cardinality(Serving(t)) < MaxServers

\* A query is answered at once if getAvailableApp finds a server, one with room
\* for another user, or if there may not be one more.  Otherwise it is put on
\* hold, and a server is started.
QueryServer(q) ==
  /\ looks[q] = "new"
  /\ \/ /\ Serving(type[q]) # {} \/ ~Capacity(type[q])
        /\ looks' = [looks EXCEPT ![q] = "over"]
        /\ UNCHANGED <<type, size, found, timers, state, tasks,
                       onHold>>
     \/ /\ Capacity(type[q])
        /\ Serving(type[q]) # {} => Overload
        /\ onHold' = onHold \cup {q}
        /\ Begin(q)

-----------------------------------------------------------------------------

\* What comes by itself: the file system answers, timers fire, and each process
\* gets on or fails.
Pending ==
  \/ \E c \in Call :
       \/ LookForFrontier(c) \/ PackageFound(c) \/ PackageMissing(c)
       \/ TimerFires(c)
  \/ \E p \in Process :
       Report(p) \/ FailSilently(p) \/ FailAtPm2(p) \/ Register(p)

Next ==
  \/ \E r \in Request : Start(r)
  \/ \E q \in Query : QueryServer(q)
  \/ Pending
  \/ \E p \in Process : Unregister(p)

Spec == Init /\ [][Next]_vars

\* Something that is pending comes, in whatever order.  A call and its processes
\* take a few steps only, so that all that is pending comes in the end.
Fairness == WF_vars(Pending)

FairSpec == Spec /\ Fairness

-----------------------------------------------------------------------------
(* Properties.                                                             *)

\* A call whose timers are over has run as many processes as it asks for
\* ("keep starting servers until 'size' is reached", execute.js:159), when
\* onFound was called once; a second call of it does not make them fewer.
RunsAsAsked ==
  \A c \in Call :
    found[c] > 0 /\ timers[c] = 0 =>
      /\ count(c) >= size[c]
      /\ found[c] = 1 => count(c) = size[c]

\* Requests of one type share a list of tasks, and are served in the order
\* they came: only the oldest has servers, and none has all it asks for.
OldestFirst ==
  \A i \in DOMAIN pendingStart :
    /\ Cardinality(pendingStart[i].servers) < size[pendingStart[i].call]
    /\ \A j \in 1 .. i - 1 :
         type[pendingStart[j].call] = type[pendingStart[i].call] =>
           pendingStart[i].servers = {}

\* A process that is still to report will find a task that waits for it, unless
\* PM2 reported one of its type twice: the second report takes the place of
\* another process.
TasksServed ==
  /\ OldestFirst
  /\ \A p \in Process :
       State(p) = "launched" /\ TypeOf(p) \notin twice =>
         TaskOfType(TypeOf(p), pendingStart) # {}

\* A call is answered with as many entries as it asks for.  Each is of a process
\* of its type, and in no other answer and no task; it is the process's id, or
\* with PM2 perhaps an error, so that there are servers for the rest only.
AnswersHold ==
  \A c \in Call : \A i \in DOMAIN answers[c] :
    answers[c][i] # Error =>
      /\ Cardinality(answers[c][i]) = size[c]
      /\ \A e \in answers[c][i] : TypeOf(e.process) = type[c] /\ (e.error => Pm2)
      /\ \A j \in DOMAIN pendingStart :
           answers[c][i] \cap pendingStart[j].servers = {}
      /\ \A d \in Call : \A j \in DOMAIN answers[d] :
           <<c, i>> # <<d, j>> => answers[c][i] \cap answers[d][j] = {}

\* A process of call c has failed, or its files are not where they should be.
Fails(c) ==
  \/ looks[c] = "package" \/ found[c] = 2
  \/ \E i \in DOMAIN answers[c] : answers[c][i] = Error
  \/ \E p \in Process : p[1] = c /\ State(p) = "failed"

\* A request is answered, unless it or one of the same type, which takes
\* servers of its, fails; and a query on hold, unless the server fails that it
\* has started.
EventuallyAnswered ==
  /\ \A r \in Request :
       looks[r] = "frontier" ~>
         (answers[r] # << >> \/ \E c \in Call : type[c] = type[r] /\ Fails(c))
  /\ \A q \in Query : q \in onHold ~> (q \notin onHold \/ Fails(q))

=============================================================================
