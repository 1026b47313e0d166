# Verification of Scalra

TLA+ models of the Scalra server framework, with TLC configurations that check
small instances and TLAPS proofs that hold for every instance. Paths are those
of the repository; `core/comm.js:133` is line 133 of `src/core/comm.js`.

Scalra is a Node.js framework for servers that talk to clients over raw
sockets, WebSocket, socket.io, SockJS and HTTP, and that may be spread over a
*lobby* and several *application servers*. Node runs one callback at a time, so
everywhere in these models **one action is one callback**, together with all it
calls synchronously. Concurrency is the order of callbacks: data, `close`
events, timers, turns of `setImmediate`, answers of the file system or of
another server, and the later calls that user handlers make. An uncaught
exception ends the process. Most parts modelled here persist nothing, so that
there is nothing to recover; accounts are kept in a database, and `Accounts` has
crashes and restarts.

## 1. Inventory

| Component | Code | State | Operations | What makes it correct |
|---|---|---|---|---|
| events and dispatcher | `core/event_manager.js`, `core/handler.js` | event pool, list of pending events of each socket, watchdog timers, responders | `checkin`, dispatch, `event.done`, `checkout`, drop | every accepted event is settled once, or left to the server it was relayed to; the records of pending events agree; the list is bounded |
| connections | `core/conn.js`, `core/listener.js` | connection objects by connID | `addConnection`, `removeConnection`, `removeAll` | no use of a connection after its removal; removal completes |
| sockets | `core/socket.js`, `core/connector.js` | receive buffer, paused or not | `process`, `send`, drain, close | every message is parsed once, in order; nobody waits for ever |
| web transports | `extension/socketio.js`, `sockjs.js`, `websocket.js`, `core/REST/` | requests, responses | deliver, respond | one response to a request |
| queues | `core/queue.js`, `core/_queue.js`, `core/job_queue.js` | items, `busy`, `curr`, timers | enqueue, dequeue, activate, add, run | FIFO, no lost wake-up, strictly sequential jobs, one `onDone` |
| channels | `core/comm.js`, `modules/pubsub.js`, `extension/msgqueue.js` | subscribers, removal timers, backlog | SUB, UNSUB, PUB, disconnect | no message lost between backlog and live ones, no dead subscriber, empty channels go |
| log files | `core/log_manager.js` | open logs, shared buffer, index, lock | create, write, close, close all | written before closed; "all closed" means so |
| cluster registry | `core/app_conn.js`, `app_manager*.js`, `app_connector*.js` | application servers, user counts | register, lose, reconnect, delete | registry and connections agree, counts are counts |
| remote calls, location | `core/RPC.js`, `extension/location.js` | servers, relayed events, accounts | relay, call, login, move | a relayed event is answered once, if at all; an account is in one place |
| life cycle | `core/component.js`, `module.js`, `frontier.js`, `callback.js` | steps, start and stop queues, timers that end the process | add a step, start, dispose, interrupt | every step is started, in order; stopped in reverse; `onStart` comes after the start |
| datastore | `core/datastore.js`, `ORM.js`, `DB.js` | arrays, mappers, database | add, update, remove, sync, load | memory, mapper and database agree |
| API calls | `core/API.js` | API table, links to other servers, calls that wait, callbacks | connect, lose, call, reply, before- and after-actions | a call is sent, once; a reply reaches a caller that waits for it; no API runs unasked |
| accounts, login | `modules/account.js`, `handlers/system.js` | accounts, the counter of uids, sessions | register, login, logout, change, delete | a uid is given once; what was acknowledged is stored |
| starting servers | `core/execute.js`, `handlers/system.js`, `core/app_conn.js` | requests, their tasks, processes, queries on hold | start, report, register, query, stop | a request is answered when its servers run, with servers of its own; a client that looks for a server gets one |
| the rest | scheduling, notification, monitor, mail, SMS, pages, demos | - | - | adapters and I/O |

How they interact: a transport hands data to `event_manager.unpack` and
`checkin`, the dispatcher in `handler.js` finds the handler, and the handler
answers through the event. `conn.js` creates connection objects and tells
everybody who registered with `callback.js` when one goes: channels, the
cluster registry, remote calls. Start, stop and disposal sequences run on the
job queue; polling (log buffer, waits for sockets) runs on the event-loop
queue, which keeps its items in the fifo queue. `handlers/system.js` starts servers
through `execute.js` when a client asks for one that is not there.

Behaviours that are hard here, and that the models are built around:

- handlers that never answer, answer twice, or answer after the watchdog or
  after the client has gone, and events that were handed to another server, which
  nothing but its answer ends (`handler.js:558-560`);
- timeouts that race reports (`handler.js:563-575`, `job_queue.js:160-212`,
  the removal of channels `comm.js:77-133`);
- wake-ups through a `busy` flag that is reset before a re-entrant handler is
  called (`queue.js:80`);
- two records of one thing kept on different paths: pool and lists, log buffer
  and its index, channels and their timers, connID and subscriber id;
- overlapping disposals that share module variables (`log_manager.js:286-387`);
- calls of the database between which other calls run, on records that were
  looked up before (`ORM.js:276-292`, `datastore.js:242-263`), and a crash between
  the counter in memory and the counter that is stored;
- links that are lost and made again, while the old closure keeps what waits
  (`API.js:347-472`);
- modules that are too slow for the start queue, a stop that begins while
  they start, and stops that report several times (`conn.js:379-402`);
- subscriptions under ids that are not those of their connections
  (`pubsub.js:109`);
- requests for servers of one type that share a list of tasks, and processes that
  never say that they run (`execute.js:107-157`), or are reported twice
  (`execute.js:757-764`);
- boundaries: limits that are tested before or after an insertion, the cut of
  an array at twice its offset.

`PROJECT.json` lists these under `hazards`, each at its line.

## 2. Modules

`EventManager` - the life of an event. `conn` is `event.conn`, `queued` the
`queuedEvents` of each sender function, `pool` is `l_eventPool`, `watchdog` the
`check_eventdone` timer; `status = "running"` means that `event.id` exists.
`Receive` and `Request` are one whole data callback (unpack, `checkin`, dispatch,
and what the handler does before it returns): the event is `Refused`, `Settled` by
the dispatcher itself, `Started`, `Answered` at once, or `Forwarded`:
`l_checkForward` hands it to an application server, and the dispatcher returns with
the event in pool and queue and no watchdog. `relay` says which events are in
`l_pendingEvents` of `RPC.js`, or were to be, and `RelayAnswer` is the arrival of
SRR_SYS_RPC_EVENT. `Done` is a later call of `event.done`, `Timeout` the watchdog,
`Disconnect` the `close` event. A connection has a transport: on a raw socket an
event must still be on the list to be checked out; over socket.io and HTTP
`l_unqueueEvent` lets everything pass.
`RequestReply` - what it promises: an event is refused, or runs and is settled
once, with one answer at most.

`JobQueue` - the object-based job queue. `NextJob` is `next()`, `OnJobDone` is
`onJobDone`; `Report` is a job that calls it, `early` when it does so before it
returns (its timer is then set afterwards and is never cleared).
`JobSequence` - what it promises: a list of jobs done one by one, ended by a
failed showstopper.

`AdvQueue` - the event-loop queue over the array of `_queue.js` with its `offset`
(`First`, `Remains` and `Spent` are what `dequeue` takes and leaves). A *runner* is a
scheduled `processEvent`; `Process` is one of its turns, with the outcome of the
handler and what the handler enqueues in it.
`WorkQueue` - what the two promise together: items are served in the order they
came, each until it is finished, and one that is put back goes behind what came
meanwhile.

`Channels` - channels, subscriptions and backlog together with the life of
connections. A connection stands for its connID as well; `HandleSub` takes any id
(`SubId`), as the handler does. A message is its number on its channel, and `seen`
records what was sent for each subscription. `Unsubscribe` and `Subscribe` are the
functions of `comm.js`, used by the handlers and by `Disconnect` as there.

`LogManager` - logs, their shared buffer, `closeLog` and `disposeAllLogs`.
`Step0` runs in the callback that calls it, as in the code, where the job queue
calls the next job synchronously.

`AppConnector` - an application server's link to its lobby. `state` tells how far
each socket is, `disposed` means that `l_appConnector` is undefined, `timers` counts
the calls of `l_connect` that wait. `TimerFires` is such a call with `Connect`,
the `connect()` of the connector; `Established` is the callback of a socket,
which sets up `l_socket` (`Setup`) and registers; `GoDown` is
`disconnect_handler` with what `removeConnection` calls in turn, and `Closed`
and `Error` are the two ways to it, of which the second also runs the error
listener of `connect()`. `Dispose` and the shutdown of `APPSERVER_AUTOSHUT` let
the socket go (`LetGo`). The lobby is the environment: it accepts, refuses,
answers, closes, or breaks the link. `Merge` is the arrival of two messages in
one chunk, which no end can parse from then on (`deaf`).

`Registry` - what the lobby knows of its application servers. `apps`, `count` and
`placed` are the fields of a record in `AppConn.l_apps`, `conn2app` the map from
connections to servers, `servers` the list in `RPC.js`, `located`, `members` and
`at` the two maps of `Location`. A link has two ends that find out separately:
`Dial` and `AppClosed` are the application server's (`half`: it has let go, the
lobby has not noticed), `LobbyClosed` is the lobby's, with everything that
registered for it, in the order of registration: `RemoveServer` first, then
`onDisconnect` of `AppConn`. `wire` holds the messages under way; they arrive in
order or, when a link has gone deaf, stay where they are. `Handle...` are the
handlers of `app_manager_handler.js` with all that they call. A deletion fails
half-way when accounts are at the server (`DeleteApp`, first case).

`AppConnector` and `Registry` are the two ends of one link: what `AppConnector`
may do to its sockets (`OneLink`: it hangs up the last socket before it uses
another) is what `Dial` and `AppClosed` allow, and what the lobby may do to a link
in `AppConnector` is `LobbyClosed`.

`Accounts` - the API calls of `account.js` over the datastore, the ORM and the
database. `arr`, `mapper` and `value` are what the datastore has in memory,
`rows` and `stored` what the database has; a record is known by the call that
creates it, and its content is a version. `call` says how far each API call is:
`Account...` is a call up to its first request, and `UidStored`, `Created`,
`Authenticated`, `Found`, `Written`, `Saved`, `SavedAgain`, `LookedUp` and `Removed` are
the callbacks of the requests, each with all it does up to the next request.
`Sync`, `Update` and `Register` are begun by several of them, as in the code. `Failed`
is an answer with an error. `Crash` loses what is in memory; requests under way
are carried out or lost (`Late`), and `Restart` loads what the database has.

`RemoteCalls` - calls of another server's API over SockJS. Each accepted
`addRemote` makes a link (`Connect`) and a closure of its own: `callback` is its
`responseCallbacks`, and `shared` is the list in `l_pending` that a closure uses until
its link has opened (`opened`). `Make` is the function `SR.API[host]`, which sends
(`SendNow`) or keeps the call (`Wait`); `Message` is `onmessage`. `BeforeAction`, `Body`
and `AfterAction` are the wrapper that runs an API, at the other server.

`Lifecycle` - the start and the stop of a server on two job queues. It extends
`JobQueue`, whose variables are those of the start queue: `Starts` has a timeout, and
jobs that may report late; `Stops`, over the variables that begin with `stop`, has no
timeout, but its jobs are the modules' own functions and may report several times
(`MaxStopReports`). Until each queue is made its jobs are the steps that there are.
`AddStep` is `addStep`; `DoDispose` is `dispose` of the frontier, called from
outside, by the connector's own step and by an interrupt; `ExitTimer` stands for the
timers that call `process.exit`.

`StartServers` - requests for servers. A call is one of `_START_SERVER`, made by an
API request or by `l_queryAppServer` (`QueryServer`), which puts the client on hold
(`onHold`). `LookForFrontier`, `PackageFound` and `PackageMissing` are the callbacks
of `fs.stat`; `OnFound` is `onFound`, which adds a task to `pendingStart` and starts
the first process; `TimerFires` is `start_server` called by its timer. A process is
known by its call and its number in it, and becomes the server of that name:
`Report` and `FailAtPm2` call `onStarted` (`OnStarted`), `FailSilently` calls
nobody. What `onStarted` is given is an *entry*: the id of the process, or with PM2
an error, which it puts on the list of servers all the same. `ReportTwice` is PM2
starting a process without telling its pid: after `onDone(id)` the `catch` calls
`onDone(e)` in the same callback, and `twice` keeps the types for which that
happened. `OnStarted` looks for a task of the type and does nothing when there is
none. `Register` is the arrival of the server's SR_APP_READY as `handlers/system.js`
sees it, and `Unregister` its going.

The `MC*` modules name the elements of the sets for TLC; `*_proofs` hold the
theorems. A proof module is about one module or about two that belong together,
which it then extends both; so the definitions of one of these two have names of
their own (`ConnectorInit`, `AdvNext`, `LifecycleSpec`). An operator that ends in
`Variant` is a faulty version of the next definition; replacing the definition by it
makes TLC violate a property, which shows that the property depends on that code.

## 3. Runs

| Run | Bounds | Shows |
|---|---|---|
| `event_manager` | a socket, a socket.io and an HTTP connection, 3 events, limit 1, 2 calls of `done` | `RecordsAgree`, `QueueBounded`, refinement of `RequestReply`, `EventuallyCheckedOut` |
| `job_queue` | 4 jobs, timed, each reports once at most and in time | `RunEnds`, refinement of `JobSequence` |
| `adv_queue` | 4 items, all outcomes, re-entrant | refinement of `WorkQueue`, `EverythingServed` |
| `channels` | 2 connections, each of which may use its own connID or the other's, 2 channels, 3 messages each, limits 1 and 2 | `TimersOfEmpty`, `OwnSubscribersLive`, `NoGap` |
| `log_manager` | 3 logs, 2 disposals, 3 buffered messages | `WrittenBeforeClose`, `DisposedClosed`, `DisposeEnds` |
| `app_connector` | 3 sockets, 2 timers | `NeverStranded`, `OneLink`, `CrashInShutdownOnly`, `Starts`, `ShutdownCloses` |
| `registry` | 2 application servers, 3 links, 1 account, 1 user each, 2 messages in flight | `RegistryAgrees`, `ForwardHasTarget`, `LocationResolves`, `CountNotAbove` |
| `accounts` | 3 calls, 1 name, 1 crash | `UniqueUid`, `ArrayStored`, `MapperInArray`, `AcknowledgedStored`, `CallsAnswered` |
| `remote_calls` | 2 APIs, one with 2 before-actions, 2 calls, 4 links | `RepliesForward`, `SentAgain`, `AllAgreed`, `LastCallerTold`, `WaitingSent` |
| `remote_calls_cached` | the same | a violation of `CachedSent`, see section 6 |
| `start_servers` | a request for 1 or 2 servers, whose `frontier.js` may be missing, a query, 2 types, PM2, 1 server of a type at most | `RunsAsAsked`, `TasksServed`, `AnswersHold`, `EventuallyAnswered` |
| `lifecycle` | 4 steps, the second is the connector, 2 reports of each stop | `StopReachesStarted`, `OnStartAfterCalls`, `AddedInTimeStarts` |

Why the bounds are enough to meet the interesting cases. Three events against a
limit of 1 fill the list, overfill it by the one that the test lets in, and are
refused. Two calls of `done` give an answer before and after the watchdog. Four jobs
give a first, a last, one in between and one added late. Four items let the
event-loop queue have one at the handler, one behind it and one enqueued by it, and
let its array hold a spent slot before live ones, and be cut with live ones behind.
Two connections on two channels let one leave a channel that the other keeps and
another that it empties, and three messages against a limit that drops to 1 fill the
backlog, overfill it and cut it. An id that is the other connection's meets every
case of a foreign id: taken before, taken over, and left behind. The two connections
are alike, as are the two channels, so that symmetry is sound for these invariants.
Three logs let one be closing, one be open and one be opened while two disposals
overlap. Three sockets let one be in use, one be ended and not closed yet, and one
be made next, and two timers let the two listeners of one error make overlapping
attempts. Three links let one application server have a dead one, a new one that the
lobby ignores and a third that it accepts, while the other has at most two; one
account and two servers let it move, and two messages in flight let a registration
come twice, or a user's leave overtake the record of its coming. Three calls for one
name let a registration or a deletion come between two requests of a third call, and
one crash can fall between any two of them; a second name would only be a second
copy, as calls for different names meet in the counter alone. Two calls are the
least that can take over each other's callback, and four links let one call wait for
a first link that is refused and another for one that comes after a loss; three
calls were run once, with the same result. A request for two servers and a query, of
one type or of two, let two tasks of one type overlap, and a third when the files of
the request are looked for twice, with a chain of timers for each; four processes
then compete for them. The query needs one server of what is there, and its files
are found at once. Two reports of a stop let it move the queue on past a step that
is still stopping. Four steps let one be added before the start, one during it, and
the connector's be neither the first nor the last. States are finite without
constraints, because every set of things to come is finite; deadlock is not checked,
as each of these instances comes to rest when everything has happened.

Fairness. Weak fairness of timers (`Timeout`, `OnTimeout`,
`CheckLogClose`) and of turns that were scheduled (`ProcessEvent`, `Write`,
`Emptied`, `CheckDone`): the event loop runs every timer and every scheduled
callback, and each of them stays enabled until it runs. In `LogManager` also of
the answers of `fs.open` and `fs.close`, which call back with success or an
error. In `AppConnector` an attempt comes to an end, an ended link is closed
(weak fairness), and the lobby is there: it accepts the socket in use and
answers a registration if it is asked again and again (strong fairness, since
errors and reconnects may come in between); `Starts` is about an app server
whose lobby runs, and says nothing without it. In `Accounts` the
database and the other system answer every request, if only with an error. In
`RemoteCalls` timers run, an attempt to connect ends (`Open` is fair, and `Close` may
come first any number of times up to the bound on links), and what has arrived is
handled; nothing is assumed of the other server's APIs. In `StartServers` something
of what is pending comes as long as anything is (`Pending`): the file system answers,
timers fire, a process gets on or fails; a call and its processes take a few steps
only, so that this is as much as fairness for each. In `Lifecycle` the timers of
the start queue and those that end the process run. Nothing is assumed of clients, of
user handlers or of jobs: they may fall silent at any time, and
`EventuallyCheckedOut` and `RunEnds` hold through the timers alone. `AdvQueue`
needs no fairness of the handler, because it is called within the turn.

## 4. Proofs

All theorems are for every value of the constants that the named assumptions
admit.

- `EventManager_proofs`: types; the invariant `IndInv` joins `RecordsAgree` with
  what makes it inductive: events that were refused, settled or not yet seen
  have no timer that could revive them, a pending event has been answered by
  nobody. From it `UniqueResponse`, `WatchdogCoversPending` (an event under way has its
  watchdog armed exactly when it was not handed to another server), `SettledIsFinal`,
  and, with cardinalities of finite sets, `QueueBounded`; then that every step
  is a step of `RequestReply` or a stutter.
- `Lifecycle_proofs`, about `JobQueue` for jobs that report once and in time (`~
  Late`): the invariant says that the jobs called are those up to `curr + 1`, that
  all before it are done, and where timers may be; the order, the single `onDone`
  and the refinement of `JobSequence` follow. About `Lifecycle`, whose start queue
  is not of that kind: `OnStartAfterCalls`, from `StartInv`. A late report moves
  `curr` a second time, so that no more can be said of it than that the calls never
  lag behind it, and that no step is ever a showstopper, since a failed one would
  call `onDone` early. `StopReachesStarted`, from `StartInv` and `StopInv`: a stop
  that reports again moves `curr` of the stop queue too, and again the calls never
  lag behind it, so that no step is skipped, though several may be stopping at once.
  Neither queue of `Lifecycle` is one whose jobs report once and in time, so that
  the order of `JobQueue` is a theorem about neither. The types of both queues
  (`LifecycleTypeCorrect`) need that the start queue holds the steps that there are.
- `Queues_proofs`, about `LogManager`: types, `WrittenBeforeClose` and
  `DisposedClosed`. The code decides by the index whether a log has something in the
  buffer; `IndexInv` says that the index counts its messages there, and that only a
  log that is open or being emptied has any. Lemmas about counting say what
  appending to the buffer and taking its head do to every log's count. `DisposeInv`
  says that a log a disposal found on record is closed or on the list of those to be
  closed for as long as that disposal is the one that closes. About `AdvQueue`:
  `HalfLive`, more than half of a non-empty array waits, by itself; from it, and
  from lemmas about what a cut leaves of a sequence, that every step is a step of
  `WorkQueue` or a stutter (`ServesInOrder`); `NoLostWakeup` and `RunnersBounded`,
  by an invariant that relates `busy`, `runners` and `nested`.
- `Channels_proofs`: types; `TimersOfEmpty`, which needs that subscriptions exist on
  recorded channels only; `OwnSubscribersLive` and `NoGap`, whatever ids clients
  give. The invariant adds that only connections that were made are subscribed and
  that the backlog is up to date. Lemmas say what `get` and `add` of the backlog do
  to sequences that are up to date.

- `Links_proofs`, about `AppConnector`: types; the invariant `ConnectorInv` joins
  `NeverStranded`, `OneLink` and `CrashInShutdownOnly` with three facts that they
  need: the socket in use is undefined exactly when the connector is disposed of, a
  connection that was counted as made belongs to a socket that some listener will
  notice going, and only live sockets wait to be closed. The hard case is the loss
  of the socket in use, where the listener that sets the timer depends on how the
  socket was set up and on the way it went. About `Registry`: types;
  `LocationResolves` by itself; then the invariant `LinkInv`, which joins
  `RegistryAgrees`, `OneRegistration` and `ForwardHasTarget` with two facts: a link
  that is still to be made is on no record, and, without underload, the server that
  `RPC.js` has for an application server is the link on its record. The hard case is
  `LobbyClosed`, where a deletion that fails leaves the record while all the lists
  forget the link. From there `CountNotAbove`: `UsersInv` says of the link in use
  that what is under way on it never adds up to more than the server has, with what
  the lobby has counted once the link is registered, and by itself while its
  registration is still under way; a registration comes before all else on a link
  (`ReadyFirst`), so that a record begins at zero with nothing counted before it. A
  server uses no link that another made (`CurrentOwned`).

- `Accounts_proofs`: types; `UniqueUid`, `ArrayStored` and `MapperInArray`. The
  invariant `Inv` adds what the calls under way have to do with memory and the
  database: the uids of calls that have not stored theirs are above the counter in
  the database and not above the one in memory, and no uid is shared (`UidInv`); the
  queue of the database holds each call once, and creations in the order of their
  uids (`OrmInv`), so that records come into the database in that order; a row that
  is about to be removed is the first of its name as long as it is there
  (`RemoveInv`), which is why the record that leaves the array has lost its row.
  Most steps change one call and little else, and one lemma about such a `Move`
  serves them. `AcknowledgedStored` rests on `StoreInv`: unless an update or a login
  may write over it, the versions of a record go up from the database, over the
  saves in the database's queue in their order, to memory (`VersionInv`). So the
  save that is carried out never lowers what is stored, and a change that is
  answered has its version there. `KindInv` says in which phases a call of each kind
  may be, and `TargetInv` that what a change or an update works on is a record of an
  account that came to be.

- `StartServers_proofs`: types, which need that `onFound` is called twice at most
  (`LooksOnce`); `RunsAsAsked`, from `Chain`, which says how the count and the two
  chains of timers stand while they run. Then `OldestFirst` and `AnswersHold`: what
  is in a task or an answer was heard of (`Heard`, which only grows), an entry comes
  in when its process reports, and so into one place only (`Sound`, which is said of
  tasks and answers as values, so that a callback that calls `onStarted` twice is
  two uses of one lemma, `OnStartedSound`). Every step is one of a few kinds as far
  as tasks are concerned (`TaskSteps`), with a lemma for each. `TasksServed` needs
  `Matched`: for each type of which no process was reported twice, the processes
  that have not reported, also those that are still to be run, go into the places
  left in the tasks, one each. An injection says so without sums over all requests:
  a step that runs or loses a process leaves it as it is (`FitsFewer`), a new task
  adds places as well as processes (`FitsMore`), and a process that reports takes a
  place, for which it may have to give another one its own (`FitsTaken`).

- `RemoteCalls_proofs`: types, `RepliesForward`, `SentAgain` and `AllAgreed`, all in
  one invariant with what they need. The callback of an API is that of the latest
  call of it or is gone (`CallbackInv`), which puts a reply behind every earlier
  call; a call is sent once over each link at most, and not over one that has not
  opened (`SentInv`); `l_pending` holds only calls that their closure made before
  its link had opened (`MadeInv`). That is why what was sent over an open link, or
  kept by a closure that had lost its own, is never sent a second time.

The type invariants are proved and not run. Proved of every instance and
not run, because properties that are run imply or replace them:
`UniqueResponse` and `WatchdogCoversPending` (`EventManager`), `Sequential`,
`FinishedOnce`, `NeverIdle` and `ShowstopperStops` (`JobQueue`), `HalfLive`, `NoLostWakeup`
and `RunnersBounded` (`AdvQueue`), `OneRegistration` (`Registry`).

Every invariant, every action property and every refinement that the runs check is proved.
Only model-checked is all liveness (`EventuallyCheckedOut`, `RunEnds`,
`EverythingServed`, `DisposeEnds`, `Starts`, `ShutdownCloses`, `CallsAnswered`,
`LastCallerTold`, `WaitingSent`, `AddedInTimeStarts`, `EventuallyAnswered`), since the proof
system does not reason about fairness. `CachedSent` does not hold (section 6).

## 5. What the abstraction leaves out

Payloads, formatting, logging, statistics, routing by name. The models are of
servers with `SAFE_CALL`, which is set in production (`settings.js:216`): `safeCall`
catches an exception in a callback that it runs, and a handler that throws looks
like one that does not answer. In the default, development, it is not set
(`settings.js:211`), and such an exception runs `onCrash` and shuts the server down
(`utility.js:225-234`). That concerns handlers in `EventManager`, `DeleteApp` in
`Registry` (`app_conn.js:197`) and `Update` in `Accounts` (`datastore.js:457-460`);
`Interrupt` of `Lifecycle` is such a shutdown. Connections and events are fresh
UUIDs and so are never used again in the models. In `LogManager` a turn that only
puts its item back changes nothing and is left out, as is a failing synchronous
write, which ends the process. The sockets of `AppConnector` that are closed and not
in use may be used again as new ones; responders of links that were lost, and the
connection object that a second `setup` of a socket leaves behind, are not followed,
and neither is the branch in which `connect` itself throws (`connector.js:125-128`).
An exception in a callback of a socket or of a driver, which `safeCall` does not
run, ends the process. `Channels` leaves out the rule `pos` for the backlog
(`msgqueue.js:101-106`): a client that gives a position beside `last` gets that one
message in place of the last ones, and `NoGap` is not about it. `Registry` leaves
out APP_SET_STAT, LOBBY_SHUTDOWN and the certificates that a login carries (a login
may be refused, whatever its token is), and gives all application servers one name
and so one location; it has no fairness, as a deaf link may keep its messages for
ever, and says nothing of liveness.

`Accounts` leaves out logins through WordPress, which may change the name of an
account, `_ACCOUNT_UPDATE` of the name itself, sessions and `l_logins`, and calls
that come before the accounts are loaded (they are refused). Its database takes the
requests of one connection in their order: a driver with a pool of connections may
not, and then a counter may be stored after a higher one and a uid be given again
after a crash. `RemoteCalls` leaves out calls by HTTP, what `addRemote` and
`onDisconnect` tell the application, private APIs, and after-actions but the first,
which is the only one that is waited for. `StartServers` leaves out which of the
processes of a type a server is (`l_started`: the first process is taken for the
server that registers first), the log of started servers, and a process that
`package.json` starts under another name. In `Lifecycle` what the single steps do is
not modelled (`conn.removeAll`, which never reports when a raw socket is missing, is
such a step). The spatial half of `comm.js`, the console half of `log_manager.js`
and the unused functional half of `job_queue.js` are not modelled.

## 6. Where the code and its comments part

Shown by a run that ends in a violation:

- `remote_calls_cached`: `API.js:469`, "otherwise cache the packet and send when
  connection is made". `onopen` gives the closure a list of its own
  (`API.js:381`), and `l_pending` keeps the old one. What is called after the loss
  of a link waits in the closure's list, while the next `addRemote` takes the one
  of `l_pending`: it sends again what was sent before, and never what waits.
  `SentAgain` and `WaitingSent` say what does hold.

Shown by properties that state what the code does, with the case in which it does
not do what it says: `OwnSubscribersLive` (`comm.js:143`), `RunsAsAsked`
(`execute.js:159`), `AnswersHold` and `TasksServed` (`execute.js:689`),
`EventuallyCheckedOut` (`handler.js:558-560`), `StopReachesStarted`
(`job_queue.js:152`), `CallsAnswered` (`account.js:877`). Each entry is below.

Met while modelling, and visible in the models' guards and properties:

- `conn.js:339` announces "wait for all event processing done on this socket", but
  `waitSocketsEmpty` looks for the list on the net socket and finds none; it is kept
  on the sender function, so that `Disconnect` waits for nothing.
- `job_queue.js:152` promises "execute all jobs in the queue sequentially", but a
  late or repeated report moves `curr` a second time (constant `Late`, which
  `Lifecycle` sets for both its queues).
- `module.js:78` gives the stop of a module to the queue as it is, and that of a
  listener reports once for each socket that it closes (`conn.js:379-402`): the
  stops of the steps after it are called while it still closes sockets, and the process may
  end before it or they are over. `StopReachesStarted` says what remains: every step that
  was started is at least told to stop, in reverse order.
- `comm.js:143`, "automatic unsubscribe when a connection breaks", holds for
  subscriptions under the connID only (`OwnSubscribersLive`), and SR_SUB subscribes
  under an id that the client gives (`pubsub.js:109`). A subscription under another
  id stays when its connection goes, and messages are sent for it to a connection
  that is closed; and a connection that goes takes with it what another has
  subscribed under its connID. An id that is taken keeps its connection: who
  subscribes under it gets the backlog, and no message after that. Clients that give
  no id share one such subscription, `undefined`.
- `handler.js:558-560`: an event that is handed to another server is left in pool
  and queue with no watchdog, so that only that server's answer ends it; and
  `l_checkForward` (`handler.js:311-312`) ignores that `relayEvent` may have refused it,
  for the event to be processed locally (`RPC.js:217-220`): then nothing ever does.
  `EventuallyCheckedOut` and `WatchdogCoversPending` say so (`HandedOver`).
- `socket.js:91`, "this part is called when connection is made", but the callback in
  `connector.js:98-118` sets up `l_socket`, which may be a later socket that is still
  connecting, and a second time when that one connects: it then has two listeners
  for data (`listeners`), and messages are dispatched twice.
- `event_manager.js:465` says that there is "a unique response to each unqiue
  event"; over socket.io and HTTP a second `event.done` writes again, so
  `UniqueResponse` is stated for sockets.
- `event_manager.js:108` lets one event more than the limit in, hence the
  `+ 1` of `QueueBounded`; a refused event is never answered.
- `_queue.js:62`: `enqueueFront` after a `dequeue` would lose its item and bring
  back the one already taken; nothing calls it.
- `execute.js:218`: nothing returns after `package.json` is looked for, so that
  `onFound` comes at once and, if the file is there, again: "keep starting servers
  until 'size' is reached" (`execute.js:159`) then starts one more, and two tasks
  wait, of which the second may wait for ever. `RunsAsAsked` says that as many run
  as are asked for when `onFound` comes once, and at least as many when it comes
  twice. If the file is missing too, the request has its error and its servers are
  started all the same.
- `execute.js:733-751`: `onDone` "notifies when the process is executed (with unique ID
  returned)" (`execute.js:689`); an error of PM2 goes to the same callback and is counted
  as a server that runs (`FailAtPm2`), so that an answer may hold errors in place of servers
  (`AnswersHold`, `error`), in spite of `execute.js:336`.
- `execute.js:757-764`: when PM2 tells no pid, `onDone(id)` is followed by
  `onDone(e)` for the same process. The error takes a place in a task of its own,
  and a process that reports later may find no task (`ReportTwice`, the exception in
  `TasksServed`).
- `app_conn.js:306`, "get how many servers left can be started": the servers on their
  way are not counted, so that more than `servers.max` may run (`Capacity`).
- `execute.js:462-490`: stopping all servers when there are none never calls back, since
  the callback is called in the loop over them.
- `queue.js:15`: a pause does not hold when the handler has enqueued, as a runner
  that this call scheduled goes on (`runners`).
- `msgqueue.js:150-156`: `setLimit` cuts a copy, so that a lowered limit does
  not take effect on a full queue.
- `connector.js:101`: the callback of an attempt that comes after `dispose`
  reads a property of undefined and ends the process, in spite of
  `app_connector.js:195`, "all the stop steps will be executed"; so does the
  `close` listener at `connector.js:143` when the link goes with an error.
  `CrashInShutdownOnly` and the `~alive` of `ShutdownCloses` say how far this
  goes.
- `app_connector.js:48`, "try to re-connect if lobby shuts down": each of the
  two timers that an error sets makes an attempt, and the later one ends the
  link that the earlier one has made, which counts as another loss and sets
  another timer. `OneLink` holds, but the link may come and go for ever, which
  is why `Starts` asks for an answer once and not for a link that stays.
- `socket.js:56-86`: two messages in one chunk make a link deaf, so that an
  application server may never learn that it is registered (`deaf` in
  `Starts`).
- `app_conn.js:340` has `queryAppServers` return all connected servers, but
  `app_conn.js:197` refers to a variable that does not exist when accounts are at
  the server, so that `deleteApp` ends half-way and the record stays, with a
  link that is gone (`RegistryAgrees` speaks of records on live links only). That
  same failure is what keeps `LocationResolves` true, since `delApp` leaves
  accounts behind (`location.js:139`).
- `app_conn.js:133`: a server that registers again before the lobby has noticed
  the loss of its link is told that all is well (`app_manager_handler.js:46`) and is
  not recorded; when the old link is found gone, the record goes with it and
  the server runs on unregistered.
- `location.js:138-166`: the location goes with the last server in it, while records
  refer to it by an id that a new location will not have; later logins at such
  a server are answered with `op: true` and not recorded (`placed`).
- with `servers.underload`, `app_manager_handler.js:125` deletes the record of a
  server whose link lives, so that two links may speak for one server later;
  `OneRegistration`, `ForwardHasTarget` and `CountNotAbove` are therefore stated
  without it.
- `log_manager.js:59-81`: the callback of `fs.open` puts a log on record while
  the lock is set; a second `disposeAllLogs` may take over the callback of a
  first that waits, which is then never told (phase `"overwritten"`, at which
  `DisposeEnds` stops), and the end of one releases the
  lock under another. `DisposedClosed` is about the logs that were on record when a disposal
  began; one that comes late stays open.
- `account.js:209`, "check existing users": two registrations of one name may both
  succeed, as the name is looked at before two requests and not again (`Register`,
  `Created`); the later record takes the name in the map, both stay in the array.
- `account.js:877`: an error of a deletion is returned and not passed on, and
  nobody is told; `datastore.js:457-460`: an update of a record that the array does
  not have ends in an exception that is caught, without an answer. `CallsAnswered`
  is about calls of every kind, and `Unreported` says which of them end unanswered.
- `ORM.js:288`: the second of two deletions of one account finds no row and reads
  a property of undefined in a callback of the driver, which ends the process
  (`LookedUp`).
- `account.js:471` and `datastore.js:263`: a login through another system goes on with
  the record it began with; when that was deleted meanwhile, the end of its sync
  puts it back into the map, though it is neither in the array nor in the database
  (the exception in `MapperInArray`). A deletion may also remove, from memory only,
  a record that was registered anew under the name.
- `ORM.js:234-253`: an update writes what it was given to the row it looked up
  before, over a later change that was acknowledged meanwhile (the exception in
  `AcknowledgedStored`).
- `account.js:324`: `username` is set in WordPress logins only, so that other logins
  are recorded under the name `undefined` (`account.js:544-559`).
- `module.js:198`: a module that is slower than 5 s and then reports moves the queue
  on a second time; `onStart` may be notified twice, and while a step is still
  starting. `OnStartAfterCalls` says what remains true of the first notification.
- `frontier.js:281`: `dispose` during the start leaves the start queue running, so that
  a step may be stopped that was never started, and be started afterwards; a step
  added when the start is over never runs, and is stopped all the same.
- `frontier.js:242`: `l_ready` is never set, so that `isServerReady` ("check whether
  server is successfully created", `frontier.js:306`) is always false, and
  `component.js:205` disposes of an application server as soon as its connector has
  the lobby's answer (`ConnectorStarted`).

## 7. Not modelled, and why

- The other end of a relay: how an event that `handler.js:284-316` hands over is run at
  the other server (`RPC.js`). `EventManager` has the end at which it is pending.
- The framing and the back-pressure of `socket.js`: they work on characters and on
  the fill of buffers that belong to Node and the operating system. Their effect
  on the link to the lobby, a deaf link, is in `AppConnector` and `Registry`.
- The other half of `core/execute.js` and the monitor: they stop processes by HTTP
  and signals, and restart what a log of servers names. `core/DB.js` but for the
  request that `Accounts` uses: one call of a driver in each function, and a cache
  that no module of the framework uses.
- `modules/EventTrigger.js`, `core/schedule.js`, notification, chat, reporting, mail,
  SMS, pages, REST files: tables, text, formatting, and calls of other services.
- `modules/Account-old.js`, `chat-old.js`, `core/storage.js`, `handlers/login.js`,
  `extension/user.js`, `lib/` and `demo/`: superseded code, the browser's side, examples.
