----------------------------- MODULE Lifecycle ------------------------------
(***************************************************************************)
(* The start and the stop of a server: the steps of its modules            *)
(* (core/module.js) run on one job queue when it starts and, in reverse,   *)
(* on another when it is disposed of (core/frontier.js); Ctrl-C and, in a  *)
(* server without SAFE_CALL, an exception in a callback shut it down       *)
(* (core/callback.js).  A step is known by its number in l_steps.          *)
(* The variables of JobQueue are those of l_startqueue, which calls its    *)
(* onDone when onStart is to be notified: finished counts these calls.     *)
(* Those that begin with "stop" are of the queue of Module.stop.           *)
(* An operator that ends in "Variant" is a faulty version of the           *)
(* definition after it, kept to show that a property can fail.             *)
(***************************************************************************)
EXTENDS JobQueue

CONSTANTS
  Connector,      \* the step of the AppConnector; 0 in a server that has none
  MaxStopReports  \* bound: reports that the stop of a step makes

\* The start of a step reports once (l_buildStep); its stop is the module's
\* own function, which may report more often.
ASSUME LifecycleAssumption ==
  /\ Connector \in 0 .. MaxJobs
  /\ MaxReports = 1
  /\ MaxStopReports \in Nat

VARIABLES
  steps,         \* length of l_steps
  stopKeep, stopCurr, stopAllPassed, stopStarted, stopInvoked, stopDone,
  stopTimer, stopReports, stopFinished,
  interrupted,   \* l_isCrashing, and with it the timer of shutdown()
  forced,        \* the timer that a second dispose sets
  exited         \* process.exit was called by a timer or by an interrupt

start_vars == <<steps, vars>>
stop_vars == <<stopKeep, stopCurr, stopAllPassed, stopStarted, stopInvoked, stopDone,
               stopTimer, stopReports, stopFinished>>
exit_vars == <<interrupted, forced, exited>>
all_vars == <<start_vars, stop_vars, exit_vars>>

\* Steps are never showstoppers.  A queue that has not been made yet would hold
\* the steps that there are.
AllSteps == [i \in 1 .. steps |-> TRUE]

\* In a server this queue is Timed, and a module may report Late.
Starts == INSTANCE JobQueue WITH
  keep <- IF started THEN keep ELSE AllSteps

\* Steps that stop have all the time they want, and may report again: that of
\* a listener reports once for each socket it closes (removeAll of conn.js),
\* at once or when the last events of the socket are over.
Stops == INSTANCE JobQueue WITH
  Timed <- FALSE, Late <- TRUE, MaxReports <- MaxStopReports,
  keep <- IF stopStarted THEN stopKeep ELSE AllSteps,
  curr <- stopCurr, allPassed <- stopAllPassed, started <- stopStarted,
  invoked <- stopInvoked, done <- stopDone, timer <- stopTimer,
  reports <- stopReports, finished <- stopFinished

\* The stop ends the process.
Up == stopFinished = 0 /\ ~exited

LifecycleTypeOK ==
  /\ steps \in 0 .. MaxJobs
  /\ keep \in Seq(BOOLEAN)
  /\ Starts!TypeOK
  /\ Stops!TypeOK
  /\ stopKeep \in Seq(BOOLEAN)
  /\ interrupted \in BOOLEAN
  /\ forced \in BOOLEAN
  /\ exited \in BOOLEAN

LifecycleInit ==
  /\ steps = 0
  /\ Init
  /\ stopKeep = << >>
  /\ stopStarted = FALSE
  /\ Stops!Init
  /\ interrupted = FALSE
  /\ forced = FALSE
  /\ exited = FALSE

-----------------------------------------------------------------------------
\* Start.

\* Faulty: a step that comes during the start is only put on l_steps.
AddStepVariant ==
  /\ Up
  /\ steps < MaxJobs
  /\ steps' = steps + 1
  /\ UNCHANGED <<keep, curr, allPassed, started, invoked, done, timer, reports, finished>>
  /\ UNCHANGED <<stop_vars, exit_vars>>

\* addStep: before the start, or into the queue, during the start or when it
\* is over.
AddStep ==
  /\ Up
  /\ steps < MaxJobs
  /\ steps' = steps + 1
  /\ keep' = IF started THEN Append(keep, TRUE) ELSE keep
  /\ UNCHANGED <<curr, allPassed, started, invoked, done, timer, reports, finished>>
  /\ UNCHANGED <<stop_vars, exit_vars>>

\* Module.start, by the init of the frontier.
Start ==
  /\ Up
  /\ ~started
  /\ keep' = AllSteps
  /\ UNCHANGED <<steps, stop_vars, exit_vars>>
  /\ Starts!Run

\* The start of a step reports, in time or not, at once or later.
StepStarted(i) ==
  /\ Up
  /\ i # Connector
  /\ UNCHANGED <<steps, keep, started, stop_vars, exit_vars>>
  /\ \E result, early \in BOOLEAN : Starts!Report(i, result, early)

\* Faulty: the start is given up when a step takes too long.
StartTimeoutVariant(i) ==
  /\ Up
  /\ i \in timer \ done
  /\ timer' = timer \ {i}
  /\ done' = done \cup {i}
  /\ finished' = finished + 1
  /\ UNCHANGED <<steps, keep, curr, allPassed, started, invoked, reports>>
  /\ UNCHANGED <<stop_vars, exit_vars>>

StartTimeout(i) ==
  /\ Up
  /\ UNCHANGED <<steps, keep, started, stop_vars, exit_vars>>
  /\ Starts!OnTimeout(i)

-----------------------------------------------------------------------------
\* Stop.

\* Faulty: the first step first.
StopOfVariant(i) == i

\* The step that job i of the queue of Module.stop stops: the last one first.
StopOf(i) == Len(stopKeep) + 1 - i

\* dispose of the frontier, with Module.stop: it stops the steps that there
\* are now, and what is still starting goes on.  A second one sets a timer
\* that ends the process.
DoDispose ==
  \/ /\ ~stopStarted
     /\ stopKeep' = AllSteps
     /\ Stops!Run
     /\ UNCHANGED forced
  \/ /\ stopStarted
     /\ forced' = TRUE
     /\ UNCHANGED stop_vars

Dispose ==
  /\ Up
  /\ DoDispose
  /\ UNCHANGED <<start_vars, interrupted, exited>>

\* The AppConnector has its answer.  isServerReady is never true, so that the
\* frontier is disposed of, and the step does not report.
ConnectorStarted ==
  /\ Up
  /\ Connector \in invoked
  /\ reports[Connector] = 0
  /\ reports' = [reports EXCEPT ![Connector] = 1]
  /\ DoDispose
  /\ UNCHANGED <<steps, keep, curr, allPassed, started, invoked, done, timer, finished>>
  /\ UNCHANGED <<interrupted, exited>>

\* SIGINT, or an exception: onCrash, then dispose, with a timer that ends the
\* process.  A second one ends it at once.
Interrupt ==
  /\ Up
  /\ \/ /\ ~interrupted
        /\ interrupted' = TRUE
        /\ DoDispose
        /\ UNCHANGED exited
     \/ /\ interrupted
        /\ exited' = TRUE
        /\ UNCHANGED <<stop_vars, interrupted, forced>>
  /\ UNCHANGED start_vars

\* The stop of a step reports, also more than once: each report moves the
\* queue on, whichever step it is of.
StepStopped(i) ==
  /\ Up
  /\ stopStarted
  /\ UNCHANGED <<start_vars, stopKeep, stopStarted, exit_vars>>
  /\ \E result \in BOOLEAN : Stops!Report(i, result, FALSE)

\* One of the timers that end the process.
ExitTimer ==
  /\ Up
  /\ interrupted \/ forced
  /\ exited' = TRUE
  /\ UNCHANGED <<start_vars, stop_vars, interrupted, forced>>

LifecycleNext ==
  \/ AddStep \/ Start \/ ConnectorStarted
  \/ Dispose \/ Interrupt \/ ExitTimer
  \/ \E i \in Job : StepStarted(i) \/ StartTimeout(i) \/ StepStopped(i)

Fairness ==
  /\ WF_all_vars(ExitTimer)
  /\ \A i \in Job : WF_all_vars(StartTimeout(i))

LifecycleSpec == LifecycleInit /\ [][LifecycleNext]_all_vars /\ Fairness

-----------------------------------------------------------------------------

\* A step that was added before the start was over is started, whatever the
\* steps before it do and however late they report.
AddedInTimeStarts ==
  \A i \in Job : started /\ finished = 0 /\ i <= steps ~> i \in invoked \/ ~Up

\* Modules are told that the server has started (onStart) when the start of
\* each step there is has been called, also when late reports make the queue
\* run ahead.
OnStartAfterCalls ==
  [][finished = 0 /\ finished' > 0 => 1 .. steps \subseteq invoked]_all_vars

\* The steps whose stop was called.
Stopped == {StopOf(j) : j \in stopInvoked}

\* Steps are told to stop in reverse, the last one first, and the stop does not
\* end the process before it has told each step that was started, unless the
\* step was added after the dispose.  Repeated reports make the stops of steps
\* overlap, and what is still starting goes on beside them; they skip none.
StopReachesStarted ==
  /\ \A i \in Stopped, k \in 1 .. Len(stopKeep) : k > i => k \in Stopped
  /\ stopFinished > 0 => invoked \cap 1 .. Len(stopKeep) \subseteq Stopped

=============================================================================
