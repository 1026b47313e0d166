------------------------------ MODULE JobQueue ------------------------------
(***************************************************************************)
(* The object-based job queue of core/job_queue.js.  Jobs are callbacks    *)
(* that report through onJobDone when they are done; a queue may have a    *)
(* timeout per job.  Each report, timer and call of add or run is one      *)
(* action.  A job that reports before it returns is one that reports next, *)
(* except that its timer is set after the report and so is not cleared.    *)
(* An operator that ends in "Variant" is a faulty version of the           *)
(* definition after it, kept to show that a property can fail.             *)
(***************************************************************************)
EXTENDS Naturals, Sequences, FiniteSets

CONSTANTS
  Timed,       \* whether the queue was created with a timeout
  Late,        \* whether a job may report again, or after its timeout
  MaxJobs,     \* bound: jobs added
  MaxReports   \* bound: reports a job makes

ASSUME ParameterAssumption ==
  /\ Timed \in BOOLEAN
  /\ Late \in BOOLEAN
  /\ MaxJobs \in Nat
  /\ MaxReports \in Nat

VARIABLES
  keep,        \* item.keep of each job in the queue
  curr,        \* index in the queue of the next job, counted from 0
  allPassed,   \* all_passed
  started,     \* run was called
  invoked,     \* jobs that were called (history)
  done,        \* jobs with item.done
  timer,       \* jobs whose timeout is pending
  reports,     \* reports made by each job
  finished     \* number of calls of the queue's onDone (history)

vars == <<keep, curr, allPassed, started, invoked, done, timer, reports,
          finished>>

Job == 1 .. MaxJobs

TypeOK ==
  /\ keep \in Seq(BOOLEAN) /\ Len(keep) <= MaxJobs
  /\ curr \in Nat
  /\ allPassed \in BOOLEAN
  /\ started \in BOOLEAN
  /\ invoked \in SUBSET Job
  /\ done \in SUBSET Job
  /\ timer \in SUBSET Job
  /\ reports \in [Job -> 0 .. MaxReports]
  /\ finished \in Nat

Init ==
  /\ keep = << >>
  /\ curr = 0
  /\ allPassed = TRUE
  /\ started = FALSE
  /\ invoked = {}
  /\ done = {}
  /\ timer = {}
  /\ reports = [i \in Job |-> 0]
  /\ finished = 0

-----------------------------------------------------------------------------

\* add(step, keep_execute): at any time, also while jobs run or after them.
Add(k) ==
  /\ Len(keep) < MaxJobs
  /\ keep' = Append(keep, k)
  /\ UNCHANGED <<curr, allPassed, started, invoked, done, timer, reports,
                 finished>>

\* next(), with curr = n: call the job at n and set its timer, or call onDone
\* when there is none.  The timers in cleared are cleared before.
UntimedVariant(n, cleared) ==
  /\ timer' = timer \ cleared
  /\ IF n < Len(keep)
       THEN invoked' = invoked \cup {n + 1} /\ UNCHANGED finished
       ELSE finished' = finished + 1 /\ UNCHANGED invoked
NextJob(n, cleared) ==
  IF n < Len(keep)
    THEN /\ invoked' = invoked \cup {n + 1}
         /\ timer' = (timer \ cleared) \cup (IF Timed THEN {n + 1} ELSE {})
         /\ UNCHANGED finished
    ELSE /\ finished' = finished + 1
         /\ timer' = timer \ cleared
         /\ UNCHANGED invoked

\* run(onDone): once.
Run ==
  /\ ~ started
  /\ started' = TRUE
  /\ NextJob(0, {})
  /\ UNCHANGED <<keep, curr, allPassed, done, reports>>

\* onJobDone(result) of job i: a failed showstopper ends the run, otherwise
\* curr moves on, whichever job it was that reported.
OnJobDone(i, result, cleared) ==
  /\ done' = done \cup {i}
  /\ allPassed' = (allPassed /\ result)
  /\ IF ~ result /\ ~ keep[i]
       THEN /\ finished' = finished + 1
            /\ timer' = timer \ cleared
            /\ UNCHANGED <<curr, invoked>>
       ELSE /\ curr' = curr + 1
            /\ NextJob(curr + 1, cleared)

\* A job that was called reports; early, when it has not returned yet.
Report(i, result, early) ==
  /\ i \in invoked
  /\ reports[i] < MaxReports
  /\ i \in done => Late
  /\ early => Timed /\ i = curr + 1 /\ i \notin done
  /\ reports' = [reports EXCEPT ![i] = @ + 1]
  /\ OnJobDone(i, result, IF early THEN {} ELSE {i})
  /\ UNCHANGED <<keep, started>>

\* onTimeout: a job that has not reported is taken to have failed.
OnTimeoutVariant(i) ==
  /\ i \in timer
  /\ OnJobDone(i, FALSE, {i})
  /\ UNCHANGED <<keep, started, reports>>
OnTimeout(i) ==
  /\ i \in timer
  /\ IF i \notin done
       THEN OnJobDone(i, FALSE, {i})
       ELSE /\ timer' = timer \ {i}
            /\ UNCHANGED <<curr, allPassed, invoked, done, finished>>
  /\ UNCHANGED <<keep, started, reports>>

-----------------------------------------------------------------------------

Next ==
  \/ \E k \in BOOLEAN : Add(k)
  \/ Run
  \/ \E i \in Job, result, early \in BOOLEAN : Report(i, result, early)
  \/ \E i \in Job : OnTimeout(i)

Spec == Init /\ [][Next]_vars

\* Timers go off; nothing is assumed of the jobs.
FairSpec == Spec /\ \A i \in Job : WF_vars(OnTimeout(i))

-----------------------------------------------------------------------------
(* Properties, of queues whose jobs report once and in time (~ Late) unless *)
(* a comment says otherwise.                                                *)

InProgress == invoked \ done

\* job_queue.js 152, "execute all jobs in the queue sequentially": a job is
\* called only when every job before it is done, and the one in progress is
\* the one curr points at.
Sequential ==
  /\ invoked \subseteq 1 .. curr + 1
  /\ InProgress \subseteq {curr + 1}

\* onDone is called once at most, and no job is in progress by then.
FinishedOnce ==
  /\ finished <= 1
  /\ finished = 1 => InProgress = {}

\* While the run is not over some job is in progress, so that the run can
\* only stall in a job; in a timed queue that job's timer is pending.
NeverIdle ==
  (started /\ finished = 0)
    => /\ InProgress # {}
       /\ Timed => InProgress \subseteq timer

\* job_queue.js 135, "if this job fails, the rest of jobs won't execute": no
\* job is called when a showstopper fails, or after one has ended the run.
StopperFails ==
  \E i \in InProgress : i \in done' /\ ~ keep[i] /\ allPassed /\ ~ allPassed'
StopperFailed ==
  started /\ finished > 0 /\ curr < Len(keep) /\ curr + 1 \in done
ShowstopperStops ==
  [][StopperFails \/ StopperFailed => invoked' = invoked]_vars

\* A timed queue that was started calls its onDone, whatever its jobs do.
RunEnds == started ~> finished > 0

\* The queue implements the sequence of jobs it promises.
Sequence == INSTANCE JobSequence WITH
  keep <- keep,
  position <- curr,
  state <- CASE ~ started -> "idle"
             [] started /\ finished = 0 -> "running"
             [] OTHER -> "over",
  passed <- allPassed
ImplementsSequence == Sequence!Spec

=============================================================================
