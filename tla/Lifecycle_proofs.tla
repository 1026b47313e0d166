-------------------------- MODULE Lifecycle_proofs --------------------------
(***************************************************************************)
(* Proofs about JobQueue for jobs that report once and in time (~ Late),   *)
(* for any number of jobs, with and without a timeout, and about Lifecycle *)
(* for any number of steps, with and without a connector among them.       *)
(***************************************************************************)
EXTENDS Lifecycle, SequenceTheorems, TLAPS

(* The job queue.                                                          *)

\* The queue is where curr says: before the run nothing has happened, during
\* it exactly the job at curr is in progress, after it none is.
Position ==
  /\ curr <= Len(keep)
  /\ ~ started => /\ curr = 0 /\ finished = 0
                  /\ invoked = {} /\ done = {}
  /\ (started /\ finished = 0) => /\ curr < Len(keep)
                                  /\ invoked = 1 .. curr + 1
                                  /\ done = 1 .. curr
  /\ finished > 0 => /\ started /\ finished = 1
                     /\ invoked = done /\ invoked \subseteq 1 .. curr + 1

\* Only jobs that were called have a timer, and the one in progress has one.
TimersKnown ==
  /\ timer \subseteq invoked
  /\ Timed => InProgress \subseteq timer

IndInv == TypeOK /\ Position /\ TimersKnown

USE DEF Job, InProgress

LEMMA InitInv == Init => IndInv
<1> SUFFICES ASSUME Init PROVE IndInv
  OBVIOUS
<1>1. keep \in Seq(BOOLEAN) /\ Len(keep) = 0
  BY EmptySeq DEF Init
<1>2. TypeOK
  <2>1. reports \in [Job -> 0 .. MaxReports]
    BY ParameterAssumption DEF Init
  <2>2. curr \in Nat /\ finished \in Nat /\ Len(keep) <= MaxJobs
    BY <1>1, ParameterAssumption DEF Init
  <2>3. invoked \in SUBSET Job /\ done \in SUBSET Job /\ timer \in SUBSET Job
    BY DEF Init
  <2>4. allPassed \in BOOLEAN /\ started \in BOOLEAN
    BY Zenon DEF Init
  <2> QED BY <1>1, <2>1, <2>2, <2>3, <2>4 DEF TypeOK
<1>3. Position
  BY <1>1 DEF Init, Position
<1>4. TimersKnown
  BY DEF Init, TimersKnown
<1> QED BY <1>2, <1>3, <1>4 DEF IndInv

\* A job is added.
LEMMA AddInv ==
  ASSUME IndInv, NEW k \in BOOLEAN, Add(k)
  PROVE  IndInv'
<1>1. keep' \in Seq(BOOLEAN) /\ Len(keep') = Len(keep) + 1
  BY AppendProperties DEF IndInv, TypeOK, Add
<1>2. TypeOK'
  BY <1>1, ParameterAssumption DEF IndInv, TypeOK, Add
<1>3. Position' /\ TimersKnown'
  BY <1>1, LenProperties DEF IndInv, TypeOK, Position, TimersKnown, Add
<1> QED BY <1>2, <1>3 DEF IndInv

\* The run starts.
LEMMA RunStep ==
  ASSUME IndInv, Run
  PROVE  IndInv'
<1>0. /\ Len(keep) \in Nat /\ Len(keep) <= MaxJobs
      /\ curr = 0 /\ finished = 0 /\ invoked = {} /\ done = {} /\ timer = {}
      /\ started' /\ NextJob(0, {})
      /\ UNCHANGED <<keep, curr, allPassed, done, reports>>
  BY LenProperties DEF IndInv, TypeOK, Position, TimersKnown, Run
<1>1. CASE 0 < Len(keep)
  <2>1. invoked' = {1} /\ timer' \subseteq {1} /\ (Timed => timer' = {1})
        /\ finished' = 0
    BY <1>0, <1>1 DEF NextJob
  <2>2. TypeOK'
    BY <1>0, <1>1, <2>1, ParameterAssumption DEF IndInv, TypeOK, Run
  <2>3. Position'
    BY <1>0, <1>1, <2>1 DEF Position
  <2>4. TimersKnown'
    BY <1>0, <2>1 DEF TimersKnown
  <2> QED BY <2>2, <2>3, <2>4 DEF IndInv
<1>2. CASE ~ 0 < Len(keep)
  <2>1. invoked' = {} /\ timer' = {} /\ finished' = 1
    BY <1>0, <1>2 DEF NextJob
  <2>2. TypeOK'
    BY <1>0, <2>1, ParameterAssumption DEF IndInv, TypeOK, Run
  <2>3. Position'
    BY <1>0, <2>1 DEF Position
  <2>4. TimersKnown'
    BY <1>0, <2>1 DEF TimersKnown
  <2> QED BY <2>2, <2>3, <2>4 DEF IndInv
<1> QED BY <1>1, <1>2

\* The job in progress is over, by its report or by its timeout.
LEMMA OverStep ==
  ASSUME IndInv, NEW i \in invoked \ done, NEW result \in BOOLEAN,
         NEW cleared \in SUBSET {i},
         OnJobDone(i, result, cleared),
         reports' \in [Job -> 0 .. MaxReports],
         UNCHANGED <<keep, started>>
  PROVE  IndInv'
<1>0. /\ Len(keep) \in Nat /\ Len(keep) <= MaxJobs /\ curr \in Nat
      /\ keep \in Seq(BOOLEAN) /\ keep' = keep
      /\ timer \in SUBSET Job
  BY LenProperties DEF IndInv, TypeOK
<1>1. /\ started /\ started' /\ finished = 0
      /\ i = curr + 1 /\ curr < Len(keep)
      /\ invoked = 1 .. curr + 1 /\ done = 1 .. curr /\ timer \subseteq invoked
  BY <1>0 DEF IndInv, TypeOK, Position, TimersKnown
<1>2. /\ done' = 1 .. curr + 1 /\ done' \subseteq Job
      /\ allPassed' \in BOOLEAN
      /\ started' \in BOOLEAN
  BY <1>0, <1>1, ParameterAssumption DEF OnJobDone, IndInv, TypeOK
<1>3. CASE ~ result /\ ~ keep[i]
  <2>1. /\ finished' = 1 /\ curr' = curr /\ invoked' = 1 .. curr + 1
        /\ timer' \subseteq timer
    BY <1>1, <1>3 DEF OnJobDone
  <2>2. TypeOK'
    BY <1>0, <1>1, <1>2, <2>1, ParameterAssumption DEF IndInv, TypeOK
  <2>3. Position'
    BY <1>0, <1>1, <1>2, <2>1 DEF Position
  <2>4. TimersKnown'
    BY <1>1, <1>2, <2>1 DEF TimersKnown
  <2> QED BY <2>2, <2>3, <2>4 DEF IndInv
<1>4. CASE ~ (~ result /\ ~ keep[i]) /\ curr + 1 < Len(keep)
  <2>1. /\ finished' = 0 /\ curr' = curr + 1 /\ invoked' = 1 .. curr + 2
        /\ timer' \subseteq timer \cup {curr + 2}
        /\ Timed => curr + 2 \in timer'
    <3>1. /\ finished' = finished /\ curr' = curr + 1
          /\ invoked' = invoked \cup {(curr + 1) + 1}
          /\ timer' = (timer \ cleared)
                       \cup (IF Timed THEN {(curr + 1) + 1} ELSE {})
      BY <1>4 DEF OnJobDone, NextJob
    <3> QED BY <1>0, <1>1, <3>1
  <2>2. TypeOK'
    <3>1. curr + 2 \in Job /\ invoked' \in SUBSET Job
      BY <1>0, <1>4, <2>1, ParameterAssumption
    <3>2. timer' \in SUBSET Job
      BY <1>0, <2>1, <3>1
    <3>3. curr' \in Nat /\ finished' \in Nat
      BY <1>0, <2>1
    <3> QED BY <1>0, <1>2, <3>1, <3>2, <3>3 DEF TypeOK
  <2>3. Position'
    BY <1>0, <1>1, <1>2, <1>4, <2>1 DEF Position
  <2>4. TimersKnown'
    BY <1>0, <1>1, <1>2, <2>1 DEF TimersKnown
  <2> QED BY <2>2, <2>3, <2>4 DEF IndInv
<1>5. CASE ~ (~ result /\ ~ keep[i]) /\ ~ curr + 1 < Len(keep)
  <2>1. /\ finished' = 1 /\ curr' = curr + 1 /\ invoked' = 1 .. curr + 1
        /\ timer' \subseteq timer
    BY <1>0, <1>1, <1>5 DEF OnJobDone, NextJob
  <2>2. TypeOK'
    BY <1>0, <1>1, <1>2, <2>1, ParameterAssumption DEF IndInv, TypeOK
  <2>3. Position'
    BY <1>0, <1>1, <1>2, <1>5, <2>1 DEF Position
  <2>4. TimersKnown'
    BY <1>1, <1>2, <2>1 DEF TimersKnown
  <2> QED BY <2>2, <2>3, <2>4 DEF IndInv
<1> QED BY <1>3, <1>4, <1>5

LEMMA NextInv ==
  ASSUME ~ Late, IndInv, [Next]_vars
  PROVE  IndInv'
<1>1. ASSUME NEW k \in BOOLEAN, Add(k) PROVE IndInv'
  BY <1>1, AddInv
<1>2. CASE Run
  BY <1>2, RunStep
<1>3. ASSUME NEW i \in Job, NEW result \in BOOLEAN, NEW early \in BOOLEAN,
             Report(i, result, early)
      PROVE  IndInv'
  <2>1. i \in invoked \ done
    BY <1>3 DEF Report
  <2>2. reports' \in [Job -> 0 .. MaxReports]
    BY <1>3, ParameterAssumption DEF Report, IndInv, TypeOK
  <2> QED BY <1>3, <2>1, <2>2, OverStep DEF Report
<1>4. ASSUME NEW i \in Job, OnTimeout(i) PROVE IndInv'
  <2>1. CASE i \notin done
    <3>1. i \in invoked \ done
      BY <1>4, <2>1 DEF OnTimeout, IndInv, TimersKnown
    <3>2. OnJobDone(i, FALSE, {i}) /\ UNCHANGED <<keep, started, reports>>
      BY <1>4, <2>1 DEF OnTimeout
    <3>3. reports' \in [Job -> 0 .. MaxReports]
      BY <3>2 DEF IndInv, TypeOK
    <3> QED BY <3>1, <3>2, <3>3, OverStep
  <2>2. CASE i \in done
    <3>1. /\ timer' = timer \ {i}
          /\ UNCHANGED <<keep, curr, allPassed, started, invoked, done,
                         reports, finished>>
      BY <1>4, <2>2 DEF OnTimeout
    <3>2. TypeOK'
      BY <3>1 DEF IndInv, TypeOK
    <3>3. Position' /\ TimersKnown'
      BY <2>2, <3>1 DEF IndInv, Position, TimersKnown
    <3> QED BY <3>2, <3>3 DEF IndInv
  <2> QED BY <2>1, <2>2
<1>5. CASE UNCHANGED vars
  BY <1>5 DEF vars, IndInv, TypeOK, Position, TimersKnown
<1> QED BY <1>1, <1>2, <1>3, <1>4, <1>5 DEF Next

LEMMA Invariant == ASSUME ~ Late PROVE Spec => []IndInv
BY InitInv, NextInv, PTL DEF Spec

\* The state of the queue keeps its types.
THEOREM TypeCorrect == ASSUME ~ Late PROVE Spec => []TypeOK
BY Invariant, PTL DEF IndInv

\* Jobs run one after the other, in the order of the queue.
THEOREM RunsSequentially == ASSUME ~ Late PROVE Spec => []Sequential
<1>1. IndInv => Sequential
  BY LenProperties DEF IndInv, TypeOK, Position, Sequential
<1> QED BY <1>1, Invariant, PTL

\* onDone is called once at most, when no job is in progress.
THEOREM FinishesOnce == ASSUME ~ Late PROVE Spec => []FinishedOnce
<1>1. IndInv => FinishedOnce
  BY DEF IndInv, TypeOK, Position, FinishedOnce
<1> QED BY <1>1, Invariant, PTL

\* The run stalls in a job only, and under a timer if the queue has timers.
THEOREM StallsInJobsOnly == ASSUME ~ Late PROVE Spec => []NeverIdle
<1>1. IndInv => NeverIdle
  <2> SUFFICES ASSUME IndInv, started, finished = 0
               PROVE  /\ InProgress # {}
                      /\ Timed => InProgress \subseteq timer
    BY DEF NeverIdle
  <2>1. curr + 1 \in invoked \ done
    BY DEF IndInv, TypeOK, Position
  <2> QED BY <2>1 DEF IndInv, TimersKnown
<1> QED BY <1>1, Invariant, PTL

\* No job is called in the step in which a showstopper fails, nor later.
LEMMA StopperStep ==
  ASSUME ~ Late, IndInv, [Next]_vars, StopperFails \/ StopperFailed
  PROVE  invoked' = invoked
<1>1. ASSUME NEW i \in invoked \ done, NEW result \in BOOLEAN,
             NEW cleared \in SUBSET {i}, OnJobDone(i, result, cleared)
      PROVE  invoked' = invoked
  <2>1. finished = 0 /\ invoked \ done = {curr + 1} /\ i = curr + 1
    BY DEF IndInv, TypeOK, Position
  <2>2. ~ StopperFailed
    BY <2>1 DEF StopperFailed
  <2>3. ~ keep[i] /\ ~ result
    BY <1>1, <2>1, <2>2, Zenon DEF StopperFails, OnJobDone
  <2> QED BY <1>1, <2>3 DEF OnJobDone
<1>2. ASSUME NEW k \in BOOLEAN, Add(k) PROVE invoked' = invoked
  BY <1>2 DEF Add
<1>3. CASE Run
  <2>1. ~ StopperFails /\ ~ StopperFailed
    BY <1>3 DEF StopperFails, StopperFailed, Run, IndInv, Position
  <2> QED BY <2>1
<1>4. ASSUME NEW i \in Job, NEW result \in BOOLEAN, NEW early \in BOOLEAN,
             Report(i, result, early)
      PROVE  invoked' = invoked
  BY <1>1, <1>4 DEF Report
<1>5. ASSUME NEW i \in Job, OnTimeout(i) PROVE invoked' = invoked
  <2>1. CASE i \notin done
    <3>1. i \in invoked \ done /\ OnJobDone(i, FALSE, {i})
      BY <1>5, <2>1 DEF OnTimeout, IndInv, TimersKnown
    <3> QED BY <1>1, <3>1
  <2>2. CASE i \in done
    BY <1>5, <2>2 DEF OnTimeout
  <2> QED BY <2>1, <2>2
<1> QED BY <1>2, <1>3, <1>4, <1>5 DEF Next, vars

\* When a job added with keep_execute false fails, no later job is called.
THEOREM StopperTheorem == ASSUME ~ Late PROVE Spec => ShowstopperStops
BY StopperStep, Invariant, PTL DEF Spec, ShowstopperStops

-----------------------------------------------------------------------------

\* The abstract state of the run.
RunState == CASE ~ started -> "idle"
              [] started /\ finished = 0 -> "running"
              [] OTHER -> "over"

LEMMA SequenceInit == Init => Sequence!Init
BY DEF Init, Sequence!Init

\* A job that is over is an abstract Finish.
LEMMA SequenceFinish ==
  ASSUME IndInv, NEW i \in invoked \ done, NEW result \in BOOLEAN,
         NEW cleared \in SUBSET {i},
         OnJobDone(i, result, cleared), UNCHANGED <<keep, started>>
  PROVE  Sequence!Finish(result)
<1>1. /\ started /\ started' /\ finished = 0 /\ i = curr + 1
      /\ curr \in Nat /\ Len(keep) \in Nat
  BY LenProperties DEF IndInv, TypeOK, Position
<1>2. RunState = "running"
  BY <1>1 DEF RunState
<1>3. allPassed' = (allPassed /\ result)
  BY DEF OnJobDone
<1>4. CASE ~ result /\ ~ keep[i]
  <2>1. finished' = 1 /\ curr' = curr
    BY <1>1, <1>4 DEF OnJobDone
  <2>2. RunState' = "over"
    BY <1>1, <2>1 DEF RunState
  <2> QED BY <1>1, <1>2, <1>3, <1>4, <2>1, <2>2 DEF Sequence!Finish, RunState
<1>5. CASE result \/ keep[i]
  <2>1. curr' = curr + 1
        /\ finished' = IF curr + 1 < Len(keep) THEN 0 ELSE 1
    BY <1>1, <1>5 DEF OnJobDone, NextJob
  <2>2. RunState' = IF curr + 1 < Len(keep) THEN "running" ELSE "over"
    BY <1>1, <2>1 DEF RunState
  <2> QED BY <1>1, <1>2, <1>3, <1>5, <2>1, <2>2
          DEF Sequence!Finish, Sequence!Goes, RunState
<1> QED BY <1>4, <1>5

LEMMA SequenceStep ==
  ASSUME ~ Late, IndInv, [Next]_vars
  PROVE  [Sequence!Next]_(Sequence!vars)
<1>1. ASSUME NEW k \in BOOLEAN, Add(k) PROVE Sequence!Next
  <2>1. Sequence!Enlist(k)
    BY <1>1 DEF Add, Sequence!Enlist
  <2> QED BY <2>1 DEF Sequence!Next
<1>2. CASE Run
  <2>1. /\ ~ started /\ started' /\ curr = 0 /\ finished = 0
        /\ Len(keep) \in Nat
        /\ finished' = IF 0 < Len(keep) THEN 0 ELSE 1
        /\ UNCHANGED <<keep, curr, allPassed>>
    BY <1>2, LenProperties
    DEF Run, NextJob, IndInv, TypeOK, Position
  <2>2. RunState = "idle"
        /\ RunState' = IF 0 < Len(keep) THEN "running" ELSE "over"
    BY <2>1 DEF RunState
  <2>3. Sequence!Begin
    BY <2>1, <2>2 DEF Sequence!Begin, Sequence!Goes, RunState
  <2> QED BY <2>3 DEF Sequence!Next
<1>3. ASSUME NEW i \in Job, NEW result \in BOOLEAN, NEW early \in BOOLEAN,
             Report(i, result, early)
      PROVE  Sequence!Next
  <2>1. Sequence!Finish(result)
    BY <1>3, SequenceFinish DEF Report
  <2> QED BY <2>1 DEF Sequence!Next
<1>4. ASSUME NEW i \in Job, OnTimeout(i) PROVE [Sequence!Next]_(Sequence!vars)
  <2>1. CASE i \notin done
    <3>1. /\ i \in invoked \ done /\ OnJobDone(i, FALSE, {i})
          /\ UNCHANGED <<keep, started>>
      BY <1>4, <2>1 DEF OnTimeout, IndInv, TimersKnown
    <3>2. Sequence!Finish(FALSE)
      BY <3>1, SequenceFinish
    <3> QED BY <3>2 DEF Sequence!Next
  <2>2. CASE i \in done
    BY <1>4, <2>2 DEF OnTimeout, Sequence!vars
  <2> QED BY <2>1, <2>2
<1>5. CASE UNCHANGED vars
  BY <1>5 DEF vars, Sequence!vars
<1> QED BY <1>1, <1>2, <1>3, <1>4, <1>5 DEF Next

\* The queue runs its jobs as the abstract sequence does.
THEOREM Refinement == ASSUME ~ Late PROVE Spec => ImplementsSequence
BY SequenceInit, SequenceStep, Invariant, PTL
DEF Spec, ImplementsSequence, Sequence!Spec

-----------------------------------------------------------------------------
(* The life cycle: the start.                                              *)

\* The queue holds the steps that there are, and the start of each step up to
\* the one at curr was called, whichever of them have reported.
StartInv ==
  /\ steps \in 0 .. MaxJobs
  /\ keep \in Seq(BOOLEAN) /\ curr \in Nat /\ finished \in Nat
  /\ started \in BOOLEAN
  /\ timer \subseteq invoked
  /\ ~ started => /\ curr = 0 /\ finished = 0 /\ invoked = {}
  /\ started => /\ Len(keep) = steps
                /\ \A i \in 1 .. steps : keep[i]
                /\ invoked \subseteq 1 .. steps
  /\ started /\ finished = 0 => curr < steps /\ 1 .. curr + 1 \subseteq invoked

\* onDone is called when the start of each step was called.
EndsComplete == finished = 0 /\ finished' > 0 => 1 .. steps \subseteq invoked

LEMMA AllStepsValues ==
  ASSUME steps \in Nat
  PROVE  /\ AllSteps \in Seq(BOOLEAN) /\ Len(AllSteps) = steps
         /\ \A i \in 1 .. steps : AllSteps[i]
<1>1. AllSteps \in [1 .. steps -> BOOLEAN]
  BY DEF AllSteps
<1> QED BY <1>1 DEF AllSteps

LEMMA StartInit == LifecycleInit => StartInv
<1> SUFFICES ASSUME LifecycleInit PROVE StartInv
  OBVIOUS
<1>1. /\ steps = 0 /\ keep = << >> /\ keep \in Seq(BOOLEAN) /\ 0 \in 0 .. MaxJobs
      /\ curr = 0 /\ finished = 0 /\ invoked = {} /\ timer = {}
  BY EmptySeq, ParameterAssumption DEF LifecycleInit, Init
<1>2. ~ started /\ started \in BOOLEAN
  BY Zenon DEF LifecycleInit, Init
<1> QED BY <1>1, <1>2 DEF StartInv

\* A step reports, in time or late, or its time is over: since no step is a
\* showstopper the queue moves on.
LEMMA StartOverStep ==
  ASSUME StartInv, started, NEW i \in invoked, NEW result \in BOOLEAN,
         NEW cleared \in SUBSET {i},
         Starts!OnJobDone(i, result, cleared),
         UNCHANGED <<steps, keep, started>>
  PROVE  StartInv' /\ EndsComplete
<1>1. /\ steps \in Nat /\ curr \in Nat /\ finished \in Nat /\ Len(keep) = steps
      /\ i \in 1 .. steps /\ keep[i]
  BY ParameterAssumption DEF StartInv
<1>2. /\ curr' = curr + 1
      /\ Starts!NextJob(curr + 1, cleared)
  BY <1>1 DEF Starts!OnJobDone
<1>3. CASE curr + 1 < steps
  <2>1. /\ invoked' = invoked \cup {curr + 2} /\ finished' = finished
        /\ timer' \subseteq timer \cup {curr + 2}
    BY <1>1, <1>2, <1>3 DEF Starts!NextJob
  <2> QED BY <1>1, <1>2, <1>3, <2>1 DEF StartInv, EndsComplete
<1>4. CASE ~ curr + 1 < steps
  <2>1. /\ invoked' = invoked /\ finished' = finished + 1 /\ timer' \subseteq timer
    BY <1>1, <1>2, <1>4 DEF Starts!NextJob
  <2> QED BY <1>1, <1>2, <1>4, <2>1 DEF StartInv, EndsComplete
<1> QED BY <1>3, <1>4

LEMMA StartAddStep ==
  ASSUME StartInv, AddStep
  PROVE  StartInv' /\ EndsComplete
<1>1. /\ steps < MaxJobs /\ steps' = steps + 1 /\ steps \in Nat
      /\ keep' = IF started THEN Append(keep, TRUE) ELSE keep
      /\ UNCHANGED <<curr, started, invoked, timer, finished>>
  BY ParameterAssumption DEF AddStep, StartInv
<1>2. CASE started
  <2>1. /\ keep' \in Seq(BOOLEAN) /\ Len(keep') = steps + 1
        /\ \A i \in 1 .. steps : keep'[i] = keep[i]
        /\ keep'[steps + 1] = TRUE
    <3>1. keep \in Seq(BOOLEAN) /\ keep' = Append(keep, TRUE) /\ Len(keep) = steps
      BY <1>1, <1>2 DEF StartInv
    <3>2. ASSUME NEW b \in BOOLEAN
          PROVE  /\ Append(keep, b) \in Seq(BOOLEAN) /\ Len(Append(keep, b)) = Len(keep) + 1
                 /\ \A i \in 1 .. Len(keep) : Append(keep, b)[i] = keep[i]
                 /\ Append(keep, b)[Len(keep) + 1] = b
      BY <3>1, AppendProperties
    <3> QED BY <3>1, <3>2
  <2>2. \A i \in 1 .. steps + 1 : keep'[i]
    <3> SUFFICES ASSUME NEW i \in 1 .. steps + 1 PROVE keep'[i]
      OBVIOUS
    <3>1. CASE i = steps + 1
      BY <2>1, <3>1
    <3>2. CASE i # steps + 1
      <4>1. i \in 1 .. steps
        BY <1>1, <3>2
      <4> QED BY <1>2, <2>1, <4>1 DEF StartInv
    <3> QED BY <3>1, <3>2
  <2> QED BY <1>1, <1>2, <2>1, <2>2, ParameterAssumption DEF StartInv, EndsComplete
<1>3. CASE ~ started
  BY <1>1, <1>3, ParameterAssumption DEF StartInv, EndsComplete
<1> QED BY <1>2, <1>3

LEMMA StartStart ==
  ASSUME StartInv, Start
  PROVE  StartInv' /\ EndsComplete
<1>1. /\ steps \in Nat /\ steps' = steps /\ keep' = AllSteps
      /\ ~ started /\ started' /\ started' \in BOOLEAN
      /\ curr = 0 /\ finished = 0 /\ invoked = {} /\ timer = {} /\ curr' = curr
      /\ Starts!NextJob(0, {})
  BY ParameterAssumption DEF Start, Starts!Run, StartInv
<1>2. /\ keep' \in Seq(BOOLEAN) /\ Len(keep') = steps
      /\ \A i \in 1 .. steps : keep'[i]
      /\ Len(AllSteps) = steps
  BY <1>1, AllStepsValues
<1>3. CASE 0 < steps
  <2>1. invoked' = {1} /\ timer' \subseteq {1} /\ finished' = 0
    BY <1>1, <1>2, <1>3 DEF Starts!NextJob
  <2> QED BY <1>1, <1>2, <1>3, <2>1 DEF StartInv, EndsComplete
<1>4. CASE ~ 0 < steps
  <2>1. invoked' = {} /\ timer' = {} /\ finished' = 1
    BY <1>1, <1>2, <1>4 DEF Starts!NextJob
  <2> QED BY <1>1, <1>2, <1>4, <2>1 DEF StartInv, EndsComplete
<1> QED BY <1>3, <1>4

\* Everything else leaves the queue of the start alone, but for reports.
LEMMA StartUnchanged ==
  ASSUME StartInv, UNCHANGED <<steps, keep, curr, started, invoked, finished>>,
         timer' \subseteq timer
  PROVE  StartInv' /\ EndsComplete
BY DEF StartInv, EndsComplete

LEMMA StartNext ==
  ASSUME StartInv, [LifecycleNext]_all_vars
  PROVE  StartInv' /\ EndsComplete
<1>1. CASE AddStep
  BY <1>1, StartAddStep
<1>2. CASE Start
  BY <1>2, StartStart
<1>3. ASSUME NEW i \in Job, StepStarted(i)
      PROVE  StartInv' /\ EndsComplete
  <2>1. PICK result \in BOOLEAN, early \in BOOLEAN : Starts!Report(i, result, early)
    BY <1>3 DEF StepStarted
  <2>2. /\ i \in invoked /\ started
        /\ Starts!OnJobDone(i, result, IF early THEN {} ELSE {i})
        /\ UNCHANGED <<steps, keep, started>>
    BY <1>3, <2>1 DEF StepStarted, Starts!Report, StartInv
  <2>3. (IF early THEN {} ELSE {i}) \in SUBSET {i}
    OBVIOUS
  <2> QED BY <2>2, <2>3, StartOverStep
<1>4. ASSUME NEW i \in Job, StartTimeout(i)
      PROVE  StartInv' /\ EndsComplete
  <2>1. /\ i \in timer /\ i \in invoked /\ started
        /\ UNCHANGED <<steps, keep, started>>
        /\ Starts!OnTimeout(i)
    BY <1>4 DEF StartTimeout, Starts!OnTimeout, StartInv
  <2>2. CASE i \notin done
    <3>1. Starts!OnJobDone(i, FALSE, {i})
      BY <2>1, <2>2 DEF Starts!OnTimeout
    <3> QED BY <2>1, <3>1, StartOverStep
  <2>3. CASE i \in done
    BY <2>1, <2>3, StartUnchanged DEF Starts!OnTimeout
  <2> QED BY <2>2, <2>3
<1>5. ASSUME \/ ConnectorStarted \/ Dispose \/ Interrupt \/ ExitTimer
             \/ \E i \in Job : StepStopped(i)
             \/ UNCHANGED all_vars
      PROVE  StartInv' /\ EndsComplete
  BY <1>5, StartUnchanged DEF ConnectorStarted, Dispose, Interrupt, ExitTimer, StepStopped,
                              all_vars, start_vars, vars
<1> QED BY <1>1, <1>2, <1>3, <1>4, <1>5 DEF LifecycleNext

\* Modules are told that the server has started only when the start of each
\* step that there is has been called, however late steps report.
THEOREM OnStartComplete == LifecycleSpec => OnStartAfterCalls
<1>1. StartInv /\ [LifecycleNext]_all_vars =>
        StartInv' /\ [finished = 0 /\ finished' > 0 => 1 .. steps \subseteq invoked]_all_vars
  BY StartNext DEF EndsComplete
<1> QED BY <1>1, StartInit, PTL DEF LifecycleSpec, OnStartAfterCalls

-----------------------------------------------------------------------------
(* The life cycle: the stop.                                               *)

\* The stop queue calls the job at stopCurr and has called all before it,
\* whatever number of reports has moved it there.
StopInv ==
  /\ stopCurr \in Nat /\ stopKeep \in Seq(BOOLEAN) /\ stopFinished \in Nat
  /\ stopStarted \in BOOLEAN
  /\ \A i \in 1 .. Len(stopKeep) : stopKeep[i]
  /\ ~ stopStarted => stopKeep = << >> /\ stopCurr = 0 /\ stopFinished = 0
  /\ ~ stopStarted => stopInvoked = {}
  /\ stopStarted => stopInvoked = {i \in 1 .. Len(stopKeep) : i <= stopCurr + 1}
  /\ stopFinished > 0 => stopStarted /\ stopCurr >= Len(stopKeep)

LEMMA StopInit == LifecycleInit => StopInv
<1> SUFFICES ASSUME LifecycleInit PROVE StopInv
  OBVIOUS
<1>1. /\ stopCurr = 0 /\ stopKeep = << >> /\ stopInvoked = {} /\ stopFinished = 0
      /\ stopKeep \in Seq(BOOLEAN) /\ Len(stopKeep) = 0
  BY EmptySeq DEF LifecycleInit, Stops!Init
<1>2. stopStarted \in BOOLEAN /\ ~ stopStarted
  BY Zenon DEF LifecycleInit
<1> QED BY <1>1, <1>2 DEF StopInv

LEMMA StopDispose ==
  ASSUME StopInv, StartInv, DoDispose
  PROVE  StopInv'
<1>1. CASE ~ stopStarted /\ stopKeep' = AllSteps /\ Stops!Run
  <2>1. /\ stopCurr = 0 /\ stopInvoked = {} /\ stopCurr' = 0 /\ stopFinished = 0
        /\ stopStarted' \in BOOLEAN /\ stopStarted'
        /\ Stops!NextJob(0, {})
        /\ stopKeep' \in Seq(BOOLEAN) /\ stopKeep' = AllSteps
        /\ Len(AllSteps) = steps /\ steps \in Nat
        /\ \A i \in 1 .. steps : AllSteps[i]
    BY <1>1, AllStepsValues, ParameterAssumption DEF StopInv, StartInv, Stops!Run
  <2>2. CASE 0 < steps
    <3>1. stopInvoked' = {1} /\ stopFinished' = 0
      BY <1>1, <2>1, <2>2 DEF Stops!NextJob
    <3>2. stopInvoked' = {i \in 1 .. steps : i <= stopCurr' + 1}
      BY <2>1, <2>2, <3>1
    <3> QED BY <2>1, <3>1, <3>2 DEF StopInv
  <2>3. CASE steps = 0
    <3>1. stopInvoked' = {} /\ stopFinished' = 1
      BY <1>1, <2>1, <2>3 DEF Stops!NextJob
    <3> QED BY <2>1, <2>3, <3>1 DEF StopInv
  <2> QED BY <2>1, <2>2, <2>3
<1>2. CASE UNCHANGED stop_vars
  BY <1>2 DEF StopInv, stop_vars
<1> QED BY <1>1, <1>2 DEF DoDispose

\* Whichever job it is that reports, and however often, the queue calls the
\* next one or has called them all.
LEMMA StopReport ==
  ASSUME StopInv, NEW i \in Job, StepStopped(i)
  PROVE  StopInv'
<1>1. PICK result \in BOOLEAN : Stops!Report(i, result, FALSE)
  BY DEF StepStopped
<1>2. /\ i \in stopInvoked
      /\ Stops!OnJobDone(i, result, {i})
      /\ stopStarted /\ UNCHANGED <<stopKeep, stopStarted>>
      /\ (IF stopStarted THEN stopKeep ELSE AllSteps) = stopKeep
  BY <1>1 DEF StepStopped, Stops!Report
<1>3. /\ stopCurr \in Nat /\ stopFinished \in Nat /\ Len(stopKeep) \in Nat
      /\ stopInvoked = {k \in 1 .. Len(stopKeep) : k <= stopCurr + 1}
      /\ stopKeep[i]
  BY <1>2, LenProperties DEF StopInv
<1>4. stopCurr' = stopCurr + 1 /\ Stops!NextJob(stopCurr + 1, {i})
  BY <1>2, <1>3 DEF Stops!OnJobDone
<1>5. /\ stopKeep' \in Seq(BOOLEAN) /\ stopStarted' \in BOOLEAN /\ stopStarted'
      /\ Len(stopKeep') = Len(stopKeep) /\ \A k \in 1 .. Len(stopKeep') : stopKeep'[k]
  BY <1>2 DEF StopInv
<1>6. CASE stopCurr + 1 < Len(stopKeep)
  <2>1. stopInvoked' = stopInvoked \cup {stopCurr + 2} /\ stopFinished' = stopFinished
    BY <1>2, <1>3, <1>4, <1>6 DEF Stops!NextJob
  <2>2. stopInvoked' = {k \in 1 .. Len(stopKeep) : k <= stopCurr' + 1}
    BY <1>3, <1>4, <1>6, <2>1
  <2>3. stopFinished = 0
    BY <1>3, <1>6 DEF StopInv
  <2> QED BY <1>3, <1>4, <1>5, <2>1, <2>2, <2>3 DEF StopInv
<1>7. CASE ~ (stopCurr + 1 < Len(stopKeep))
  <2>1. stopInvoked' = stopInvoked /\ stopFinished' = stopFinished + 1
    BY <1>2, <1>4, <1>7 DEF Stops!NextJob
  <2>2. stopInvoked' = {k \in 1 .. Len(stopKeep) : k <= stopCurr' + 1}
    BY <1>3, <1>4, <1>7, <2>1
  <2> QED BY <1>3, <1>4, <1>5, <1>7, <2>1, <2>2 DEF StopInv
<1> QED BY <1>6, <1>7

LEMMA StopNext ==
  ASSUME StopInv, StartInv, [LifecycleNext]_all_vars
  PROVE  StopInv'
<1>1. CASE Dispose \/ ConnectorStarted \/ Interrupt
  <2>1. DoDispose \/ UNCHANGED stop_vars
    BY <1>1 DEF Dispose, ConnectorStarted, Interrupt
  <2> QED BY <2>1, StopDispose DEF StopInv, stop_vars
<1>2. ASSUME NEW i \in Job, StepStopped(i)
      PROVE  StopInv'
  BY <1>2, StopReport
<1>3. ASSUME \/ AddStep \/ Start \/ ExitTimer
             \/ \E i \in Job : StepStarted(i) \/ StartTimeout(i)
             \/ UNCHANGED all_vars
      PROVE  StopInv'
  <2>1. UNCHANGED stop_vars
    BY <1>3 DEF AddStep, Start, ExitTimer, StepStarted, StartTimeout, all_vars
  <2> QED BY <2>1 DEF StopInv, stop_vars
<1> QED BY <1>1, <1>2, <1>3 DEF LifecycleNext

\* Steps are told to stop in reverse, and the stop ends the process only when
\* each step that was started, and was there at the dispose, has been told,
\* however often their stops report (module.js, stop; frontier.js, dispose).
THEOREM StopReaches == LifecycleSpec => []StopReachesStarted
<1>1. LifecycleSpec => [](StartInv /\ StopInv)
  BY StartInit, StartNext, StopInit, StopNext, PTL DEF LifecycleSpec
<1>2. ASSUME StopInv PROVE StopReachesStarted
  <2>1. /\ Len(stopKeep) \in Nat /\ stopCurr \in Nat /\ stopFinished \in Nat
        /\ stopInvoked \subseteq 1 .. Len(stopKeep)
        /\ \A a \in stopInvoked, b \in 1 .. Len(stopKeep) : b < a => b \in stopInvoked
    BY <1>2, LenProperties DEF StopInv
  <2>2. ASSUME NEW i \in Stopped, NEW k \in 1 .. Len(stopKeep), k > i
        PROVE  k \in Stopped
    <3>1. PICK a \in stopInvoked : i = Len(stopKeep) + 1 - a
      BY DEF Stopped, StopOf
    <3> DEFINE b == Len(stopKeep) + 1 - k
    <3>2. b \in 1 .. Len(stopKeep) /\ b < a /\ k = Len(stopKeep) + 1 - b
      BY <2>1, <2>2, <3>1
    <3>3. b \in stopInvoked
      BY <2>1, <3>2
    <3> QED BY <3>2, <3>3 DEF Stopped, StopOf
  <2>3. ASSUME stopFinished > 0, NEW k \in 1 .. Len(stopKeep)
        PROVE  k \in Stopped
    <3> DEFINE b == Len(stopKeep) + 1 - k
    <3>1. b \in 1 .. Len(stopKeep) /\ k = Len(stopKeep) + 1 - b
      BY <2>1
    <3>2. b \in stopInvoked
      BY <1>2, <2>1, <2>3, <3>1 DEF StopInv
    <3> QED BY <3>1, <3>2 DEF Stopped, StopOf
  <2> QED BY <2>2, <2>3 DEF StopReachesStarted
<1> QED BY <1>1, <1>2, PTL

-----------------------------------------------------------------------------
(* The life cycle: types.                                                  *)

\* The half that the start disturbs, and the half that the stop does.
StartTypeOK ==
  /\ steps \in 0 .. MaxJobs
  /\ keep \in Seq(BOOLEAN)
  /\ Starts!TypeOK

LEMMA TypeInit == LifecycleInit => LifecycleTypeOK
<1> SUFFICES ASSUME LifecycleInit PROVE LifecycleTypeOK
  OBVIOUS
<1>1. steps = 0 /\ keep = << >> /\ << >> \in Seq(BOOLEAN) /\ stopKeep = << >>
  BY EmptySeq DEF LifecycleInit, Init
<1>2. AllSteps \in Seq(BOOLEAN) /\ Len(AllSteps) = 0
  BY <1>1, AllStepsValues
<1>3. (IF started THEN keep ELSE AllSteps) = AllSteps /\ started \in BOOLEAN
  BY Zenon DEF LifecycleInit, Init
<1>4. (IF stopStarted THEN stopKeep ELSE AllSteps) = AllSteps /\ stopStarted \in BOOLEAN
  BY Zenon DEF LifecycleInit
<1>5. allPassed \in BOOLEAN /\ stopAllPassed \in BOOLEAN
  BY Zenon DEF LifecycleInit, Init, Stops!Init
<1>6. /\ interrupted \in BOOLEAN /\ forced \in BOOLEAN /\ exited \in BOOLEAN
  BY Zenon DEF LifecycleInit
<1>7. /\ curr = 0 /\ invoked = {} /\ done = {} /\ timer = {} /\ finished = 0
      /\ reports = [i \in Job |-> 0]
  BY DEF LifecycleInit, Init
<1>8. /\ stopCurr = 0 /\ stopInvoked = {} /\ stopDone = {} /\ stopTimer = {}
      /\ stopFinished = 0 /\ stopReports = [i \in Job |-> 0]
  BY DEF LifecycleInit, Stops!Init, Stops!Job
<1>9. Starts!TypeOK
  <2>1. 0 \in 0 .. MaxReports /\ 0 \in Nat /\ 0 <= MaxJobs
    BY ParameterAssumption
  <2>2. [i \in Job |-> 0] \in [Job -> 0 .. MaxReports]
    BY <2>1
  <2> QED BY <1>2, <1>3, <1>5, <1>7, <2>1, <2>2, Zenon DEF Starts!TypeOK, Starts!Job
<1>10. Stops!TypeOK
  <2>1. 0 \in 0 .. MaxStopReports /\ 0 \in Nat /\ 0 <= MaxJobs
    BY ParameterAssumption, LifecycleAssumption
  <2>2. [i \in Job |-> 0] \in [Job -> 0 .. MaxStopReports]
    BY <2>1
  <2> QED BY <1>2, <1>4, <1>5, <1>8, <2>1, <2>2, Zenon DEF Stops!TypeOK, Stops!Job
<1> QED BY <1>1, <1>6, <1>9, <1>10, ParameterAssumption DEF LifecycleTypeOK

\* One job of the start queue is over: the queue gets on to the next one.
LEMMA TypeStartOver ==
  ASSUME LifecycleTypeOK, started, NEW i \in invoked, NEW result \in BOOLEAN,
         NEW cleared, Starts!OnJobDone(i, result, cleared),
         UNCHANGED <<steps, keep, started>>, reports' \in [Job -> 0 .. MaxReports]
  PROVE  StartTypeOK'
<1>1. /\ Starts!TypeOK /\ keep \in Seq(BOOLEAN) /\ steps \in 0 .. MaxJobs
      /\ (IF started THEN keep ELSE AllSteps) = keep
      /\ (IF started' THEN keep' ELSE AllSteps') = keep
  BY DEF LifecycleTypeOK
<1>2. /\ curr \in Nat /\ finished \in Nat /\ Len(keep) \in Nat /\ Len(keep) <= MaxJobs
      /\ invoked \in SUBSET Job /\ done \in SUBSET Job /\ timer \in SUBSET Job
      /\ MaxJobs \in Nat
  BY <1>1, ParameterAssumption, LenProperties DEF Starts!TypeOK, Starts!Job
<1>3. done' \in SUBSET Job /\ allPassed' \in BOOLEAN
  BY <1>1, <1>2, Zenon DEF Starts!OnJobDone, Starts!TypeOK
<1>4. \/ curr' = curr /\ invoked' = invoked /\ finished' = finished + 1
         /\ timer' = timer \ cleared
      \/ curr' = curr + 1 /\ Starts!NextJob(curr + 1, cleared)
  BY DEF Starts!OnJobDone
<1>5. /\ curr' \in Nat /\ finished' \in Nat
      /\ invoked' \in SUBSET Job /\ timer' \in SUBSET Job
  <2>1. CASE /\ curr' = curr + 1 /\ Starts!NextJob(curr + 1, cleared)
             /\ curr + 1 < Len(keep)
    <3>1. curr + 2 \in Job
      BY <1>2, <2>1
    <3>2. /\ invoked' = invoked \cup {curr + 2} /\ finished' = finished
          /\ timer' \subseteq timer \cup {curr + 2}
      BY <1>1, <1>2, <2>1 DEF Starts!NextJob
    <3> QED BY <1>2, <2>1, <3>1, <3>2
  <2>2. CASE /\ curr' = curr + 1 /\ Starts!NextJob(curr + 1, cleared)
             /\ ~ (curr + 1 < Len(keep))
    <3>1. invoked' = invoked /\ finished' = finished + 1 /\ timer' = timer \ cleared
      BY <1>1, <2>2 DEF Starts!NextJob
    <3>2. timer' \in SUBSET Job
      BY <1>2, <3>1
    <3> QED BY <1>2, <2>2, <3>1, <3>2
  <2>3. CASE /\ curr' = curr /\ invoked' = invoked /\ finished' = finished + 1
             /\ timer' = timer \ cleared
    <3>1. timer' \in SUBSET Job
      BY <1>2, <2>3
    <3> QED BY <1>2, <2>3, <3>1
  <2> QED BY <1>4, <2>1, <2>2, <2>3
<1>6. Starts!TypeOK'
  <2>1. started' \in BOOLEAN
    BY Zenon
  <2> QED BY <1>1, <1>2, <1>3, <1>5, <2>1, Zenon DEF Starts!TypeOK, Starts!Job
<1> QED BY <1>1, <1>6 DEF StartTypeOK

\* The frontier is disposed of.
LEMMA TypeDispose ==
  ASSUME LifecycleTypeOK, DoDispose, UNCHANGED steps
  PROVE  stopKeep' \in Seq(BOOLEAN) /\ forced' \in BOOLEAN /\ Stops!TypeOK'
<1>1. /\ Stops!TypeOK /\ stopKeep \in Seq(BOOLEAN) /\ steps \in 0 .. MaxJobs
      /\ forced \in BOOLEAN /\ AllSteps' = AllSteps /\ MaxJobs \in Nat
  BY ParameterAssumption DEF LifecycleTypeOK, AllSteps
<1>2. CASE ~ stopStarted /\ stopKeep' = AllSteps /\ Stops!Run /\ UNCHANGED forced
  <2>1. /\ AllSteps \in Seq(BOOLEAN) /\ Len(AllSteps) = steps /\ steps <= MaxJobs
        /\ (IF stopStarted THEN stopKeep ELSE AllSteps) = AllSteps
        /\ (IF stopStarted' THEN stopKeep' ELSE AllSteps') = AllSteps
    BY <1>1, <1>2, AllStepsValues
  <2>2. /\ Stops!NextJob(0, {}) /\ stopStarted'
        /\ UNCHANGED <<stopCurr, stopAllPassed, stopDone, stopReports>>
    BY <1>2 DEF Stops!Run
  <2>3. /\ stopFinished \in Nat /\ stopInvoked \in SUBSET Job /\ stopTimer \in SUBSET Job
    BY <1>1 DEF Stops!TypeOK, Stops!Job
  <2>4. /\ stopInvoked' \in SUBSET Job /\ stopTimer' \in SUBSET Job /\ stopFinished' \in Nat
    <3>1. CASE 0 < steps
      <4>1. 1 \in Job
        BY <1>1, <3>1
      <4>2. stopInvoked' = stopInvoked \cup {1} /\ stopFinished' = stopFinished
        BY <2>1, <2>2, <3>1 DEF Stops!NextJob
      <4>3. stopTimer' = stopTimer
        BY <2>1, <2>2, <3>1 DEF Stops!NextJob
      <4> QED BY <2>3, <4>1, <4>2, <4>3
    <3>2. CASE ~ (0 < steps)
      <4>1. /\ stopInvoked' = stopInvoked /\ stopFinished' = stopFinished + 1
            /\ stopTimer' = stopTimer
        BY <2>1, <2>2, <3>2 DEF Stops!NextJob
      <4> QED BY <2>3, <4>1
    <3> QED BY <3>1, <3>2
  <2>5. stopStarted' \in BOOLEAN
    BY <2>2, Zenon DEF Stops!Run
  <2>6. Stops!TypeOK'
    BY <1>1, <2>1, <2>2, <2>4, <2>5, Zenon DEF Stops!TypeOK, Stops!Job
  <2> QED BY <1>1, <1>2, <2>1, <2>6
<1>3. CASE stopStarted /\ forced' = TRUE /\ UNCHANGED stop_vars
  BY <1>1, <1>3, Zenon DEF stop_vars, Stops!TypeOK
<1> QED BY <1>2, <1>3 DEF DoDispose

LEMMA TypeStopReport ==
  ASSUME LifecycleTypeOK, NEW i \in Job, StepStopped(i)
  PROVE  Stops!TypeOK'
<1>1. PICK result \in BOOLEAN : Stops!Report(i, result, FALSE)
  BY DEF StepStopped
<1>2. /\ Stops!TypeOK /\ stopKeep \in Seq(BOOLEAN) /\ stopStarted
      /\ UNCHANGED <<steps, stopKeep, stopStarted>>
      /\ Stops!OnJobDone(i, result, {i})
      /\ (IF stopStarted THEN stopKeep ELSE AllSteps) = stopKeep
      /\ (IF stopStarted' THEN stopKeep' ELSE AllSteps') = stopKeep
  BY <1>1 DEF LifecycleTypeOK, StepStopped, start_vars, Stops!Report
<1>3. /\ stopCurr \in Nat /\ stopFinished \in Nat /\ Len(stopKeep) \in Nat
      /\ Len(stopKeep) <= MaxJobs /\ MaxJobs \in Nat
      /\ stopInvoked \in SUBSET Job /\ stopDone \in SUBSET Job
      /\ stopTimer \in SUBSET Job /\ stopReports \in [Job -> 0 .. MaxStopReports]
  BY <1>2, ParameterAssumption, LifecycleAssumption, LenProperties DEF Stops!TypeOK, Stops!Job
<1>4. /\ stopReports' \in [Job -> 0 .. MaxStopReports]
  BY <1>1, <1>3, ParameterAssumption, LifecycleAssumption DEF Stops!Report
<1>5. stopDone' \in SUBSET Job /\ stopAllPassed' \in BOOLEAN
  BY <1>2, <1>3, Zenon DEF Stops!OnJobDone, Stops!TypeOK
<1>6. \/ stopCurr' = stopCurr /\ stopInvoked' = stopInvoked
         /\ stopFinished' = stopFinished + 1 /\ stopTimer' = stopTimer \ {i}
      \/ stopCurr' = stopCurr + 1 /\ Stops!NextJob(stopCurr + 1, {i})
  BY <1>2 DEF Stops!OnJobDone
<1>7. /\ stopCurr' \in Nat /\ stopFinished' \in Nat
      /\ stopInvoked' \in SUBSET Job /\ stopTimer' \in SUBSET Job
  <2>1. CASE /\ stopCurr' = stopCurr + 1 /\ Stops!NextJob(stopCurr + 1, {i})
             /\ stopCurr + 1 < Len(stopKeep)
    <3>1. stopCurr + 2 \in Job
      BY <1>3, <2>1
    <3>2. /\ stopInvoked' = stopInvoked \cup {stopCurr + 2}
          /\ stopFinished' = stopFinished /\ stopTimer' \subseteq stopTimer
      BY <1>2, <1>3, <2>1 DEF Stops!NextJob
    <3> QED BY <1>3, <2>1, <3>1, <3>2
  <2>2. CASE /\ stopCurr' = stopCurr + 1 /\ Stops!NextJob(stopCurr + 1, {i})
             /\ ~ (stopCurr + 1 < Len(stopKeep))
    <3>1. /\ stopInvoked' = stopInvoked /\ stopFinished' = stopFinished + 1
          /\ stopTimer' \subseteq stopTimer
      BY <1>2, <2>2 DEF Stops!NextJob
    <3> QED BY <1>3, <2>2, <3>1
  <2>3. CASE /\ stopCurr' = stopCurr /\ stopInvoked' = stopInvoked
             /\ stopFinished' = stopFinished + 1 /\ stopTimer' = stopTimer \ {i}
    BY <1>3, <2>3
  <2> QED BY <1>6, <2>1, <2>2, <2>3
<1>8. stopStarted' \in BOOLEAN
  BY <1>2, Zenon DEF Stops!TypeOK
<1> QED BY <1>2, <1>3, <1>4, <1>5, <1>7, <1>8, Zenon DEF Stops!TypeOK, Stops!Job

\* A step of the start changes no type of the stop, though before the stop the
\* steps that it would stop may become more.
LEMMA StopTypeKept ==
  ASSUME LifecycleTypeOK, UNCHANGED stop_vars, steps' \in 0 .. MaxJobs
  PROVE  Stops!TypeOK' /\ stopKeep' \in Seq(BOOLEAN)
<1>1. /\ stopKeep' = stopKeep /\ stopStarted' = stopStarted
      /\ UNCHANGED <<stopCurr, stopAllPassed, stopInvoked, stopDone, stopTimer,
                     stopReports, stopFinished>>
      /\ Stops!TypeOK /\ stopKeep \in Seq(BOOLEAN) /\ MaxJobs \in Nat
  BY ParameterAssumption DEF LifecycleTypeOK, stop_vars
<1>2. AllSteps' \in Seq(BOOLEAN) /\ Len(AllSteps') = steps'
  <2>1. AllSteps' \in [1 .. steps' -> BOOLEAN] /\ steps' \in Nat
    BY <1>1 DEF AllSteps
  <2> QED BY <2>1
<1>3. /\ (IF stopStarted' THEN stopKeep' ELSE AllSteps') \in Seq(BOOLEAN)
      /\ Len(IF stopStarted' THEN stopKeep' ELSE AllSteps') <= MaxJobs
  <2>1. CASE stopStarted
    BY <1>1, <2>1 DEF Stops!TypeOK
  <2>2. CASE ~ stopStarted
    BY <1>1, <1>2, <2>2
  <2> QED BY <2>1, <2>2
<1> QED BY <1>1, <1>3, Zenon DEF Stops!TypeOK

LEMMA TypeAdd ==
  ASSUME LifecycleTypeOK, StartInv, AddStep
  PROVE  StartTypeOK'
<1>1. /\ steps' = steps + 1 /\ steps' \in 0 .. MaxJobs /\ started' = started
      /\ UNCHANGED <<curr, allPassed, invoked, done, timer, reports, finished>>
      /\ Starts!TypeOK /\ keep \in Seq(BOOLEAN) /\ TRUE \in BOOLEAN
      /\ steps \in Nat /\ MaxJobs \in Nat
  BY ParameterAssumption DEF AddStep, LifecycleTypeOK
<1>2. AllSteps' \in Seq(BOOLEAN) /\ Len(AllSteps') = steps'
  <2>1. AllSteps' \in [1 .. steps' -> BOOLEAN] /\ steps' \in Nat
    BY <1>1 DEF AllSteps
  <2> QED BY <2>1
<1>3. /\ keep' \in Seq(BOOLEAN)
      /\ (IF started' THEN keep' ELSE AllSteps') \in Seq(BOOLEAN)
      /\ Len(IF started' THEN keep' ELSE AllSteps') <= MaxJobs
  <2>1. CASE started
    <3>1. keep' = Append(keep, TRUE) /\ Len(keep) = steps
      BY <2>1 DEF AddStep, StartInv
    <3>2. keep' \in Seq(BOOLEAN) /\ Len(keep') = steps + 1
      BY <1>1, <3>1, AppendProperties
    <3> QED BY <1>1, <2>1, <3>2
  <2>2. CASE ~ started
    <3>1. keep' = keep
      BY <2>2 DEF AddStep
    <3> QED BY <1>1, <1>2, <2>2, <3>1
  <2> QED BY <2>1, <2>2
<1>4. Starts!TypeOK'
  BY <1>1, <1>3, Zenon DEF Starts!TypeOK
<1> QED BY <1>1, <1>3, <1>4 DEF StartTypeOK

LEMMA TypeStart ==
  ASSUME LifecycleTypeOK, Start
  PROVE  StartTypeOK'
<1>1. /\ Starts!TypeOK /\ steps \in 0 .. MaxJobs /\ steps' = steps /\ MaxJobs \in Nat
      /\ ~ started /\ keep' = AllSteps /\ AllSteps' = AllSteps
      /\ Starts!NextJob(0, {}) /\ started' = TRUE
      /\ UNCHANGED <<curr, allPassed, done, reports>>
  BY ParameterAssumption DEF LifecycleTypeOK, Start, Starts!Run, AllSteps
<1>2. /\ AllSteps \in Seq(BOOLEAN) /\ Len(AllSteps) = steps /\ steps <= MaxJobs
      /\ (IF started THEN keep ELSE AllSteps) = AllSteps
      /\ (IF started' THEN keep' ELSE AllSteps') = AllSteps
  BY <1>1, AllStepsValues
<1>3. /\ finished \in Nat /\ invoked \in SUBSET Job /\ timer \in SUBSET Job
  BY <1>1 DEF Starts!TypeOK, Starts!Job
<1>4. /\ invoked' \in SUBSET Job /\ timer' \in SUBSET Job /\ finished' \in Nat
  <2>1. CASE 0 < steps
    <3>1. 1 \in Job
      BY <1>1, <2>1
    <3>2. /\ invoked' = invoked \cup {1} /\ finished' = finished
          /\ timer' \subseteq timer \cup {1}
      BY <1>1, <1>2, <2>1 DEF Starts!NextJob
    <3> QED BY <1>3, <3>1, <3>2
  <2>2. CASE ~ (0 < steps)
    <3>1. invoked' = invoked /\ finished' = finished + 1 /\ timer' \subseteq timer
      BY <1>1, <1>2, <2>2 DEF Starts!NextJob
    <3> QED BY <1>3, <3>1
  <2> QED BY <2>1, <2>2
<1>5. started' \in BOOLEAN
  BY <1>1, Zenon
<1>6. Starts!TypeOK'
  BY <1>1, <1>2, <1>4, <1>5, Zenon DEF Starts!TypeOK, Starts!Job
<1> QED BY <1>1, <1>2, <1>6 DEF StartTypeOK

\* A step of the start reports, or its time is over.
LEMMA TypeStartReport ==
  ASSUME LifecycleTypeOK, StartInv, NEW i \in Job, StepStarted(i) \/ StartTimeout(i)
  PROVE  StartTypeOK'
<1>1. /\ UNCHANGED <<steps, keep, started>> /\ AllSteps' = AllSteps
      /\ reports \in [Job -> 0 .. MaxReports]
      /\ Starts!TypeOK /\ keep \in Seq(BOOLEAN) /\ steps \in 0 .. MaxJobs
  BY DEF LifecycleTypeOK, StepStarted, StartTimeout, Starts!TypeOK, Starts!Job, AllSteps
<1>2. ASSUME i \in invoked PROVE started
  BY <1>2 DEF StartInv
<1>3. ASSUME NEW result \in BOOLEAN, NEW early \in BOOLEAN, Starts!Report(i, result, early)
      PROVE  StartTypeOK'
  <2>1. /\ i \in invoked /\ reports' \in [Job -> 0 .. MaxReports]
        /\ Starts!OnJobDone(i, result, IF early THEN {} ELSE {i})
    BY <1>1, <1>3, ParameterAssumption DEF Starts!Report
  <2> QED BY <1>1, <1>2, <2>1, TypeStartOver
<1>4. CASE Starts!OnTimeout(i) /\ i \notin done
  <2>1. i \in invoked /\ Starts!OnJobDone(i, FALSE, {i}) /\ reports' = reports
    BY <1>4 DEF Starts!OnTimeout, StartInv
  <2> QED BY <1>1, <1>2, <2>1, TypeStartOver
<1>5. CASE Starts!OnTimeout(i) /\ i \in done
  <2>1. /\ timer' \in SUBSET Job
        /\ UNCHANGED <<curr, allPassed, invoked, done, finished, reports>>
    BY <1>1, <1>5 DEF Starts!OnTimeout, Starts!TypeOK, Starts!Job
  <2>2. Starts!TypeOK'
    BY <1>1, <2>1, Zenon DEF Starts!TypeOK, Starts!Job
  <2> QED BY <1>1, <2>2 DEF StartTypeOK
<1> QED BY <1>3, <1>4, <1>5 DEF StepStarted, StartTimeout

LEMMA TypeNext ==
  ASSUME LifecycleTypeOK, StartInv, [LifecycleNext]_all_vars
  PROVE  LifecycleTypeOK'
<1>1. /\ interrupted \in BOOLEAN /\ forced \in BOOLEAN /\ exited \in BOOLEAN
      /\ steps \in 0 .. MaxJobs /\ StartTypeOK
  BY DEF LifecycleTypeOK, StartTypeOK
<1>2. ASSUME StartTypeOK', UNCHANGED <<stop_vars, exit_vars>>
      PROVE  LifecycleTypeOK'
  <2>1. Stops!TypeOK' /\ stopKeep' \in Seq(BOOLEAN)
    BY <1>2, StopTypeKept DEF StartTypeOK
  <2> QED BY <1>1, <1>2, <2>1, Zenon DEF LifecycleTypeOK, StartTypeOK, exit_vars
<1>3. ASSUME UNCHANGED start_vars
      PROVE  StartTypeOK'
  <2>1. AllSteps' = AllSteps
    BY <1>3 DEF AllSteps, start_vars
  <2> QED BY <1>1, <1>3, <2>1, Zenon DEF StartTypeOK, Starts!TypeOK, start_vars, vars
<1>4. ASSUME StartTypeOK', steps' = steps, DoDispose,
             interrupted' \in BOOLEAN, exited' \in BOOLEAN
      PROVE  LifecycleTypeOK'
  BY <1>4, TypeDispose, Zenon DEF LifecycleTypeOK, StartTypeOK
<1>5. CASE AddStep
  BY <1>2, <1>5, TypeAdd DEF AddStep
<1>6. CASE Start
  BY <1>2, <1>6, TypeStart DEF Start
<1>7. ASSUME NEW i \in Job, StepStarted(i) \/ StartTimeout(i)
      PROVE  LifecycleTypeOK'
  BY <1>2, <1>7, TypeStartReport DEF StepStarted, StartTimeout
<1>8. CASE Dispose
  BY <1>1, <1>3, <1>4, <1>8, Zenon DEF Dispose, start_vars
<1>9. CASE ConnectorStarted
  <2>1. /\ reports' \in [Job -> 0 .. MaxReports]
        /\ UNCHANGED <<steps, keep, curr, allPassed, started, invoked, done, timer, finished>>
    BY <1>1, <1>9, LifecycleAssumption
    DEF ConnectorStarted, StartTypeOK, Starts!TypeOK, Starts!Job
  <2>2. AllSteps' = AllSteps
    BY <2>1 DEF AllSteps
  <2>3. StartTypeOK'
    BY <1>1, <2>1, <2>2, Zenon DEF StartTypeOK, Starts!TypeOK, Starts!Job
  <2> QED BY <1>1, <1>4, <1>9, <2>1, <2>3, Zenon DEF ConnectorStarted
<1>10. CASE Interrupt
  <2>1. StartTypeOK' /\ steps' = steps
    BY <1>3, <1>10 DEF Interrupt, start_vars
  <2>2. CASE DoDispose /\ interrupted' = TRUE /\ UNCHANGED exited
    BY <1>1, <1>4, <2>1, <2>2, Zenon
  <2>3. CASE exited' = TRUE /\ UNCHANGED <<stop_vars, interrupted, forced>>
    <3>1. Stops!TypeOK' /\ stopKeep' \in Seq(BOOLEAN)
      BY <1>1, <2>1, <2>3, StopTypeKept
    <3> QED BY <1>1, <2>1, <2>3, <3>1, Zenon DEF LifecycleTypeOK, StartTypeOK
  <2> QED BY <1>10, <2>2, <2>3 DEF Interrupt
<1>11. CASE ExitTimer
  <2>1. StartTypeOK' /\ steps' = steps /\ UNCHANGED stop_vars
    BY <1>3, <1>11 DEF ExitTimer, start_vars
  <2>2. Stops!TypeOK' /\ stopKeep' \in Seq(BOOLEAN)
    BY <1>1, <2>1, StopTypeKept
  <2> QED BY <1>1, <1>11, <2>1, <2>2, Zenon DEF ExitTimer, LifecycleTypeOK, StartTypeOK
<1>12. ASSUME NEW i \in Job, StepStopped(i)
       PROVE  LifecycleTypeOK'
  <2>1. UNCHANGED <<start_vars, stopKeep, exit_vars>>
    BY <1>12 DEF StepStopped
  <2>2. StartTypeOK' /\ Stops!TypeOK' /\ stopKeep' \in Seq(BOOLEAN)
    BY <1>3, <1>12, <2>1, TypeStopReport DEF LifecycleTypeOK
  <2> QED BY <1>1, <2>1, <2>2, Zenon DEF LifecycleTypeOK, StartTypeOK, exit_vars
<1>13. CASE UNCHANGED all_vars
  BY <1>2, <1>3, <1>13 DEF all_vars
<1> QED BY <1>5, <1>6, <1>7, <1>8, <1>9, <1>10, <1>11, <1>12, <1>13 DEF LifecycleNext

\* Every variable of the life cycle keeps to its type: the two queues never
\* call a job that is none of the steps (module.js, start and stop).
THEOREM LifecycleTypeCorrect == LifecycleSpec => []LifecycleTypeOK
<1>1. LifecycleSpec => [](StartInv /\ LifecycleTypeOK)
  BY StartInit, StartNext, TypeInit, TypeNext, PTL DEF LifecycleSpec
<1> QED BY <1>1, PTL

=============================================================================
