---------------------------- MODULE JobSequence ----------------------------
(***************************************************************************)
(* What a job queue promises: its jobs run one after the other in the      *)
(* order they were added, each passes or fails once, a failing showstopper *)
(* ends the run, and the run ends once, with the verdict on all its jobs.  *)
(***************************************************************************)
EXTENDS Naturals, Sequences

VARIABLES
  keep,       \* of each job: whether the run goes on when it fails
  position,   \* number of jobs that are over
  state,      \* "idle", "running" (job position + 1) or "over"
  passed      \* no job has failed

vars == <<keep, position, state, passed>>

Init ==
  /\ keep = << >>
  /\ position = 0
  /\ state = "idle"
  /\ passed = TRUE

Enlist(k) ==
  /\ keep' = Append(keep, k)
  /\ UNCHANGED <<position, state, passed>>

\* A run with no job left is over.
Goes(n) == IF n < Len(keep) THEN "running" ELSE "over"

Begin ==
  /\ state = "idle"
  /\ state' = Goes(0)
  /\ UNCHANGED <<keep, position, passed>>

Finish(result) ==
  /\ state = "running"
  /\ passed' = (passed /\ result)
  /\ IF result \/ keep[position + 1]
       THEN position' = position + 1 /\ state' = Goes(position + 1)
       ELSE position' = position /\ state' = "over"
  /\ UNCHANGED keep

Next == \/ \E b \in BOOLEAN : Enlist(b) \/ Finish(b)
        \/ Begin

Spec == Init /\ [][Next]_vars

=============================================================================
