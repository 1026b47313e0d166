------------------------------ MODULE AdvQueue ------------------------------
(***************************************************************************)
(* core/queue.js (SR.AdvQueue): a queue that hands its items to a handler, *)
(* one per turn of the event loop.  A runner is a processEvent scheduled   *)
(* with setImmediate; running one, with the handler and whatever the       *)
(* handler enqueues in it, is one action.                                  *)
(* The items are in a queue of core/_queue.js: an array of which the first *)
(* `offset' slots are spent; the array is cut when half of it is.          *)
(* An operator that ends in "Variant" is a faulty version of the           *)
(* definition after it, kept to show that a property can fail.             *)
(***************************************************************************)
EXTENDS Naturals, Sequences

CONSTANTS
  Item,        \* what is enqueued, each once from outside
  Outcome,     \* what the handler may return: true, false, undefined
  Reentrant    \* whether the handler may enqueue

ASSUME AdvAssumption ==
  /\ Outcome \subseteq {"done", "again", "pause"}
  /\ Reentrant \in BOOLEAN

VARIABLES
  queue,       \* the array of _queue.js
  offset,      \* its slots that are spent
  busy,        \* busy
  runners,     \* processEvent calls that are scheduled
  served,      \* items that were handled at least once (history)
  finished,    \* items that the handler did not put back (history)
  paused,      \* the handler returned nothing, no activation since (history)
  nested       \* number of items enqueued by the handler (history)

adv_vars == <<queue, offset, busy, runners, served, finished, paused, nested>>

\* What waits in the queue: the slots of the array that are not spent.
Waiting == SubSeq(queue, offset + 1, Len(queue))
Queued == {queue[i] : i \in offset + 1 .. Len(queue)}
Fresh == Item \ (Queued \cup finished)

AdvTypeOK ==
  /\ queue \in Seq(Item)
  /\ offset \in Nat
  /\ busy \in BOOLEAN
  /\ runners \in Nat
  /\ served \in SUBSET Item
  /\ finished \in SUBSET Item
  /\ paused \in BOOLEAN
  /\ nested \in Nat

AdvInit ==
  /\ queue = << >>
  /\ offset = 0
  /\ busy = FALSE
  /\ runners = 0
  /\ served = {}
  /\ finished = {}
  /\ paused = FALSE
  /\ nested = 0

-----------------------------------------------------------------------------
(* The array.                                                              *)

\* isEmpty looks at the array and not at the offset.
IsEmpty == queue = << >>

\* What dequeue returns when the array is not empty.
First == queue[offset + 1]

\* dequeue has spent half of the array with the slot it takes.
HalfSpent == (offset + 1) * 2 >= Len(queue)

\* The array and the offset that dequeue leaves.
Remains == IF HalfSpent THEN SubSeq(queue, offset + 2, Len(queue)) ELSE queue

\* The offset is not reset.
SpentVariant == offset + 1
Spent == IF HalfSpent THEN 0 ELSE offset + 1

-----------------------------------------------------------------------------
(* The queue and its handler.                                              *)

\* activate(): schedules a runner unless one is taken to be at work.
Wake ==
  /\ busy' = TRUE
  /\ runners' = IF busy THEN runners ELSE runners + 1
  /\ paused' = FALSE

Activate ==
  /\ Wake
  /\ UNCHANGED <<queue, offset, served, finished, nested>>

\* enqueue(item, handler) from outside the handler.
EnqueueVariant(x) ==
  /\ x \in Fresh
  /\ queue' = queue \o <<x>>
  /\ UNCHANGED <<offset, busy, runners, served, finished, paused, nested>>
Enqueue(x) ==
  /\ x \in Fresh
  /\ queue' = queue \o <<x>>
  /\ Wake
  /\ UNCHANGED <<offset, served, finished, nested>>

\* A runner finds the queue empty and ends.
Exhausted ==
  /\ runners > 0
  /\ IsEmpty
  /\ busy' = FALSE
  /\ runners' = runners - 1
  /\ UNCHANGED <<queue, offset, served, finished, paused, nested>>

\* What comes after the items that wait behind the first one: what the handler
\* enqueues (extra), and then the first one again if the handler returns false.
Comes(outcome, extra) ==
  IF outcome = "again" THEN extra \o <<First>> ELSE extra

\* A handler that returns true or false has processEvent scheduled again.
GoesOn(outcome) == outcome # "pause"

\* A runner takes the first item and calls the handler, busy being reset
\* before, so that what the handler enqueues schedules a runner as well.
Process(outcome, extra) ==
  /\ runners > 0
  /\ ~ IsEmpty
  /\ queue' = Remains \o Comes(outcome, extra)
  /\ offset' = Spent
  /\ served' = served \cup {First}
  /\ finished' = IF outcome = "again" THEN finished
                                      ELSE finished \cup {First}
  /\ nested' = nested + Len(extra)
  /\ busy' = (extra # << >> \/ GoesOn(outcome))
  /\ runners' = runners - 1 + Len(extra) + (IF GoesOn(outcome) THEN 1 ELSE 0)
  /\ paused' = (extra = << >> /\ (outcome = "pause" \/ paused))

Extras == {<< >>} \cup (IF Reentrant THEN {<<x>> : x \in Fresh} ELSE {})

ProcessEvent ==
  \/ Exhausted
  \/ \E outcome \in Outcome, extra \in Extras : Process(outcome, extra)

-----------------------------------------------------------------------------

AdvNext == Activate \/ ProcessEvent \/ \E x \in Item : Enqueue(x)

AdvSpec == AdvInit /\ [][AdvNext]_adv_vars

\* The event loop runs what was scheduled with setImmediate.
FairAdvSpec == AdvSpec /\ WF_adv_vars(ProcessEvent)

-----------------------------------------------------------------------------
(* Properties.                                                             *)

\* Items wait without a runner only after the handler asked for a pause:
\* no wake-up is lost between busy, the runners and enqueue.
NoLostWakeup ==
  /\ (~ IsEmpty /\ runners = 0) => paused
  /\ busy => runners > 0

\* There is one runner at most beyond those the handler's own calls of
\* enqueue schedule; a handler that never enqueues never has two.
RunnersBounded ==
  /\ runners <= 1 + nested
  /\ ~ busy => runners <= nested

\* More than half of a non-empty array waits, so that isEmpty tells the truth.
HalfLive ==
  IF IsEmpty THEN offset = 0 ELSE offset * 2 < Len(queue)

\* Items are served in the order they came, each until it is finished and none
\* after that, however the array is cut and whatever the handler does
\* (queue.js, enqueue and processEvent; _queue.js, enqueue and dequeue).
Promised == INSTANCE WorkQueue WITH items <- Waiting
ImplementsWorkQueue == Promised!Spec

\* Every item is handed to the handler in the end, even if earlier ones are
\* put back again and again, unless the handler asks for a pause.
EverythingServed ==
  \A x \in Item : x \in Queued ~> (x \in served \/ paused)

=============================================================================
