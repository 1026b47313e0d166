----------------------------- MODULE WorkQueue ------------------------------
(***************************************************************************)
(* What a queue of core/queue.js promises: items wait in the order they    *)
(* came; the first one is handed to the handler, and then leaves for good  *)
(* or goes to the end, after what came meanwhile.                          *)
(***************************************************************************)
EXTENDS Sequences

CONSTANT Item

VARIABLES
  items,     \* what waits, first to last
  finished   \* items that have left

vars == <<items, finished>>

Init == items = << >> /\ finished = {}

Arrive(x) ==
  /\ items' = items \o <<x>>
  /\ UNCHANGED finished

\* What comes while the handler runs: one item at most, as in AdvQueue.
Came == {<< >>} \cup {<<x>> : x \in Item}

Finish(came) ==
  /\ items # << >>
  /\ items' = Tail(items) \o came
  /\ finished' = finished \cup {Head(items)}

PutBack(came) ==
  /\ items # << >>
  /\ items' = Tail(items) \o (came \o <<Head(items)>>)
  /\ UNCHANGED finished

Next ==
  \/ \E x \in Item : Arrive(x)
  \/ \E came \in Came : Finish(came) \/ PutBack(came)

Spec == Init /\ [][Next]_vars

=============================================================================
