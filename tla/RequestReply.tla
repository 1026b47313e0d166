---------------------------- MODULE RequestReply ----------------------------
(***************************************************************************)
(* What the event layer promises a client that sends requests over a       *)
(* persistent socket: a request is accepted or refused once, an accepted   *)
(* one is settled once, and at most one response is ever written for it.   *)
(* The request may also be settled without a response (it was dropped, its *)
(* handler answered nothing, or the socket was already gone).              *)
(***************************************************************************)
EXTENDS Naturals

CONSTANT Event          \* the requests

VARIABLES
  phase,                \* how far each request has come
  answers               \* number of responses written for each request

vars == <<phase, answers>>

Phase == {"none", "refused", "running", "done"}

TypeOK ==
  /\ phase \in [Event -> Phase]
  /\ answers \in [Event -> {0, 1}]

Init ==
  /\ phase = [e \in Event |-> "none"]
  /\ answers = [e \in Event |-> 0]

\* The request is taken in and its handler is still at work.
Accept(e) ==
  /\ phase[e] = "none"
  /\ phase' = [phase EXCEPT ![e] = "running"]
  /\ UNCHANGED answers

\* The connection has too many requests under way.
Refuse(e) ==
  /\ phase[e] = "none"
  /\ phase' = [phase EXCEPT ![e] = "refused"]
  /\ UNCHANGED answers

\* The request is settled, answered or not, possibly as soon as it arrives.
Settle(e) ==
  /\ phase[e] \in {"none", "running"}
  /\ phase' = [phase EXCEPT ![e] = "done"]
  /\ \E n \in {0, 1} : answers' = [answers EXCEPT ![e] = n]

Next == \E e \in Event : Accept(e) \/ Refuse(e) \/ Settle(e)

Spec == Init /\ [][Next]_vars

=============================================================================
