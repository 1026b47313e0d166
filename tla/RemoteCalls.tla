---------------------------- MODULE RemoteCalls -----------------------------
(***************************************************************************)
(* Calls of another server's API (core/API.js): the link that addRemote    *)
(* makes to it by SockJS, the requests that wait for it, and, at the other *)
(* end, the wrapper that runs an API with its before- and after-actions.   *)
(* Each addRemote that is accepted makes a link and its own closure: the   *)
(* callbacks by the name of the API, and what waits.  Only the last link   *)
(* can be up, and SR.API[host] is the function of the last.                *)
(* What addRemote and onDisconnect tell the application is left out.       *)
(* An operator that ends in "Variant" is a faulty version of the           *)
(* definition after it, kept to show that a property can fail.             *)
(***************************************************************************)
EXTENDS Integers, Sequences, FiniteSets, SequencesExt

CONSTANTS
  Api,        \* names of APIs of the other server
  Watched,    \* APIs with before- and after-actions
  Pre,        \* number of before-actions of each
  AutoReconnect,  \* args.auto_reconnect
  MaxCalls,   \* bound: calls
  MaxLinks,   \* bound: links; the last one is not lost
  None

ASSUME RemoteCallsAssumption ==
  /\ Pre \in Nat \ {0}
  /\ AutoReconnect \in BOOLEAN
  /\ Watched \subseteq Api
  /\ MaxCalls \in Nat
  /\ MaxLinks \in Nat
  /\ None \notin 1 .. MaxCalls

\* A call is known by its number; calls are numbered as they are made.
Call == 1 .. MaxCalls

VARIABLES
  link,       \* number of links made
  state,      \* of the last link; l_hosts has the host unless it is "down"
  opened,     \* the last link has been open, and has a list of its own
  timers,     \* timers that will call addRemote again
  made,       \* each call: its API, and whether its closure had been open
  shared,     \* the list in l_pending
  callback,   \* responseCallbacks of the last link: a call for each API
  job,        \* how far the other server is with what came over this link
  sent,       \* the number of times that a call was sent
  replies     \* the requests whose replies a call's callback was given

link_vars == <<link, state, opened, timers>>
vars == <<link_vars, made, shared, callback, job, sent, replies>>

\* verdict: what each before-action has said.
Idle == [phase |-> "none", verdict |-> [i \in 1 .. Pre |-> "none"]]
Reply == [Idle EXCEPT !.phase = "reply"]
Asked(a) == [Idle EXCEPT !.phase = IF a \in Watched THEN "before" ELSE "body"]

Verdicts == [1 .. Pre -> {"none", "ok", "error"}]
Job == [phase : {"none", "before", "body", "after", "reply"}, verdict : Verdicts]

TypeOK ==
  /\ link \in 0 .. MaxLinks
  /\ state \in {"down", "connecting", "open"}
  /\ opened \in BOOLEAN
  /\ timers \in 0 .. MaxLinks
  /\ made \in Seq([api : Api, early : BOOLEAN])
  /\ shared \in Seq(Call)
  /\ callback \in [Api -> Call \cup {None}]
  /\ job \in [Call -> Job]
  /\ sent \in [Call -> 0 .. MaxLinks]
  /\ replies \in [Call -> SUBSET Call]

Init ==
  /\ link = 0
  /\ state = "down"
  /\ opened = FALSE
  /\ timers = 0
  /\ made = << >>
  /\ shared = << >>
  /\ callback = [a \in Api |-> None]
  /\ job = [c \in Call |-> Idle]
  /\ sent = [c \in Call |-> 0]
  /\ replies = [c \in Call |-> {}]

-----------------------------------------------------------------------------
\* The link.

\* addRemote of a host that is not in l_hosts: the new closure waits with the
\* list in l_pending, whatever an earlier one has done with it.
Connect ==
  /\ link < MaxLinks
  /\ link' = link + 1
  /\ state' = "connecting"
  /\ opened' = FALSE
  /\ callback' = [a \in Api |-> None]
  /\ UNCHANGED <<made, shared, job, sent, replies>>

\* By the application; one that is refused changes nothing.
AddRemote ==
  /\ state = "down"
  /\ Connect
  /\ UNCHANGED timers

Retry ==
  /\ timers > 0
  /\ timers' = timers - 1
  /\ \/ state = "down" /\ Connect
     \/ /\ state # "down"
        /\ UNCHANGED <<link, state, opened>>
        /\ UNCHANGED <<made, shared, callback, job, sent, replies>>

\* onopen: what waits is sent, and the closure has an empty list of its own
\* from now on; the list in l_pending stays as it is.
Open ==
  /\ state = "connecting"
  /\ state' = "open"
  /\ opened' = TRUE
  /\ job' = [c \in Call |-> IF c \in ToSet(shared) THEN Asked(made[c].api) ELSE Idle]
  /\ sent' = [c \in Call |-> sent[c] + IF c \in ToSet(shared) THEN 1 ELSE 0]
  /\ UNCHANGED <<link, timers, made, shared, callback, replies>>

\* Faulty: only the loss of a link that was open sets the timer.
CloseVariant ==
  /\ state # "down"
  /\ link < MaxLinks
  /\ state' = "down"
  /\ timers' = IF AutoReconnect /\ state = "open" THEN timers + 1 ELSE timers
  /\ job' = [c \in Call |-> Idle]
  /\ UNCHANGED <<link, opened, made, shared, callback, sent, replies>>

\* onclose, of a link that was open or of an attempt that fails.  What the
\* other server still does for it cannot be answered.
Close ==
  /\ state # "down"
  /\ link < MaxLinks
  /\ state' = "down"
  /\ timers' = IF AutoReconnect THEN timers + 1 ELSE timers
  /\ job' = [c \in Call |-> Idle]
  /\ UNCHANGED <<link, opened, made, shared, callback, sent, replies>>

-----------------------------------------------------------------------------
\* Calls and replies.

\* Faulty: the first callback for an API stays.
MakeVariant(c, a) ==
  /\ link > 0
  /\ c = Len(made) + 1
  /\ made' = Append(made, [api |-> a, early |-> ~opened])
  /\ callback' = [callback EXCEPT ![a] = IF @ = None THEN c ELSE @]
  /\ UNCHANGED <<link_vars, replies>>

\* The function SR.API[host]: a call takes over the callback of its API.
Make(c, a) ==
  /\ link > 0
  /\ c = Len(made) + 1
  /\ made' = Append(made, [api |-> a, early |-> ~opened])
  /\ callback' = [callback EXCEPT ![a] = c]
  /\ UNCHANGED <<link_vars, replies>>

SendNow(c, a) ==
  /\ state = "open"
  /\ Make(c, a)
  /\ job' = [job EXCEPT ![c] = Asked(a)]
  /\ sent' = [sent EXCEPT ![c] = @ + 1]
  /\ UNCHANGED shared

\* Faulty: it always waits in the list in l_pending.
WaitVariant(c, a) ==
  /\ state # "open"
  /\ Make(c, a)
  /\ shared' = Append(shared, c)
  /\ UNCHANGED <<job, sent>>

\* Without a link the call waits: in the list of l_pending, or, when the link
\* was open before, in the list of a closure whose link will not open again.
Wait(c, a) ==
  /\ state # "open"
  /\ Make(c, a)
  /\ shared' = IF opened THEN shared ELSE Append(shared, c)
  /\ UNCHANGED <<job, sent>>

\* Faulty: a callback is called once.
MessageVariant(c) ==
  LET a == made[c].api
      to == callback[a]
  IN  /\ job[c].phase = "reply"
      /\ job' = [job EXCEPT ![c] = Idle]
      /\ replies' = IF to = None THEN replies ELSE [replies EXCEPT ![to] = @ \cup {c}]
      /\ callback' = [callback EXCEPT ![a] = None]
      /\ UNCHANGED <<link_vars, made, shared, sent>>

\* onmessage: the reply goes to the callback of that API, if there is one,
\* which stays for the next.
Message(c) ==
  LET to == callback[made[c].api]
  IN  /\ job[c].phase = "reply"
      /\ job' = [job EXCEPT ![c] = Idle]
      /\ replies' = IF to = None THEN replies ELSE [replies EXCEPT ![to] = @ \cup {c}]
      /\ UNCHANGED <<link_vars, made, shared, callback, sent>>

-----------------------------------------------------------------------------
\* The other server.

Goes(c, j) ==
  /\ job' = [job EXCEPT ![c] = j]
  /\ UNCHANGED <<link_vars, made, shared, callback, sent, replies>>

\* Faulty: the first that agrees is enough.
ResolvedVariant(v) ==
  CASE \E i \in DOMAIN v : v[i] = "error" /\ \A k \in 1 .. i - 1 : v[k] = "ok" -> "reply"
    [] v[1] = "ok" -> "body"
    [] OTHER -> "before"

\* Before-actions are all started at once and may end in any order, but are
\* looked at in theirs: the first that has failed, with none before it still
\* to come, is the answer.  The API runs when all have agreed.
Resolved(v) ==
  CASE \E i \in DOMAIN v : v[i] = "error" /\ \A k \in 1 .. i - 1 : v[k] = "ok" -> "reply"
    [] \A i \in DOMAIN v : v[i] = "ok" -> "body"
    [] OTHER -> "before"

BeforeAction(c, i) ==
  /\ job[c].phase = "before"
  /\ job[c].verdict[i] = "none"
  /\ \E said \in {"ok", "error"} :
       LET v == [job[c].verdict EXCEPT ![i] = said]
       IN  Goes(c, IF Resolved(v) = "reply" THEN Reply ELSE [phase |-> Resolved(v), verdict |-> v])

\* The API calls onDone, and its after-actions follow.  One that has none may
\* have nothing to return, and sends no reply; and a call of onDone that is not
\* supported is answered with an error at once, whoever watches the API.
Body(c) ==
  /\ job[c].phase = "body"
  /\ \/ /\ made[c].api \in Watched
        /\ Goes(c, [job[c] EXCEPT !.phase = "after"])
     \/ /\ made[c].api \notin Watched
        /\ Goes(c, Idle)
     \/ Goes(c, Reply)

\* After-actions are all started; the first has ended, and the others are not
\* waited for.
AfterAction(c) ==
  /\ job[c].phase = "after"
  /\ \E j \in {Reply, Idle} : Goes(c, j)

Serves(c) ==
  \/ \E i \in 1 .. Pre : BeforeAction(c, i)
  \/ Body(c)
  \/ AfterAction(c)

Next ==
  \/ AddRemote \/ Retry \/ Open \/ Close
  \/ \E c \in Call, a \in Api : SendNow(c, a) \/ Wait(c, a)
  \/ \E c \in Call : Message(c) \/ Serves(c)

\* Timers run, an attempt to connect ends, and what has arrived is handled.
\* Nothing is assumed of the APIs of the other server.
Fairness ==
  /\ WF_vars(Retry)
  /\ WF_vars(Open)
  /\ \A c \in Call : WF_vars(Message(c))

Spec == Init /\ [][Next]_vars /\ Fairness

-----------------------------------------------------------------------------
\* Properties.

\* A reply is given to a caller of that API and, however calls overlap and
\* links change, never to one that had asked before the call it answers.
RepliesForward ==
  \A c \in Call : \A d \in replies[c] : made[d].api = made[c].api /\ d <= c

\* Only what was asked for before the closure's link had opened may be sent a
\* second time, over a later link; what was sent over an open link, or waited
\* because one was lost, is never.
SentAgain ==
  \A c \in Call : sent[c] > 1 => made[c].early

\* An API does not run for a request that one of its before-actions refuses
\* or has still to look at, in whatever order these end.
AllAgreed ==
  \A c \in Call : job[c].phase \in {"body", "after"} /\ made[c].api \in Watched =>
    \A i \in 1 .. Pre : job[c].verdict[i] = "ok"

\* The callback of its API is that of call c.
Latest(c) == c <= Len(made) /\ callback[made[c].api] = c

\* Who called an API last is told what the other server replies, also when
\* replies to earlier calls of it come first, unless the link is lost.
LastCallerTold ==
  \A c \in Call :
    job[c].phase = "reply" /\ Latest(c)
      ~> \/ c \in replies[c]
         \/ state = "down"
         \/ \E d \in Call : d > c /\ Latest(d) /\ made[d].api = made[c].api

\* What waits for the first link is sent, however many attempts fail.
WaitingSent ==
  \A c \in Call : AutoReconnect /\ c \in ToSet(shared) ~> sent[c] > 0

\* core/API.js:469, "otherwise cache the packet and send when connection is
\* made": with a link open, no call is left behind.
CachedSent ==
  state = "open" => \A c \in 1 .. Len(made) : sent[c] > 0

=============================================================================
