------------------------- MODULE RemoteCalls_proofs -------------------------
(***************************************************************************)
(* Proofs about RemoteCalls, for any APIs, before-actions, calls and links *)
(* and with or without auto_reconnect.                                     *)
(***************************************************************************)
EXTENDS RemoteCalls, SequenceTheorems, TLAPS

\* A closure opens once, and what comes over its link ends with the link.  A
\* timer is set when a link is lost, so that there is none without one.
LinkInv ==
  /\ link = 0 => ~opened /\ state = "down" /\ made = << >>
  /\ state = "connecting" => ~opened
  /\ state = "open" => opened
  /\ state # "open" => \A c \in Call : job[c] = Idle
  /\ timers <= IF state = "down" THEN link ELSE link - 1

\* Only calls that were made are sent, and only those wait in l_pending that
\* their closure made before its link had opened.
MadeInv ==
  /\ Len(made) <= MaxCalls
  /\ \A c \in Call : c > Len(made) => sent[c] = 0 /\ job[c] = Idle
  /\ \A i \in 1 .. Len(shared) :
       shared[i] <= Len(made) /\ made[shared[i]].early

\* A call is sent once over each link at most.
SentInv ==
  \A c \in Call : /\ sent[c] <= link
                  /\ ~opened => sent[c] = 0 \/ sent[c] < link

\* The callback of an API is that of the latest call of it, or there is none.
CallbackInv ==
  /\ \A a \in Api : callback[a] # None =>
       callback[a] <= Len(made) /\ made[callback[a]].api = a
  /\ \A c \in 1 .. Len(made) : callback[made[c].api] # None =>
       c <= callback[made[c].api]

RepliesMade == \A c \in Call : replies[c] # {} => c <= Len(made)

Inv ==
  /\ TypeOK /\ LinkInv /\ MadeInv /\ SentInv
  /\ CallbackInv /\ RepliesMade /\ RepliesForward /\ SentAgain /\ AllAgreed

-----------------------------------------------------------------------------
(* The values of a job.                                                    *)

LEMMA JobValues ==
  /\ Idle \in Job /\ Idle.phase = "none"
  /\ Reply \in Job /\ Reply.phase = "reply"
  /\ \A a \in Api : /\ Asked(a) \in Job
                    /\ Asked(a).phase \in {"before", "body"}
                    /\ a \in Watched => Asked(a).phase = "before"
<1>1. [i \in 1 .. Pre |-> "none"] \in Verdicts
  BY DEF Verdicts
<1> QED BY <1>1 DEF Idle, Reply, Asked, Job

\* When all before-actions have agreed, and only then, the API runs.
LEMMA ResolvedValues ==
  ASSUME NEW v \in Verdicts
  PROVE  /\ Resolved(v) \in {"reply", "body", "before"}
         /\ Resolved(v) = "body" => \A i \in 1 .. Pre : v[i] = "ok"
<1>1. DOMAIN v = 1 .. Pre
  BY DEF Verdicts
<1>2. CASE \E i \in DOMAIN v : v[i] = "error" /\ \A k \in 1 .. i - 1 : v[k] = "ok"
  <2>1. ~ \A i \in DOMAIN v : v[i] = "ok"
    BY <1>2
  <2>2. Resolved(v) = "reply"
    BY <1>2, <2>1 DEF Resolved
  <2> QED BY <2>2
<1>3. CASE /\ ~ \E i \in DOMAIN v : v[i] = "error" /\ \A k \in 1 .. i - 1 : v[k] = "ok"
           /\ \A i \in DOMAIN v : v[i] = "ok"
  BY <1>1, <1>3 DEF Resolved
<1>4. CASE /\ ~ \E i \in DOMAIN v : v[i] = "error" /\ \A k \in 1 .. i - 1 : v[k] = "ok"
           /\ ~ \A i \in DOMAIN v : v[i] = "ok"
  <2>1. Resolved(v) = "before"
    BY <1>4 DEF Resolved
  <2> QED BY <2>1
<1> QED BY <1>2, <1>3, <1>4

LEMMA MadeValues ==
  ASSUME TypeOK
  PROVE  /\ Len(made) \in Nat /\ Len(shared) \in Nat
         /\ \A c \in 1 .. Len(made) : made[c].api \in Api /\ made[c].early \in BOOLEAN
         /\ \A i \in 1 .. Len(shared) : shared[i] \in Call
         /\ ToSet(shared) = {shared[i] : i \in 1 .. Len(shared)}
<1>1. /\ made \in Seq([api : Api, early : BOOLEAN]) /\ shared \in Seq(Call)
  BY DEF TypeOK
<1>2. \A c \in 1 .. Len(made) : made[c] \in [api : Api, early : BOOLEAN]
  BY <1>1, ElementOfSeq
<1>3. \A i \in 1 .. Len(shared) : shared[i] \in Call
  BY <1>1, ElementOfSeq
<1> QED BY <1>1, <1>2, <1>3, LenProperties DEF ToSet

-----------------------------------------------------------------------------
(* The steps.                                                              *)

LEMMA InitInv == Init => Inv
<1> SUFFICES ASSUME Init PROVE Inv
  OBVIOUS
<1>1. /\ made = << >> /\ shared = << >> /\ Len(made) = 0 /\ Len(shared) = 0
      /\ made \in Seq([api : Api, early : BOOLEAN]) /\ shared \in Seq(Call)
  BY EmptySeq DEF Init
<1>2. TypeOK
  <2>1. job \in [Call -> Job]
    BY JobValues DEF Init
  <2>2. /\ link \in 0 .. MaxLinks /\ timers \in 0 .. MaxLinks
        /\ sent \in [Call -> 0 .. MaxLinks]
    BY RemoteCallsAssumption DEF Init
  <2>3. callback \in [Api -> Call \cup {None}] /\ replies \in [Call -> SUBSET Call]
    BY DEF Init
  <2> QED BY <1>1, <2>1, <2>2, <2>3 DEF Init, TypeOK
<1>3. LinkInv /\ MadeInv /\ SentInv /\ CallbackInv /\ RepliesMade
  BY <1>1, RemoteCallsAssumption DEF Init, LinkInv, MadeInv, SentInv, CallbackInv, RepliesMade
<1>4. RepliesForward /\ SentAgain
  BY DEF Init, RepliesForward, SentAgain
<1>5. AllAgreed
  BY JobValues DEF Init, AllAgreed
<1> QED BY <1>2, <1>3, <1>4, <1>5 DEF Inv

\* A new link.
LEMMA ConnectStep ==
  ASSUME Inv, state = "down", Connect, timers' \in {timers, timers - 1}, timers' >= 0
  PROVE  Inv'
<1> USE DEF Inv
<1>1. TypeOK'
  <2>1. link' \in 0 .. MaxLinks /\ timers' \in 0 .. MaxLinks
    BY RemoteCallsAssumption DEF TypeOK, Connect
  <2>2. callback' \in [Api -> Call \cup {None}]
    BY DEF Connect
  <2> QED BY <2>1, <2>2 DEF TypeOK, Connect
<1>2. LinkInv'
  BY DEF LinkInv, TypeOK, Connect
<1>3. MadeInv' /\ RepliesMade' /\ RepliesForward' /\ SentAgain' /\ AllAgreed'
  BY DEF MadeInv, RepliesMade, RepliesForward, SentAgain, AllAgreed, Connect
<1>4. SentInv'
  BY DEF SentInv, TypeOK, Connect
<1>5. CallbackInv'
  <2>1. /\ \A a \in Api : callback'[a] = None
        /\ \A c \in 1 .. Len(made) : made[c].api \in Api
    BY MadeValues DEF Connect
  <2> QED BY <2>1 DEF CallbackInv, Connect
<1> QED BY <1>1, <1>2, <1>3, <1>4, <1>5

LEMMA RetryStep ==
  ASSUME Inv, Retry
  PROVE  Inv'
<1>1. timers \in Nat /\ timers > 0 /\ timers' = timers - 1
  BY DEF Inv, TypeOK, Retry
<1>2. CASE state = "down" /\ Connect
  BY <1>1, <1>2, ConnectStep
<1>3. CASE /\ state # "down"
           /\ UNCHANGED <<link, state, opened>>
           /\ UNCHANGED <<made, shared, callback, job, sent, replies>>
  <2>1. TypeOK'
    BY <1>1, <1>3, RemoteCallsAssumption DEF Inv, TypeOK
  <2>2. LinkInv'
    BY <1>1, <1>3 DEF Inv, LinkInv, TypeOK
  <2>3. MadeInv' /\ SentInv' /\ CallbackInv' /\ RepliesMade'
    BY <1>3 DEF Inv, MadeInv, SentInv, CallbackInv, RepliesMade
  <2>4. RepliesForward' /\ SentAgain' /\ AllAgreed'
    BY <1>3 DEF Inv, RepliesForward, SentAgain, AllAgreed
  <2> QED BY <2>1, <2>2, <2>3, <2>4 DEF Inv
<1> QED BY <1>2, <1>3 DEF Retry

\* What waits is sent: once more, over a link that is new.
LEMMA OpenStep ==
  ASSUME Inv, Open
  PROVE  Inv'
<1> USE DEF Inv
<1>0. /\ shared \in Seq(Call) /\ ToSet(shared) \subseteq Call
      /\ \A c \in ToSet(shared) : c \in 1 .. Len(made) /\ made[c].early
      /\ \A c \in 1 .. Len(made) : made[c].api \in Api
  <2>1. ASSUME NEW c \in ToSet(shared)
        PROVE  c \in Call /\ c \in 1 .. Len(made) /\ made[c].early
    <3>1. PICK i \in 1 .. Len(shared) : c = shared[i]
      BY MadeValues
    <3>2. c \in Call /\ c <= Len(made) /\ made[c].early
      BY <3>1, MadeValues DEF MadeInv
    <3> QED BY <3>2, MadeValues DEF Call
  <2> QED BY <2>1, MadeValues DEF TypeOK
<1>1. ~opened /\ link \in 1 .. MaxLinks
  BY DEF Open, LinkInv, TypeOK
<1>2. ASSUME NEW c \in Call
      PROVE  /\ job'[c] \in Job
             /\ c \in ToSet(shared) =>
                  /\ job'[c] = Asked(made[c].api)
                  /\ sent'[c] = sent[c] + 1
             /\ c \notin ToSet(shared) => job'[c] = Idle /\ sent'[c] = sent[c]
             /\ sent'[c] \in 0 .. link
  <2>1. /\ job'[c] = IF c \in ToSet(shared) THEN Asked(made[c].api) ELSE Idle
        /\ sent'[c] = sent[c] + IF c \in ToSet(shared) THEN 1 ELSE 0
    BY DEF Open
  <2>2. sent[c] \in Nat /\ (sent[c] = 0 \/ sent[c] < link)
    BY <1>1, RemoteCallsAssumption DEF SentInv, TypeOK
  <2>3. CASE c \in ToSet(shared)
    BY <1>0, <1>1, <2>1, <2>2, <2>3, JobValues
  <2>4. CASE c \notin ToSet(shared)
    BY <1>1, <2>1, <2>2, <2>4, JobValues
  <2> QED BY <2>3, <2>4
<1>3. TypeOK'
  <2>1. job' \in [Call -> Job]
    BY <1>2 DEF Open
  <2>2. sent' \in [Call -> 0 .. MaxLinks]
    BY <1>1, <1>2, RemoteCallsAssumption DEF Open
  <2> QED BY <2>1, <2>2 DEF TypeOK, Open
<1>4. LinkInv'
  BY <1>1 DEF LinkInv, Open, TypeOK
<1>5. MadeInv'
  BY <1>0, <1>2 DEF MadeInv, Open, TypeOK, Call
<1>6. SentInv'
  BY <1>2 DEF SentInv, Open
<1>7. CallbackInv' /\ RepliesMade' /\ RepliesForward'
  BY DEF CallbackInv, RepliesMade, RepliesForward, Open
<1>8. SentAgain'
  BY <1>0, <1>2 DEF SentAgain, Open
<1>9. AllAgreed'
  BY <1>0, <1>2, JobValues DEF AllAgreed, Open
<1> QED BY <1>3, <1>4, <1>5, <1>6, <1>7, <1>8, <1>9

LEMMA CloseStep ==
  ASSUME Inv, Close
  PROVE  Inv'
<1> USE DEF Inv
<1>1. TypeOK'
  <2>1. job' \in [Call -> Job]
    BY JobValues DEF Close
  <2>2. timers' \in 0 .. MaxLinks
    BY RemoteCallsAssumption DEF TypeOK, LinkInv, Close
  <2> QED BY <2>1, <2>2 DEF TypeOK, Close
<1>2. LinkInv'
  BY DEF LinkInv, TypeOK, Close
<1>3. MadeInv' /\ SentInv' /\ CallbackInv' /\ RepliesMade'
  BY DEF MadeInv, SentInv, CallbackInv, RepliesMade, Close
<1>4. RepliesForward' /\ SentAgain'
  BY DEF RepliesForward, SentAgain, Close
<1>5. AllAgreed'
  BY JobValues DEF AllAgreed, Close
<1> QED BY <1>1, <1>2, <1>3, <1>4, <1>5

\* A call is made: its number is above all others, and it takes over the
\* callback of its API.
LEMMA MakeStep ==
  ASSUME Inv, NEW c \in Call, NEW a \in Api, Make(c, a)
  PROVE  /\ made' \in Seq([api : Api, early : BOOLEAN])
         /\ callback' \in [Api -> Call \cup {None}]
         /\ c = Len(made) + 1 /\ Len(made') = c
         /\ \A d \in 1 .. Len(made) : made'[d] = made[d]
         /\ made'[c] = [api |-> a, early |-> ~opened]
         /\ CallbackInv'
<1> USE DEF Inv
<1>1. /\ made \in Seq([api : Api, early : BOOLEAN]) /\ opened \in BOOLEAN
      /\ [api |-> a, early |-> ~opened] \in [api : Api, early : BOOLEAN]
      /\ made' = Append(made, [api |-> a, early |-> ~opened])
      /\ c = Len(made) + 1 /\ Len(made) \in Nat
  BY MadeValues DEF Make, TypeOK
<1>2. /\ made' \in Seq([api : Api, early : BOOLEAN])
      /\ Len(made') = c
      /\ \A d \in 1 .. Len(made) : made'[d] = made[d]
      /\ made'[c] = [api |-> a, early |-> ~opened]
  BY <1>1, AppendProperties
<1>3. /\ callback' \in [Api -> Call \cup {None}]
      /\ callback'[a] = c
      /\ \A b \in Api \ {a} : callback'[b] = callback[b]
  BY DEF Make, TypeOK
<1>4. \A b \in Api : callback'[b] # None =>
        callback'[b] <= Len(made') /\ made'[callback'[b]].api = b
  <2> SUFFICES ASSUME NEW b \in Api, callback'[b] # None
               PROVE  callback'[b] <= Len(made') /\ made'[callback'[b]].api = b
    OBVIOUS
  <2>1. CASE b = a
    BY <1>1, <1>2, <1>3, <2>1
  <2>2. CASE b # a
    <3>1. callback[b] \in Call /\ callback[b] <= Len(made) /\ made[callback[b]].api = b
      BY <1>3, <2>2 DEF CallbackInv, TypeOK
    <3> QED BY <1>1, <1>2, <1>3, <2>2, <3>1 DEF Call
  <2> QED BY <2>1, <2>2
<1>5. \A d \in 1 .. Len(made') : callback'[made'[d].api] # None =>
        d <= callback'[made'[d].api]
  <2> SUFFICES ASSUME NEW d \in 1 .. Len(made'), callback'[made'[d].api] # None
               PROVE  d <= callback'[made'[d].api]
    OBVIOUS
  <2>1. made'[d].api \in Api
    <3>1. made'[d] \in [api : Api, early : BOOLEAN]
      BY <1>2, ElementOfSeq
    <3> QED BY <3>1
  <2>2. CASE made'[d].api = a
    BY <1>1, <1>2, <1>3, <2>2
  <2>3. CASE made'[d].api # a
    <3>1. d \in 1 .. Len(made) /\ made'[d] = made[d]
      BY <1>1, <1>2, <2>3
    <3> QED BY <1>3, <2>1, <2>3, <3>1 DEF CallbackInv
  <2> QED BY <2>2, <2>3
<1> QED BY <1>1, <1>2, <1>3, <1>4, <1>5 DEF CallbackInv

\* What a new call leaves of the replies given and the calls sent again.
LEMMA MakeKeeps ==
  ASSUME Inv, NEW c \in Call, NEW a \in Api, Make(c, a)
  PROVE  /\ RepliesMade' /\ RepliesForward'
         /\ \A d \in Call \ {c} : sent[d] > 1 => made'[d].early
         /\ \A i \in 1 .. Len(shared) : shared[i] <= Len(made') /\ made'[shared[i]].early
<1> USE DEF Inv
<1>1. /\ c = Len(made) + 1 /\ Len(made') = c /\ Len(made) \in Nat
      /\ \A d \in 1 .. Len(made) : made'[d] = made[d]
      /\ replies' = replies
  BY MakeStep, MadeValues DEF Make
<1>2. RepliesMade'
  BY <1>1 DEF RepliesMade, Call
<1>3. RepliesForward'
  <2> SUFFICES ASSUME NEW e \in Call, NEW d \in replies[e]
               PROVE  made'[d].api = made'[e].api /\ d <= e
    BY <1>1 DEF RepliesForward
  <2>1. d \in Call /\ made[d].api = made[e].api /\ d <= e /\ e <= Len(made)
    BY DEF RepliesForward, RepliesMade, TypeOK
  <2> QED BY <1>1, <2>1 DEF Call
<1>4. ASSUME NEW d \in Call \ {c}, sent[d] > 1
      PROVE  made'[d].early
  <2>1. d <= Len(made) /\ made[d].early
    BY <1>1, <1>4 DEF MadeInv, SentAgain, Call
  <2> QED BY <1>1, <2>1 DEF Call
<1>5. ASSUME NEW i \in 1 .. Len(shared)
      PROVE  shared[i] <= Len(made') /\ made'[shared[i]].early
  <2>1. shared[i] \in Call /\ shared[i] <= Len(made) /\ made[shared[i]].early
    BY MadeValues DEF MadeInv
  <2> QED BY <1>1, <2>1 DEF Call
<1> QED BY <1>2, <1>3, <1>4, <1>5

LEMMA SendNowStep ==
  ASSUME Inv, NEW c \in Call, NEW a \in Api, SendNow(c, a)
  PROVE  Inv'
<1> USE DEF Inv
<1>1. /\ Make(c, a) /\ state = "open" /\ opened /\ link \in 1 .. MaxLinks
      /\ UNCHANGED <<link, state, opened, timers, replies, shared>>
      /\ job' = [job EXCEPT ![c] = Asked(a)]
      /\ sent' = [sent EXCEPT ![c] = @ + 1]
  BY DEF SendNow, Make, link_vars, LinkInv, TypeOK
<1>2. /\ c = Len(made) + 1 /\ Len(made') = c /\ Len(made) \in Nat
      /\ made'[c] = [api |-> a, early |-> ~opened]
      /\ \A d \in 1 .. Len(made) : made'[d] = made[d]
  BY <1>1, MakeStep, MadeValues
<1>3. sent[c] = 0 /\ job[c] = Idle
  BY <1>2 DEF MadeInv
<1>4. TypeOK'
  <2>1. job' \in [Call -> Job]
    BY <1>1, JobValues DEF TypeOK
  <2>2. sent' \in [Call -> 0 .. MaxLinks]
    BY <1>1, <1>3, RemoteCallsAssumption DEF TypeOK
  <2> QED BY <1>1, <2>1, <2>2, MakeStep DEF TypeOK
<1>5. LinkInv'
  BY <1>1, <1>2 DEF LinkInv, TypeOK
<1>6. MadeInv'
  BY <1>1, <1>2, MakeKeeps DEF MadeInv, Call, TypeOK
<1>7. SentInv'
  BY <1>1, <1>3 DEF SentInv, TypeOK
<1>8. SentAgain'
  BY <1>1, <1>3, MakeKeeps DEF SentAgain, TypeOK
<1>9. AllAgreed'
  <2> SUFFICES ASSUME NEW d \in Call, job'[d].phase \in {"body", "after"},
                      made'[d].api \in Watched, NEW i \in 1 .. Pre
               PROVE  job'[d].verdict[i] = "ok"
    BY DEF AllAgreed
  <2>1. CASE d = c
    BY <1>1, <1>2, <2>1, JobValues DEF TypeOK
  <2>2. CASE d # c
    <3>1. job'[d] = job[d]
      BY <1>1, <2>2 DEF TypeOK
    <3>2. d <= Len(made)
      BY <1>2, <3>1, JobValues DEF MadeInv, Call
    <3> QED BY <1>2, <3>1, <3>2 DEF AllAgreed, Call
  <2> QED BY <2>1, <2>2
<1> QED BY <1>1, <1>4, <1>5, <1>6, <1>7, <1>8, <1>9, MakeStep, MakeKeeps

LEMMA WaitStep ==
  ASSUME Inv, NEW c \in Call, NEW a \in Api, Wait(c, a)
  PROVE  Inv'
<1> USE DEF Inv
<1>1. /\ Make(c, a) /\ state # "open" /\ link > 0
      /\ UNCHANGED <<link, state, opened, timers, replies, job, sent>>
      /\ shared' = IF opened THEN shared ELSE Append(shared, c)
  BY DEF Wait, Make, link_vars
<1>2. /\ c = Len(made) + 1 /\ Len(made') = c /\ Len(made) \in Nat
      /\ made'[c] = [api |-> a, early |-> ~opened]
      /\ \A d \in 1 .. Len(made) : made'[d] = made[d]
  BY <1>1, MakeStep, MadeValues
<1>3. sent[c] = 0
  BY <1>2 DEF MadeInv
<1>4. /\ shared' \in Seq(Call)
      /\ \A i \in 1 .. Len(shared') :
           shared'[i] <= Len(made') /\ made'[shared'[i]].early
  <2>1. CASE opened
    BY <1>1, <2>1, MakeKeeps DEF TypeOK
  <2>2. CASE ~opened
    <3>1. /\ shared' \in Seq(Call) /\ Len(shared') = Len(shared) + 1
          /\ \A i \in 1 .. Len(shared) : shared'[i] = shared[i]
          /\ shared'[Len(shared) + 1] = c
      BY <1>1, <2>2, AppendProperties DEF TypeOK
    <3>2. ASSUME NEW i \in 1 .. Len(shared')
          PROVE  shared'[i] <= Len(made') /\ made'[shared'[i]].early
      <4>1. CASE i = Len(shared) + 1
        <5>1. made'[c].early
          <6>1. made'[c].early = ~opened
            BY <1>2
          <6> QED BY <2>2, <6>1, Zenon
        <5> QED BY <1>2, <3>1, <4>1, <5>1 DEF Call
      <4>2. CASE i # Len(shared) + 1
        <5>1. i \in 1 .. Len(shared)
          BY <3>1, <4>2, MadeValues
        <5> QED BY <1>1, <3>1, <5>1, MakeKeeps
      <4> QED BY <4>1, <4>2
    <3> QED BY <3>1, <3>2
  <2> QED BY <2>1, <2>2
<1>5. TypeOK'
  BY <1>1, <1>4, MakeStep DEF TypeOK
<1>6. LinkInv'
  BY <1>1, <1>2 DEF LinkInv, TypeOK
<1>7. MadeInv'
  BY <1>1, <1>2, <1>4 DEF MadeInv, Call
<1>8. SentInv'
  BY <1>1 DEF SentInv
<1>9. SentAgain'
  BY <1>1, <1>3, MakeKeeps DEF SentAgain
<1>10. AllAgreed'
  BY <1>1, JobValues DEF AllAgreed, LinkInv
<1> QED BY <1>1, <1>5, <1>6, <1>7, <1>8, <1>9, <1>10, MakeStep, MakeKeeps

\* A reply goes to the latest call of its API, which is not earlier.
LEMMA MessageStep ==
  ASSUME Inv, NEW c \in Call, Message(c)
  PROVE  Inv'
<1> USE DEF Inv
<1> DEFINE to == callback[made[c].api]
<1>1. /\ job[c].phase = "reply"
      /\ job' = [job EXCEPT ![c] = Idle]
      /\ replies' = IF to = None THEN replies
                    ELSE [replies EXCEPT ![to] = @ \cup {c}]
      /\ UNCHANGED <<link, state, opened, timers, made, shared, callback, sent>>
  BY DEF Message, link_vars
<1>2. c \in 1 .. Len(made) /\ made[c].api \in Api
  <2>1. c <= Len(made)
    BY <1>1, MadeValues, JobValues DEF MadeInv, Call
  <2> QED BY <2>1, MadeValues DEF Call
<1>3. to # None =>
        to \in Call /\ c <= to /\ to <= Len(made) /\ made[to].api = made[c].api
  BY <1>2 DEF CallbackInv, TypeOK
<1>4. \A d \in Call : job'[d] = job[d] \/ job'[d] = Idle
  BY <1>1 DEF TypeOK
<1>5. TypeOK'
  <2>1. job' \in [Call -> Job]
    BY <1>1, JobValues DEF TypeOK
  <2>2. replies' \in [Call -> SUBSET Call]
    BY <1>1, <1>3 DEF TypeOK
  <2> QED BY <1>1, <2>1, <2>2 DEF TypeOK
<1>6. LinkInv' /\ MadeInv'
  BY <1>1, <1>4 DEF LinkInv, MadeInv
<1>7. SentInv' /\ CallbackInv' /\ SentAgain'
  BY <1>1 DEF SentInv, CallbackInv, SentAgain
<1>8. RepliesMade'
  BY <1>1, <1>3 DEF RepliesMade, TypeOK
<1>9. RepliesForward'
  BY <1>1, <1>3 DEF RepliesForward, TypeOK
<1>10. AllAgreed'
  BY <1>1, <1>4, JobValues DEF AllAgreed
<1> QED BY <1>5, <1>6, <1>7, <1>8, <1>9, <1>10

\* The other server gets on with a request, which changes its job only.
LEMMA GoesStep ==
  ASSUME Inv, NEW c \in Call, NEW j \in Job, Goes(c, j), job[c] # Idle,
         j.phase \in {"body", "after"} /\ made[c].api \in Watched =>
           \A i \in 1 .. Pre : j.verdict[i] = "ok"
  PROVE  Inv'
<1> USE DEF Inv
<1>1. /\ job' = [job EXCEPT ![c] = j]
      /\ UNCHANGED <<link, state, opened, timers, made, shared, callback, sent, replies>>
  BY DEF Goes, link_vars
<1>2. state = "open" /\ ~ c > Len(made)
  BY DEF LinkInv, MadeInv, TypeOK
<1>3. TypeOK'
  BY <1>1 DEF TypeOK
<1>4. LinkInv' /\ MadeInv'
  BY <1>1, <1>2 DEF LinkInv, MadeInv, TypeOK
<1>5. SentInv' /\ CallbackInv' /\ RepliesMade' /\ RepliesForward' /\ SentAgain'
  BY <1>1 DEF SentInv, CallbackInv, RepliesMade, RepliesForward, SentAgain
<1>6. AllAgreed'
  BY <1>1 DEF AllAgreed, TypeOK
<1> QED BY <1>3, <1>4, <1>5, <1>6

LEMMA ServesStep ==
  ASSUME Inv, NEW c \in Call, Serves(c)
  PROVE  Inv'
<1>1. /\ job[c] \in Job /\ job[c].verdict \in Verdicts
      /\ job[c].phase \in {"none", "before", "body", "after", "reply"}
  BY DEF Inv, TypeOK, Job
<1>2. ASSUME NEW i \in 1 .. Pre, BeforeAction(c, i)
      PROVE  Inv'
  <2>1. PICK said \in {"ok", "error"} :
          LET v == [job[c].verdict EXCEPT ![i] = said]
          IN  Goes(c, IF Resolved(v) = "reply" THEN Reply
                      ELSE [phase |-> Resolved(v), verdict |-> v])
    BY <1>2 DEF BeforeAction
  <2> DEFINE v == [job[c].verdict EXCEPT ![i] = said]
             j == IF Resolved(v) = "reply" THEN Reply
                  ELSE [phase |-> Resolved(v), verdict |-> v]
  <2>2. v \in Verdicts
    BY <1>1 DEF Verdicts
  <2>3. job[c] # Idle
    BY <1>2, JobValues DEF BeforeAction
  <2>4. j \in Job
    BY <2>2, JobValues, ResolvedValues DEF Job
  <2>5. j.phase \in {"body", "after"} => \A k \in 1 .. Pre : j.verdict[k] = "ok"
    <3>1. CASE Resolved(v) = "reply"
      BY <3>1, JobValues
    <3>2. CASE Resolved(v) # "reply"
      <4>1. j.phase = Resolved(v) /\ j.verdict = v
        BY <3>2
      <4> QED BY <2>2, <4>1, ResolvedValues
    <3> QED BY <3>1, <3>2
  <2>6. Goes(c, j)
    BY <2>1
  <2> HIDE DEF j
  <2> QED BY <2>3, <2>4, <2>5, <2>6, GoesStep
<1>3. ASSUME Body(c)
      PROVE  Inv'
  <2>1. job[c].phase = "body" /\ job[c] # Idle
    BY <1>3, JobValues DEF Body
  <2>2. CASE /\ made[c].api \in Watched
              /\ Goes(c, [job[c] EXCEPT !.phase = "after"])
    <3> DEFINE j == [job[c] EXCEPT !.phase = "after"]
    <3>1. j \in Job /\ j.phase = "after" /\ j.verdict = job[c].verdict
      BY <1>1 DEF Job
    <3>2. \A k \in 1 .. Pre : j.verdict[k] = "ok"
      BY <2>1, <2>2, <3>1 DEF Inv, AllAgreed
    <3>3. Goes(c, j)
      BY <2>2
    <3> HIDE DEF j
    <3> QED BY <2>1, <3>1, <3>2, <3>3, GoesStep
  <2>3. CASE Goes(c, Idle) \/ Goes(c, Reply)
    <3>1. PICK j \in {Reply, Idle} : Goes(c, j)
      BY <2>3
    <3> QED BY <2>1, <3>1, JobValues, GoesStep
  <2> QED BY <1>3, <2>2, <2>3 DEF Body
<1>4. ASSUME AfterAction(c)
      PROVE  Inv'
  <2>1. PICK j \in {Reply, Idle} : Goes(c, j)
    BY <1>4 DEF AfterAction
  <2>2. job[c] # Idle
    BY <1>4, JobValues DEF AfterAction
  <2>3. j \in Job /\ j.phase \notin {"body", "after"}
    BY <2>1, JobValues
  <2> QED BY <2>1, <2>2, <2>3, GoesStep
<1> QED BY <1>2, <1>3, <1>4 DEF Serves

LEMMA NextInv ==
  ASSUME Inv, [Next]_vars
  PROVE  Inv'
<1>1. CASE AddRemote
  <2>1. timers \in Nat /\ timers' = timers
    BY <1>1 DEF Inv, TypeOK, AddRemote
  <2> QED BY <1>1, <2>1, ConnectStep DEF AddRemote
<1>2. CASE Retry
  BY <1>2, RetryStep
<1>3. CASE Open
  BY <1>3, OpenStep
<1>4. CASE Close
  BY <1>4, CloseStep
<1>5. ASSUME NEW c \in Call, NEW a \in Api, SendNow(c, a)
      PROVE  Inv'
  BY <1>5, SendNowStep
<1>6. ASSUME NEW c \in Call, NEW a \in Api, Wait(c, a)
      PROVE  Inv'
  BY <1>6, WaitStep
<1>7. ASSUME NEW c \in Call, Message(c)
      PROVE  Inv'
  BY <1>7, MessageStep
<1>8. ASSUME NEW c \in Call, Serves(c)
      PROVE  Inv'
  BY <1>8, ServesStep
<1>9. CASE UNCHANGED vars
  BY <1>9 DEF vars, link_vars, Inv, TypeOK, LinkInv, MadeInv, SentInv, CallbackInv,
              RepliesMade, RepliesForward, SentAgain, AllAgreed
<1> QED BY <1>1, <1>2, <1>3, <1>4, <1>5, <1>6, <1>7, <1>8, <1>9 DEF Next

LEMMA Invariance == Spec => []Inv
BY InitInv, NextInv, PTL DEF Spec

-----------------------------------------------------------------------------
(* The theorems.                                                           *)

\* Every variable has its type: in particular no call is sent more often than
\* there are links, and no more timers run than links were lost.
THEOREM TypeCorrect == Spec => []TypeOK
BY Invariance, PTL DEF Inv

\* A reply reaches a caller of its API, and not one that asked before the call
\* that it answers, however calls overlap and links come and go.
THEOREM RepliesInOrder == Spec => []RepliesForward
BY Invariance, PTL DEF Inv

\* Only a call made before its closure's link had opened is sent twice.
THEOREM SentAgainEarly == Spec => []SentAgain
BY Invariance, PTL DEF Inv

\* No API with before-actions runs before all of these have agreed.
THEOREM RunsAgreed == Spec => []AllAgreed
BY Invariance, PTL DEF Inv

=============================================================================
