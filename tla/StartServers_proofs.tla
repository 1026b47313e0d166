------------------------ MODULE StartServers_proofs ------------------------
(***************************************************************************)
(* Proofs about StartServers, for any requests, queries, types and sizes.  *)
(***************************************************************************)
EXTENDS StartServers, FiniteSetTheorems, NaturalsInduction, SequenceTheorems,
        WellFoundedInduction, TLAPS

\* onFound is called twice at most.
LooksOnce ==
  \A c \in Call :
    /\ looks[c] \in {"new", "frontier"} => found[c] = 0
    /\ looks[c] = "package" => found[c] = 1

\* The chains of timers of a call and its count: all chains go on while there
\* are too few processes, and each that has stopped did so at the size or one
\* process after the other.
Chain(c) ==
  /\ timers[c] <= found[c]
  /\ found[c] = 0 => count(c) = 0
  /\ \/ timers[c] = found[c] /\ count(c) < size[c]
     \/ timers[c] < found[c] /\ count(c) = size[c] + found[c] - timers[c] - 1

Chains == \A c \in Call : Chain(c)

CallInv == TypeOK /\ LooksOnce /\ Chains

-----------------------------------------------------------------------------
(* Sequences and processes.                                                *)

LEMMA RemoveAtElements ==
  ASSUME NEW S, NEW s \in Seq(S), NEW i \in DOMAIN s
  PROVE  /\ RemoveAt(s, i) \in Seq(S)
         /\ DOMAIN RemoveAt(s, i) = 1 .. Len(s) - 1
         /\ \A k \in 1 .. Len(s) - 1 :
              RemoveAt(s, i)[k] = IF k < i THEN s[k] ELSE s[k + 1]
<1> DEFINE u == SubSeq(s, 1, i - 1)
           v == SubSeq(s, i + 1, Len(s))
<1>1. Len(s) \in Nat /\ i \in 1 .. Len(s)
  OBVIOUS
<1>2. u \in Seq(S) /\ Len(u) = i - 1 /\ \A k \in 1 .. i - 1 : u[k] = s[k]
  BY <1>1, SubSeqProperties
<1>3. v \in Seq(S) /\ Len(v) = Len(s) - i
      /\ \A k \in 1 .. Len(s) - i : v[k] = s[i + k]
  BY <1>1, SubSeqProperties
<1> QED
  <2> HIDE DEF u, v
  <2>1. /\ u \o v \in Seq(S)
        /\ Len(u \o v) = Len(s) - 1
        /\ \A k \in 1 .. Len(s) - 1 :
             (u \o v)[k] = IF k <= i - 1 THEN u[k] ELSE v[k - (i - 1)]
    <3>1. /\ u \o v \in Seq(S)
          /\ Len(u \o v) = Len(u) + Len(v)
          /\ \A k \in 1 .. Len(u) + Len(v) :
               (u \o v)[k] = IF k <= Len(u) THEN u[k] ELSE v[k - Len(u)]
      BY <1>2, <1>3, ConcatProperties
    <3>2. Len(u) = i - 1 /\ Len(u) + Len(v) = Len(s) - 1
      BY <1>1, <1>2, <1>3
    <3> QED BY <3>1, <3>2
  <2>2. ASSUME NEW k \in 1 .. Len(s) - 1
        PROVE  (u \o v)[k] = IF k < i THEN s[k] ELSE s[k + 1]
    <3>1. CASE k < i
      <4>1. k \in 1 .. i - 1 /\ k <= i - 1
        BY <1>1, <3>1
      <4>2. (u \o v)[k] = u[k] /\ u[k] = s[k]
        BY <1>2, <2>1, <4>1
      <4> QED BY <3>1, <4>2
    <3>2. CASE ~ k < i
      <4>1. k - (i - 1) \in 1 .. Len(s) - i /\ ~ k <= i - 1
            /\ i + (k - (i - 1)) = k + 1
        BY <1>1, <3>2
      <4>2. (u \o v)[k] = v[k - (i - 1)] /\ v[k - (i - 1)] = s[k + 1]
        BY <1>3, <2>1, <4>1
      <4> QED BY <3>2, <4>2
    <3> QED BY <3>1, <3>2
  <2>3. DOMAIN (u \o v) = 1 .. Len(s) - 1
    BY <2>1
  <2>4. RemoveAt(s, i) = u \o v
    BY DEF RemoveAt, u, v
  <2> QED BY <2>1, <2>2, <2>3, <2>4

LEMMA SizePositive ==
  ASSUME TypeOK, NEW c \in Call
  PROVE  size[c] \in Nat /\ size[c] >= 1
BY StartAssumption DEF TypeOK

LEMMA ProcessIs ==
  ASSUME TypeOK, NEW p
  PROVE  p \in Process <=> p \in ProcessId /\ p[2] \in 1 .. count(p[1])
<1>1. ASSUME p \in Process
      PROVE  p \in ProcessId /\ p[2] \in 1 .. count(p[1])
  <2>1. PICK c \in Call : p \in {<<c, k>> : k \in 1 .. count(c)}
    BY <1>1 DEF Process
  <2>2. PICK k \in 1 .. count(c) : p = <<c, k>>
    BY <2>1
  <2>3. count(c) \in Nat
    BY DEF TypeOK, count
  <2> QED BY <2>1, <2>2, <2>3 DEF ProcessId
<1>2. ASSUME p \in ProcessId, p[2] \in 1 .. count(p[1])
      PROVE  p \in Process
  <2>1. p[1] \in Call /\ p = <<p[1], p[2]>>
    BY <1>2 DEF ProcessId
  <2>2. p \in {<<p[1], k>> : k \in 1 .. count(p[1])}
    BY <1>2, <2>1
  <2> QED BY <2>1, <2>2 DEF Process
<1> QED BY <1>1, <1>2

\* The processes that have got on, which may be in a task or an answer.
Reported == {p \in Process : State(p) # "launched"}

LEMMA ReportedIs ==
  ASSUME TypeOK, NEW p
  PROVE  p \in Reported <=>
           /\ p \in ProcessId
           /\ p[2] \in 1 .. Len(state[p[1]])
           /\ state[p[1]][p[2]] # "launched"
BY ProcessIs DEF Reported, State, count

-----------------------------------------------------------------------------
(* Types.                                                                  *)

LEMMA TypeInit == Init => TypeOK
BY StartAssumption DEF Init, TypeOK

LEMMA StartServerType ==
  ASSUME TypeOK, NEW c \in Call, NEW n \in Nat, StartServer(c, n)
  PROVE  /\ state' \in [Call -> Seq({"launched", "reported", "serving", "failed"})]
         /\ timers' \in [Call -> Nat]
BY DEF TypeOK, StartServer, count

LEMMA OnFoundType ==
  ASSUME TypeOK, NEW c \in Call, found[c] \in 0 .. 1, OnFound(c)
  PROVE  /\ state' \in [Call -> Seq({"launched", "reported", "serving", "failed"})]
         /\ timers' \in [Call -> Nat]
         /\ found' \in [Call -> 0 .. 2]
         /\ pendingStart' \in Seq(Task)
<1>1. timers[c] \in Nat
  BY DEF TypeOK
<1>2. /\ state' \in [Call -> Seq({"launched", "reported", "serving", "failed"})]
      /\ timers' \in [Call -> Nat]
  BY <1>1, StartServerType DEF OnFound
<1>3. found' \in [Call -> 0 .. 2]
  BY DEF OnFound, TypeOK
<1>4. [call |-> c, servers |-> {}] \in Task
  BY DEF Task
<1>5. pendingStart' \in Seq(Task)
  BY <1>4 DEF OnFound, TypeOK
<1> QED BY <1>2, <1>3, <1>5

LEMMA BecomesType ==
  ASSUME TypeOK, NEW p \in Process, NEW s \in {"reported", "serving", "failed"},
         Becomes(p, s)
  PROVE  /\ state' \in [Call -> Seq({"launched", "reported", "serving", "failed"})]
         /\ \A c \in Call : Len(state'[c]) = Len(state[c])
         /\ \A c \in Call : \A k \in 1 .. Len(state[c]) :
              state'[c][k] = IF <<c, k>> = p THEN s ELSE state[c][k]
<1>1. p \in ProcessId /\ p[2] \in 1 .. Len(state[p[1]])
  BY ProcessIs DEF count
<1>2. p[1] \in Call /\ p = <<p[1], p[2]>>
  BY <1>1 DEF ProcessId
<1>3. state' = [state EXCEPT ![p[1]] = [state[p[1]] EXCEPT ![p[2]] = s]]
  BY DEF Becomes
<1>4. state[p[1]] \in Seq({"launched", "reported", "serving", "failed"})
  BY <1>2 DEF TypeOK
<1>5. [state[p[1]] EXCEPT ![p[2]] = s]
        \in Seq({"launched", "reported", "serving", "failed"})
      /\ Len([state[p[1]] EXCEPT ![p[2]] = s]) = Len(state[p[1]])
  BY <1>1, <1>4
<1>6. state' \in [Call -> Seq({"launched", "reported", "serving", "failed"})]
  BY <1>3, <1>5 DEF TypeOK
<1>7. \A c \in Call : Len(state'[c]) = Len(state[c])
  BY <1>2, <1>3, <1>5 DEF TypeOK
<1>8. \A c \in Call : \A k \in 1 .. Len(state[c]) :
        state'[c][k] = IF <<c, k>> = p THEN s ELSE state[c][k]
  BY <1>1, <1>2, <1>3, <1>4 DEF TypeOK
<1> QED BY <1>6, <1>7, <1>8

\* What onStarted works on.
Work == [pending : Seq(Task), answers : [Call -> Seq(SUBSET Entry)]]

LEMMA NowType == TypeOK => Now \in Work
BY DEF TypeOK, Now, Work

LEMMA GivenType ==
  ASSUME NEW s \in Work, NEW i \in DOMAIN s.pending, NEW e \in Entry
  PROVE  Given(s, i, e) \in Work
<1> DEFINE c == s.pending[i].call
           servers == s.pending[i].servers \cup {e}
<1>1. s.pending \in Seq(Task) /\ s.answers \in [Call -> Seq(SUBSET Entry)]
  BY DEF Work
<1>2. s.pending[i] \in Task
  BY <1>1
<1>3. c \in Call /\ servers \in SUBSET Entry
  BY <1>2 DEF Task
<1>4. CASE Cardinality(servers) = size[c]
  <2>1. RemoveAt(s.pending, i) \in Seq(Task)
    BY <1>1, RemoveAtElements
  <2>2. Append(s.answers[c], servers) \in Seq(SUBSET Entry)
    <3>1. s.answers[c] \in Seq(SUBSET Entry)
      BY <1>1, <1>3
    <3> QED BY <1>3, <3>1, AppendProperties
  <2>3. [s.answers EXCEPT ![c] = Append(@, servers)] \in [Call -> Seq(SUBSET Entry)]
    BY <1>1, <1>3, <2>2
  <2> HIDE DEF c, servers
  <2> QED BY <1>4, <2>1, <2>3 DEF Given, Work, c, servers
<1>5. CASE Cardinality(servers) # size[c]
  <2>1. [s.pending[i] EXCEPT !.servers = servers] \in Task
    BY <1>2, <1>3 DEF Task
  <2>2. [s.pending EXCEPT ![i].servers = servers] \in Seq(Task)
    BY <1>1, <2>1
  <2> QED BY <1>1, <1>5, <2>2 DEF Given, Work
<1> QED BY <1>4, <1>5

LEMMA OnStartedIs ==
  ASSUME NEW s \in Work, NEW e
  PROVE  \/ /\ TaskOfType(TypeOf(e.process), s.pending) = {}
            /\ OnStarted(s, e) = s
         \/ \E i \in TaskOfType(TypeOf(e.process), s.pending) :
              OnStarted(s, e) = Given(s, i, e)
<1> DEFINE found_tasks == TaskOfType(TypeOf(e.process), s.pending)
<1>1. found_tasks # {} => (CHOOSE i \in found_tasks : TRUE) \in found_tasks
  OBVIOUS
<1> QED BY <1>1 DEF OnStarted

LEMMA OnStartedType ==
  ASSUME NEW s \in Work, NEW e \in Entry
  PROVE  OnStarted(s, e) \in Work
BY OnStartedIs, GivenType DEF TaskOfType

LEMMA EntriesOf ==
  ASSUME TypeOK, NEW p \in Process
  PROVE  /\ Id(p) \in Entry /\ Id(p).process = p /\ Id(p).error = FALSE
         /\ ErrorOf(p) \in Entry /\ ErrorOf(p).process = p /\ ErrorOf(p).error = TRUE
         /\ Id(p) # ErrorOf(p)
         /\ TypeOf(p) \in Type
<1>1. p \in ProcessId
  BY ProcessIs
<1>2. TypeOf(p) \in Type
  BY <1>1 DEF TypeOf, TypeOK, ProcessId
<1> QED BY <1>1, <1>2 DEF Entry, Id, ErrorOf

-----------------------------------------------------------------------------
(* Timers and counts.                                                      *)

LEMMA ChainInit == Init => LooksOnce /\ Chains
<1> SUFFICES ASSUME Init PROVE LooksOnce /\ Chains
  OBVIOUS
<1>1. TypeOK
  BY TypeInit
<1>2. LooksOnce
  BY DEF Init, LooksOnce
<1>3. ASSUME NEW c \in Call PROVE Chain(c)
  <2>1. timers[c] = 0 /\ found[c] = 0 /\ count(c) = 0
    BY DEF Init, count
  <2>2. size[c] \in Nat /\ size[c] >= 1
    BY <1>1, SizePositive
  <2> QED BY <2>1, <2>2 DEF Chain
<1> QED BY <1>2, <1>3 DEF Chains

LEMMA LaunchCounts ==
  ASSUME TypeOK, NEW c \in Call, NEW n \in Nat, StartServer(c, n), size' = size
  PROVE  /\ count(c)' = count(c) + 1
         /\ timers'[c] = n + (IF count(c)' < size[c] THEN 1 ELSE 0)
         /\ \A d \in Call \ {c} : count(d)' = count(d) /\ timers'[d] = timers[d]
<1>1. state[c] \in Seq({"launched", "reported", "serving", "failed"})
  BY DEF TypeOK
<1>2. state'[c] = Append(state[c], "launched")
      /\ \A d \in Call \ {c} : state'[d] = state[d]
  BY DEF StartServer, TypeOK
<1>3. Len(state'[c]) = Len(state[c]) + 1
  BY <1>1, <1>2
<1>4. timers'[c] = n + (IF count(c) + 1 < size[c] THEN 1 ELSE 0)
      /\ \A d \in Call \ {c} : timers'[d] = timers[d]
  BY DEF StartServer, TypeOK
<1> QED BY <1>2, <1>3, <1>4 DEF count

LEMMA TimerChain ==
  ASSUME CallInv, NEW c \in Call, TimerFires(c)
  PROVE  Chains'
<1>1. /\ timers[c] \in Nat /\ found[c] \in 0 .. 2 /\ count(c) \in Nat
      /\ size[c] \in Nat
  BY SizePositive DEF CallInv, TypeOK, count
<1>2. timers[c] > 0 /\ StartServer(c, timers[c] - 1)
      /\ found' = found /\ size' = size
  BY DEF TimerFires
<1>3. Chain(c)
  BY DEF CallInv, Chains
<1>4. /\ count(c)' = count(c) + 1
      /\ timers'[c] = timers[c] - 1 + (IF count(c)' < size[c] THEN 1 ELSE 0)
      /\ \A d \in Call \ {c} : count(d)' = count(d) /\ timers'[d] = timers[d]
  BY <1>1, <1>2, LaunchCounts DEF CallInv
<1>5. Chain(c)'
  <2>1. found'[c] = found[c] /\ size'[c] = size[c] /\ found[c] > 0
    BY <1>1, <1>2, <1>3 DEF Chain
  <2>2. CASE timers[c] = found[c] /\ count(c) < size[c]
    BY <1>1, <1>4, <2>1, <2>2 DEF Chain
  <2>3. CASE timers[c] < found[c] /\ count(c) = size[c] + found[c] - timers[c] - 1
    BY <1>1, <1>2, <1>4, <2>1, <2>3 DEF Chain
  <2> QED BY <1>3, <2>2, <2>3 DEF Chain
<1>6. \A d \in Call \ {c} : Chain(d)'
  BY <1>2, <1>4 DEF CallInv, Chains, Chain
<1> QED BY <1>5, <1>6 DEF Chains

LEMMA OnFoundChain ==
  ASSUME CallInv, NEW c \in Call, found[c] \in 0 .. 1, OnFound(c), size' = size
  PROVE  Chains'
<1>1. /\ timers[c] \in Nat /\ count(c) \in Nat
      /\ size[c] \in Nat /\ size[c] >= 1
  BY SizePositive DEF CallInv, TypeOK, count
<1>2. /\ StartServer(c, timers[c])
      /\ found'[c] = found[c] + 1
      /\ \A d \in Call \ {c} : found'[d] = found[d]
  BY DEF OnFound, CallInv, TypeOK
<1>3. Chain(c)
  BY DEF CallInv, Chains
<1>4. /\ count(c)' = count(c) + 1
      /\ timers'[c] = timers[c] + (IF count(c)' < size[c] THEN 1 ELSE 0)
      /\ \A d \in Call \ {c} : count(d)' = count(d) /\ timers'[d] = timers[d]
  BY <1>1, <1>2, LaunchCounts DEF CallInv
<1>5. Chain(c)'
  BY <1>1, <1>2, <1>3, <1>4 DEF Chain
<1>6. \A d \in Call \ {c} : Chain(d)'
  BY <1>2, <1>4 DEF CallInv, Chains, Chain
<1> QED BY <1>5, <1>6 DEF Chains

LEMMA ChainKept ==
  ASSUME CallInv, UNCHANGED <<size, found, timers>>,
         \A c \in Call : Len(state'[c]) = Len(state[c])
  PROVE  Chains'
BY DEF CallInv, Chains, Chain, count

-----------------------------------------------------------------------------
(* Every step keeps the types and the counts.                              *)

LEMMA BeginCall ==
  ASSUME CallInv, NEW c \in Call, Begin(c), onHold' \subseteq Query
  PROVE  CallInv'
<1>1. UNCHANGED <<type, size, found, timers, state, pendingStart, twice>>
  BY DEF Begin
<1>2. answers' \in [Call -> Seq(SUBSET Entry)]
  <2>1. answers[c] \in Seq(SUBSET Entry) /\ Error \in SUBSET Entry
    BY DEF CallInv, TypeOK, Error
  <2>2. Append(answers[c], Error) \in Seq(SUBSET Entry)
    BY <2>1, AppendProperties
  <2> QED BY <2>2 DEF Begin, CallInv, TypeOK
<1>3. looks[c] = "new"
      /\ looks' \in {[looks EXCEPT ![c] = "over"], [looks EXCEPT ![c] = "frontier"]}
  BY DEF Begin
<1>4. TypeOK'
  BY <1>1, <1>2, <1>3 DEF CallInv, TypeOK
<1>5. LooksOnce'
  BY <1>1, <1>3 DEF CallInv, LooksOnce, TypeOK
<1>6. Chains'
  BY <1>1, ChainKept
<1> QED BY <1>4, <1>5, <1>6 DEF CallInv

LEMMA FoundCall ==
  ASSUME CallInv, NEW c \in Call,
         LookForFrontier(c) \/ PackageFound(c)
  PROVE  CallInv'
<1>1. /\ OnFound(c)
      /\ UNCHANGED <<type, size, answers, twice, onHold>>
      /\ \/ looks[c] = "frontier" /\ \E next \in {"over", "package"} :
              looks' = [looks EXCEPT ![c] = next]
         \/ looks[c] = "package" /\ looks' = [looks EXCEPT ![c] = "over"]
  BY DEF LookForFrontier, PackageFound
<1>2. found[c] = IF looks[c] = "frontier" THEN 0 ELSE 1
  BY <1>1 DEF CallInv, LooksOnce
<1>3. found[c] \in 0 .. 1
  BY <1>2
<1>4. TypeOK'
  <2>1. looks' \in [Call -> {"new", "frontier", "package", "over"}]
    BY <1>1 DEF CallInv, TypeOK
  <2>2. /\ state' \in [Call -> Seq({"launched", "reported", "serving", "failed"})]
        /\ timers' \in [Call -> Nat]
        /\ found' \in [Call -> 0 .. 2]
        /\ pendingStart' \in Seq(Task)
    BY <1>1, <1>3, OnFoundType DEF CallInv
  <2> QED BY <1>1, <2>1, <2>2 DEF CallInv, TypeOK
<1>5. LooksOnce'
  <2>1. found'[c] = found[c] + 1 /\ \A d \in Call \ {c} : found'[d] = found[d]
    BY <1>1 DEF OnFound, CallInv, TypeOK
  <2>2. \A d \in Call \ {c} : looks'[d] = looks[d]
    BY <1>1 DEF CallInv, TypeOK
  <2>3. \/ looks'[c] = "over"
        \/ looks'[c] = "package" /\ looks[c] = "frontier"
    BY <1>1 DEF CallInv, TypeOK
  <2> QED BY <1>2, <2>1, <2>2, <2>3 DEF CallInv, LooksOnce
<1>6. Chains'
  BY <1>1, <1>3, OnFoundChain
<1> QED BY <1>4, <1>5, <1>6 DEF CallInv

LEMMA MissingCall ==
  ASSUME CallInv, NEW c \in Call, PackageMissing(c)
  PROVE  CallInv'
<1>1. /\ looks' = [looks EXCEPT ![c] = "over"]
      /\ answers' = [answers EXCEPT ![c] = Append(@, Error)]
      /\ UNCHANGED <<type, size, found, timers, state, pendingStart, twice, onHold>>
  BY DEF PackageMissing
<1>2. answers' \in [Call -> Seq(SUBSET Entry)]
  <2>1. answers[c] \in Seq(SUBSET Entry) /\ Error \in SUBSET Entry
    BY DEF CallInv, TypeOK, Error
  <2>2. Append(answers[c], Error) \in Seq(SUBSET Entry)
    BY <2>1, AppendProperties
  <2> QED BY <1>1, <2>2 DEF CallInv, TypeOK
<1>3. TypeOK'
  BY <1>1, <1>2 DEF CallInv, TypeOK
<1>4. LooksOnce'
  BY <1>1 DEF CallInv, LooksOnce, TypeOK
<1>5. Chains'
  BY <1>1, ChainKept
<1> QED BY <1>3, <1>4, <1>5 DEF CallInv

LEMMA TimerCall ==
  ASSUME CallInv, NEW c \in Call, TimerFires(c)
  PROVE  CallInv'
<1>1. /\ timers[c] - 1 \in Nat /\ StartServer(c, timers[c] - 1)
      /\ UNCHANGED <<type, size, looks, found, pendingStart, answers, twice, onHold>>
  BY DEF TimerFires, CallInv, TypeOK, tasks
<1>2. TypeOK'
  BY <1>1, StartServerType DEF CallInv, TypeOK
<1>3. LooksOnce'
  BY <1>1 DEF CallInv, LooksOnce
<1>4. Chains'
  BY TimerChain
<1> QED BY <1>2, <1>3, <1>4 DEF CallInv

LEMMA BecomesCall ==
  ASSUME CallInv, NEW p \in Process, NEW s \in {"reported", "serving", "failed"},
         Becomes(p, s), UNCHANGED calls, onHold' \subseteq Query,
         NEW w \in Work, Tasks(w), twice' \in {twice, twice \cup {TypeOf(p)}}
  PROVE  CallInv'
<1>1. state' \in [Call -> Seq({"launched", "reported", "serving", "failed"})]
      /\ \A c \in Call : Len(state'[c]) = Len(state[c])
  BY BecomesType DEF CallInv
<1>2. /\ pendingStart' \in Seq(Task)
      /\ answers' \in [Call -> Seq(SUBSET Entry)]
  BY DEF Tasks, Work
<1>3. twice' \subseteq Type
  BY EntriesOf DEF CallInv, TypeOK
<1>4. TypeOK'
  BY <1>1, <1>2, <1>3 DEF CallInv, TypeOK, calls
<1>5. LooksOnce'
  BY DEF CallInv, LooksOnce, calls
<1>6. Chains'
  BY <1>1, ChainKept DEF calls
<1> QED BY <1>4, <1>5, <1>6 DEF CallInv

LEMMA CallNext ==
  ASSUME CallInv, [Next]_vars
  PROVE  CallInv'
<1>1. CASE UNCHANGED vars
  BY <1>1 DEF CallInv, TypeOK, LooksOnce, Chains, Chain, count, vars, calls, tasks
<1>2. ASSUME NEW r \in Request, Start(r) PROVE CallInv'
  BY <1>2, BeginCall DEF Start, Call, CallInv, TypeOK
<1>3. ASSUME NEW q \in Query, QueryServer(q) PROVE CallInv'
  <2>0. q \in Call
    BY DEF Call
  <2>1. CASE Begin(q) /\ onHold' = onHold \cup {q}
    BY <2>0, <2>1, BeginCall DEF CallInv, TypeOK
  <2>2. CASE /\ looks[q] = "new"
             /\ looks' = [looks EXCEPT ![q] = "over"]
             /\ UNCHANGED <<type, size, found, timers, state, tasks, onHold>>
    <3>1. TypeOK'
      BY <2>0, <2>2 DEF CallInv, TypeOK, tasks
    <3>2. LooksOnce'
      BY <2>2 DEF CallInv, LooksOnce, TypeOK
    <3>3. Chains'
      BY <2>2, ChainKept
    <3> QED BY <3>1, <3>2, <3>3 DEF CallInv
  <2> QED BY <1>3, <2>1, <2>2 DEF QueryServer
<1>4. ASSUME NEW c \in Call, LookForFrontier(c) \/ PackageFound(c) PROVE CallInv'
  BY <1>4, FoundCall
<1>5. ASSUME NEW c \in Call, PackageMissing(c) PROVE CallInv'
  BY <1>5, MissingCall
<1>6. ASSUME NEW c \in Call, TimerFires(c) PROVE CallInv'
  BY <1>6, TimerCall
<1>7. ASSUME NEW p \in Process, Report(p) \/ FailAtPm2(p) PROVE CallInv'
  <2>1. Now \in Work /\ Id(p) \in Entry /\ ErrorOf(p) \in Entry
    BY NowType, EntriesOf DEF CallInv
  <2>2. /\ OnStarted(Now, Id(p)) \in Work
        /\ OnStarted(Now, ErrorOf(p)) \in Work
        /\ OnStarted(OnStarted(Now, Id(p)), ErrorOf(p)) \in Work
    BY <2>1, OnStartedType
  <2>3. UNCHANGED <<calls, onHold>> /\ onHold' \subseteq Query
    BY <1>7 DEF Report, FailAtPm2, CallInv, TypeOK
  <2>4. CASE Becomes(p, "reported") /\ ReportOnce(p)
    BY <2>2, <2>3, <2>4, BecomesCall DEF ReportOnce
  <2>5. CASE Becomes(p, "reported") /\ ReportTwice(p)
    BY <2>2, <2>3, <2>5, BecomesCall DEF ReportTwice
  <2>6. CASE FailAtPm2(p)
    BY <2>2, <2>3, <2>6, BecomesCall DEF FailAtPm2
  <2> QED BY <1>7, <2>4, <2>5, <2>6 DEF Report
<1>8. ASSUME NEW p \in Process,
             FailSilently(p) \/ Register(p) \/ Unregister(p)
      PROVE  CallInv'
  <2>1. Now \in Work
    BY NowType DEF CallInv
  <2>2. /\ Tasks(Now) /\ twice' = twice /\ UNCHANGED calls /\ onHold' \subseteq Query
        /\ \E s \in {"reported", "serving", "failed"} : Becomes(p, s)
    BY <1>8 DEF FailSilently, Register, Unregister, CallInv, TypeOK, tasks, Tasks, Now
  <2> QED BY <2>1, <2>2, BecomesCall
<1> QED BY <1>1, <1>2, <1>3, <1>4, <1>5, <1>6, <1>7, <1>8 DEF Next, Pending

LEMMA CallInvariant == Spec => []CallInv
<1>1. Init => CallInv
  BY TypeInit, ChainInit DEF CallInv
<1>2. CallInv /\ [Next]_vars => CallInv'
  BY CallNext
<1> QED BY <1>1, <1>2, PTL DEF Spec

\* Every variable keeps to its type: onFound is called twice at most, and the
\* timers do not run below zero (execute.js, validate_path, start_server).
THEOREM TypeCorrect == Spec => []TypeOK
<1>1. CallInv => TypeOK
  BY DEF CallInv
<1> QED BY <1>1, CallInvariant, PTL

\* The counts come out when onFound was called once, and are not too small when
\* it was called twice, however the two chains of timers mix (execute.js,
\* start_server).
THEOREM RunsCounted == Spec => []RunsAsAsked
<1>1. CallInv => RunsAsAsked
  <2> SUFFICES ASSUME CallInv, NEW c \in Call, found[c] > 0, timers[c] = 0
               PROVE  count(c) >= size[c] /\ (found[c] = 1 => count(c) = size[c])
    BY DEF RunsAsAsked
  <2>1. found[c] \in Nat /\ size[c] \in Nat /\ count(c) \in Nat
    BY SizePositive DEF CallInv, TypeOK, count
  <2>2. count(c) = size[c] + found[c] - 1
    BY <2>1 DEF CallInv, Chains, Chain
  <2> QED BY <2>1, <2>2
<1> QED BY <1>1, CallInvariant, PTL

-----------------------------------------------------------------------------
(* Whose an entry is.                                                      *)

\* The entries that may be in a task or an answer: those of processes that
\* have got on, which are errors only with PM2.
Heard == {e \in Entry : e.process \in Reported /\ (e.error => Pm2)}

\* OldestFirst, of any tasks.
Ordered(ts) ==
  \A i \in DOMAIN ts :
    /\ Cardinality(ts[i].servers) < size[ts[i].call]
    /\ \A j \in 1 .. i - 1 : type[ts[j].call] = type[ts[i].call] => ts[i].servers = {}

\* The entries of a task are among those of R, are of its type, and are in no
\* other.
TasksOwn(ts, R) ==
  \A i \in DOMAIN ts :
    /\ IsFiniteSet(ts[i].servers)
    /\ ts[i].servers \subseteq R
    /\ \A e \in ts[i].servers : TypeOf(e.process) = type[ts[i].call]
    /\ \A j \in DOMAIN ts : i # j => ts[i].servers \cap ts[j].servers = {}

\* The same of answers, which have as many entries as were asked for.
AnswersOwn(ts, ans, R) ==
  \A c \in Call : \A i \in DOMAIN ans[c] :
    /\ ans[c][i] \subseteq R
    /\ \A e \in ans[c][i] : TypeOf(e.process) = type[c]
    /\ ans[c][i] # Error => Cardinality(ans[c][i]) = size[c]
    /\ \A j \in DOMAIN ts : ans[c][i] \cap ts[j].servers = {}
    /\ \A d \in Call : \A j \in DOMAIN ans[d] :
         <<c, i>> # <<d, j>> => ans[c][i] \cap ans[d][j] = {}

Sound(s, R) ==
  /\ Ordered(s.pending)
  /\ TasksOwn(s.pending, R)
  /\ AnswersOwn(s.pending, s.answers, R)

TaskInv == Sound(Now, Heard)

LEMMA SoundMore ==
  ASSUME NEW s, NEW R, Sound(s, R), NEW R1, R \subseteq R1
  PROVE  Sound(s, R1)
BY DEF Sound, TasksOwn, AnswersOwn

\* A task of no servers is put at the end.
WithTask(c) ==
  [pending |-> Append(pendingStart, [call |-> c, servers |-> {}]), answers |-> answers]

LEMMA NewTaskSound ==
  ASSUME CallInv, TaskInv, NEW c \in Call
  PROVE  WithTask(c) \in Work /\ Sound(WithTask(c), Heard)
<1> DEFINE ts == pendingStart
           us == Append(pendingStart, [call |-> c, servers |-> {}])
           n == Len(ts)
<1>1. ts \in Seq(Task) /\ [call |-> c, servers |-> {}] \in Task
  BY DEF CallInv, TypeOK, Task
<1>2. us \in Seq(Task)
  BY <1>1, AppendProperties
<1>3. /\ n \in Nat /\ DOMAIN ts = 1 .. n /\ DOMAIN us = 1 .. n + 1
      /\ \A i \in 1 .. n : us[i] = ts[i]
      /\ us[n + 1] = [call |-> c, servers |-> {}]
  BY <1>1, AppendProperties
<1>4. us[n + 1].servers = {} /\ us[n + 1].call = c
  BY <1>3
<1>5. Ordered(ts) /\ TasksOwn(ts, Heard) /\ AnswersOwn(ts, answers, Heard)
  BY DEF TaskInv, Sound, Now
<1>6. WithTask(c) \in Work
  BY <1>2 DEF WithTask, Work, CallInv, TypeOK
<1>7. WithTask(c).pending = us /\ WithTask(c).answers = answers
  BY DEF WithTask
<1> HIDE DEF us, n, ts
<1>8. Ordered(us)
  <2>1. Cardinality({}) = 0 /\ size[c] \in Nat /\ size[c] >= 1
    BY FS_EmptySet, SizePositive DEF CallInv
  <2>2. ASSUME NEW i \in 1 .. n
        PROVE  /\ Cardinality(us[i].servers) < size[us[i].call]
               /\ \A j \in 1 .. i - 1 :
                    type[us[j].call] = type[us[i].call] => us[i].servers = {}
    <3>1. \A j \in 1 .. i - 1 : j \in 1 .. n
      BY <1>3
    <3> QED BY <1>3, <1>5, <3>1 DEF Ordered
  <2>3. ASSUME NEW i \in DOMAIN us
        PROVE  /\ Cardinality(us[i].servers) < size[us[i].call]
               /\ \A j \in 1 .. i - 1 :
                    type[us[j].call] = type[us[i].call] => us[i].servers = {}
    <3>1. i \in 1 .. n \/ i = n + 1
      BY <1>3
    <3>2. CASE i = n + 1
      <4>1. us[i].servers = {} /\ us[i].call = c
        BY <1>4, <3>2
      <4>2. Cardinality(us[i].servers) < size[us[i].call]
        BY <2>1, <4>1
      <4> QED BY <4>1, <4>2
    <3> QED BY <2>2, <3>1, <3>2
  <2> QED BY <2>3 DEF Ordered
<1>9. TasksOwn(us, Heard)
  <2>1. ASSUME NEW i \in 1 .. n + 1, NEW j \in 1 .. n + 1, i # j
        PROVE  us[i].servers \cap us[j].servers = {}
    BY <1>3, <1>4, <1>5, <2>1 DEF TasksOwn
  <2>2. ASSUME NEW i \in 1 .. n + 1
        PROVE  /\ IsFiniteSet(us[i].servers)
               /\ us[i].servers \subseteq Heard
               /\ \A e \in us[i].servers : TypeOf(e.process) = type[us[i].call]
    <3>1. CASE i \in 1 .. n
      BY <1>3, <1>5, <3>1 DEF TasksOwn
    <3>2. CASE i = n + 1
      BY <1>4, <3>2, FS_EmptySet
    <3> QED BY <1>3, <3>1, <3>2
  <2> QED BY <1>3, <2>1, <2>2 DEF TasksOwn
<1>10. AnswersOwn(us, answers, Heard)
  <2>1. ASSUME NEW d \in Call, NEW i \in DOMAIN answers[d], NEW j \in 1 .. n + 1
        PROVE  answers[d][i] \cap us[j].servers = {}
    BY <1>3, <1>4, <1>5 DEF AnswersOwn
  <2> QED BY <1>3, <1>5, <2>1 DEF AnswersOwn
<1> QED BY <1>6, <1>7, <1>8, <1>9, <1>10 DEF Sound

\* An answer more, of entries that are in no task and no answer.
LEMMA MoreAnswers ==
  ASSUME NEW ts, NEW ans \in [Call -> Seq(SUBSET Entry)], NEW R, AnswersOwn(ts, ans, R),
         NEW c \in Call, NEW servers \in SUBSET Entry,
         servers \subseteq R,
         \A e \in servers : TypeOf(e.process) = type[c],
         servers # Error => Cardinality(servers) = size[c],
         \A d \in Call : \A i \in DOMAIN ans[d] : ans[d][i] \cap servers = {},
         \A j \in DOMAIN ts : servers \cap ts[j].servers = {}
  PROVE  AnswersOwn(ts, [ans EXCEPT ![c] = Append(@, servers)], R)
<1> DEFINE n == Len(ans[c])
           more == [ans EXCEPT ![c] = Append(@, servers)]
<1>1. ans[c] \in Seq(SUBSET Entry)
  OBVIOUS
<1>2. /\ n \in Nat /\ DOMAIN ans[c] = 1 .. n /\ DOMAIN more[c] = 1 .. n + 1
      /\ \A i \in 1 .. n : more[c][i] = ans[c][i]
      /\ more[c][n + 1] = servers
  <2>1. more[c] = Append(ans[c], servers)
    OBVIOUS
  <2> HIDE DEF more
  <2> QED BY <1>1, <2>1, AppendProperties
<1>3. \A d \in Call \ {c} : more[d] = ans[d]
  OBVIOUS
<1> HIDE DEF n, more
<1> DEFINE Old(d, i) == i \in DOMAIN ans[d] /\ more[d][i] = ans[d][i]
           New(d, i) == d = c /\ i = n + 1 /\ more[d][i] = servers
<1>4. ASSUME NEW d \in Call, NEW i \in DOMAIN more[d]
      PROVE  Old(d, i) \/ New(d, i)
  BY <1>2, <1>3
<1>5. ASSUME NEW d \in Call, NEW i \in DOMAIN more[d]
      PROVE  /\ more[d][i] \subseteq R
             /\ \A e \in more[d][i] : TypeOf(e.process) = type[d]
             /\ more[d][i] # Error => Cardinality(more[d][i]) = size[d]
             /\ \A j \in DOMAIN ts : more[d][i] \cap ts[j].servers = {}
  <2>1. CASE Old(d, i)
    BY <2>1 DEF AnswersOwn
  <2>2. CASE New(d, i)
    BY <2>2
  <2> QED BY <1>4, <2>1, <2>2
<1>6. ASSUME NEW d \in Call, NEW i \in DOMAIN more[d],
             NEW e \in Call, NEW j \in DOMAIN more[e], <<d, i>> # <<e, j>>
      PROVE  more[d][i] \cap more[e][j] = {}
  <2>1. CASE Old(d, i) /\ Old(e, j)
    BY <1>6, <2>1 DEF AnswersOwn
  <2>2. CASE Old(d, i) /\ New(e, j)
    BY <2>2
  <2>3. CASE New(d, i) /\ Old(e, j)
    BY <2>3
  <2>4. CASE New(d, i) /\ New(e, j)
    BY <1>6, <2>4
  <2> QED BY <1>4, <2>1, <2>2, <2>3, <2>4
<1>7. AnswersOwn(ts, more, R)
  BY <1>5, <1>6 DEF AnswersOwn
<1> QED BY <1>7 DEF more

\* A call is answered with an error.
WithError(c) ==
  [pending |-> pendingStart, answers |-> [answers EXCEPT ![c] = Append(@, Error)]]

LEMMA RefusedSound ==
  ASSUME CallInv, TaskInv, NEW c \in Call
  PROVE  WithError(c) \in Work /\ Sound(WithError(c), Heard)
<1>1. answers \in [Call -> Seq(SUBSET Entry)] /\ pendingStart \in Seq(Task)
  BY DEF CallInv, TypeOK
<1>2. Error \in SUBSET Entry /\ Error = {}
  BY DEF Error
<1>3. WithError(c) \in Work
  <2>1. Append(answers[c], Error) \in Seq(SUBSET Entry)
    BY <1>1, <1>2, AppendProperties
  <2> QED BY <1>1, <2>1 DEF WithError, Work
<1>4. /\ Ordered(pendingStart) /\ TasksOwn(pendingStart, Heard)
      /\ AnswersOwn(pendingStart, answers, Heard)
  BY DEF TaskInv, Sound, Now
<1>5. AnswersOwn(pendingStart, [answers EXCEPT ![c] = Append(@, Error)], Heard)
  <2>1. /\ Error \subseteq Heard /\ \A e \in Error : TypeOf(e.process) = type[c]
        /\ Error # Error => Cardinality(Error) = size[c]
        /\ \A d \in Call : \A i \in DOMAIN answers[d] : answers[d][i] \cap Error = {}
        /\ \A j \in DOMAIN pendingStart : Error \cap pendingStart[j].servers = {}
    BY <1>2
  <2> QED BY <1>1, <1>2, <1>4, <2>1, MoreAnswers
<1> QED BY <1>3, <1>4, <1>5 DEF Sound, WithError

\* An entry that is new goes to its task.
LEMMA GivenSound ==
  ASSUME TypeOK, NEW s \in Work, NEW R, Sound(s, R),
         NEW e \in Entry, e \notin R,
         NEW i \in TaskOfType(TypeOf(e.process), s.pending)
  PROVE  Sound(Given(s, i, e), R \cup {e})
<1> DEFINE ts == s.pending
           ans == s.answers
           n == Len(ts)
           c == ts[i].call
           old == ts[i].servers
           servers == old \cup {e}
           R1 == R \cup {e}
<1>1. /\ ts \in Seq(Task) /\ n \in Nat /\ DOMAIN ts = 1 .. n
      /\ ans \in [Call -> Seq(SUBSET Entry)]
  BY DEF Work
<1>2. /\ i \in 1 .. n /\ type[c] = TypeOf(e.process)
      /\ \A j \in 1 .. i - 1 : type[ts[j].call] # TypeOf(e.process)
  BY <1>1 DEF TaskOfType
<1>3. ts[i] \in Task /\ c \in Call /\ servers \in SUBSET Entry
  <2>1. ts[i] \in Task
    BY <1>1, <1>2
  <2> QED BY <2>1 DEF Task
<1>4. size[c] \in Nat
  BY <1>3, SizePositive
<1>5. Ordered(ts) /\ TasksOwn(ts, R) /\ AnswersOwn(ts, ans, R)
  BY DEF Sound
<1>6. /\ IsFiniteSet(servers) /\ Cardinality(old) \in Nat
      /\ Cardinality(servers) = Cardinality(old) + 1
      /\ Cardinality(old) < size[c]
  <2>1. IsFiniteSet(old) /\ e \notin old
    BY <1>1, <1>2, <1>5 DEF TasksOwn
  <2>2. Cardinality(old) < size[c]
    BY <1>1, <1>2, <1>5 DEF Ordered
  <2> QED BY <2>1, <2>2, FS_AddElement, FS_CardinalityType
<1>7. /\ servers \subseteq R1
      /\ \A q \in servers : TypeOf(q.process) = type[c]
      /\ \A j \in 1 .. n : j # i => servers \cap ts[j].servers = {}
  BY <1>1, <1>2, <1>5 DEF TasksOwn
<1>8. \A d \in Call : \A k \in DOMAIN ans[d] :
        /\ ans[d][k] \cap servers = {}
        /\ \A j \in 1 .. n : ans[d][k] \cap ts[j].servers = {}
  <2>1. ASSUME NEW d \in Call, NEW k \in DOMAIN ans[d]
        PROVE  ans[d][k] \subseteq R /\ \A j \in 1 .. n : ans[d][k] \cap ts[j].servers = {}
    BY <1>1, <1>5 DEF AnswersOwn
  <2> HIDE DEF ts, ans, n
  <2> QED BY <1>2, <2>1
<1>9. \A k \in 1 .. n :
        /\ Cardinality(ts[k].servers) < size[ts[k].call]
        /\ \A j \in 1 .. k - 1 : type[ts[j].call] = type[ts[k].call] => ts[k].servers = {}
  BY <1>1, <1>5 DEF Ordered
<1>10. CASE Cardinality(servers) = size[c]
  <2> DEFINE from(k) == IF k < i THEN k ELSE k + 1
             us == RemoveAt(ts, i)
             more == [ans EXCEPT ![c] = Append(@, servers)]
  <2>1. Given(s, i, e) = [pending |-> us, answers |-> more]
    BY <1>10 DEF Given
  <2>2. /\ DOMAIN us = 1 .. n - 1
        /\ \A k \in 1 .. n - 1 : us[k] = ts[from(k)]
    <3> HIDE DEF ts
    <3> QED BY <1>1, <1>2, RemoveAtElements
  <2>3. \A k \in 1 .. n - 1 :
          /\ from(k) \in 1 .. n /\ from(k) # i
          /\ \A j \in 1 .. n - 1 : k # j => from(k) # from(j)
          /\ \A j \in 1 .. k - 1 : j \in 1 .. n - 1 /\ from(j) \in 1 .. from(k) - 1
    BY <1>1, <1>2
  <2> HIDE DEF from, n, c, old, servers, us, R1, ts, ans
  <2>4. Ordered(us)
    <3>1. ASSUME NEW k \in 1 .. n - 1
          PROVE  /\ Cardinality(us[k].servers) < size[us[k].call]
                 /\ \A j \in 1 .. k - 1 :
                      type[us[j].call] = type[us[k].call] => us[k].servers = {}
      <4>1. us[k] = ts[from(k)] /\ from(k) \in 1 .. n
        BY <2>2, <2>3
      <4>2. ASSUME NEW j \in 1 .. k - 1
            PROVE  us[j] = ts[from(j)] /\ from(j) \in 1 .. from(k) - 1
        BY <2>2, <2>3
      <4> QED BY <1>9, <4>1, <4>2
    <3> QED BY <2>2, <3>1 DEF Ordered
  <2>5. TasksOwn(us, R1)
    <3>1. ASSUME NEW k \in 1 .. n - 1
          PROVE  /\ IsFiniteSet(us[k].servers)
                 /\ us[k].servers \subseteq R1
                 /\ \A q \in us[k].servers : TypeOf(q.process) = type[us[k].call]
      BY <1>1, <1>5, <2>2, <2>3 DEF TasksOwn, R1
    <3>2. ASSUME NEW k \in 1 .. n - 1, NEW j \in 1 .. n - 1, k # j
          PROVE  us[k].servers \cap us[j].servers = {}
      <4>1. /\ us[k] = ts[from(k)] /\ us[j] = ts[from(j)]
            /\ from(k) \in 1 .. n /\ from(j) \in 1 .. n /\ from(k) # from(j)
        BY <2>2, <2>3, <3>2
      <4> QED BY <1>1, <1>5, <4>1 DEF TasksOwn
    <3> QED BY <2>2, <3>1, <3>2 DEF TasksOwn
  <2>6. AnswersOwn(us, ans, R1)
    <3>1. \A d \in Call : \A k \in DOMAIN ans[d] : \A j \in DOMAIN us :
            ans[d][k] \cap us[j].servers = {}
      BY <1>8, <2>2, <2>3
    <3> QED BY <1>5, <3>1 DEF AnswersOwn, R1
  <2>7. AnswersOwn(us, more, R1)
    <3>1. /\ \A d \in Call : \A k \in DOMAIN ans[d] : ans[d][k] \cap servers = {}
          /\ \A j \in DOMAIN us : servers \cap us[j].servers = {}
          /\ servers # Error => Cardinality(servers) = size[c]
      BY <1>7, <1>8, <1>10, <2>2, <2>3
    <3> QED BY <1>1, <1>3, <1>7, <2>6, <3>1, MoreAnswers
  <2> HIDE DEF more
  <2> QED BY <2>1, <2>4, <2>5, <2>7 DEF Sound, R1
<1>11. CASE Cardinality(servers) # size[c]
  <2> DEFINE us == [ts EXCEPT ![i].servers = servers]
  <2>1. Given(s, i, e) = [pending |-> us, answers |-> ans]
    BY <1>11 DEF Given
  <2>2. /\ DOMAIN us = 1 .. n
        /\ us[i].servers = servers /\ us[i].call = c
        /\ \A j \in 1 .. n : j # i => us[j] = ts[j]
    BY <1>1, <1>2, <1>3 DEF Task
  <2>3. Cardinality(servers) < size[c]
    BY <1>4, <1>6, <1>11
  <2> HIDE DEF n, c, old, servers, us, R1, ts, ans
  <2>4. Ordered(us)
    <3>1. \A k \in 1 .. n : us[k].call = ts[k].call
      BY <2>2 DEF c
    <3>2. ASSUME NEW k \in 1 .. n
          PROVE  /\ Cardinality(us[k].servers) < size[us[k].call]
                 /\ \A j \in 1 .. k - 1 :
                      type[us[j].call] = type[us[k].call] => us[k].servers = {}
      <4>1. \A j \in 1 .. k - 1 : j \in 1 .. n
        BY <1>1
      <4>2. CASE k = i
        BY <1>2, <2>2, <2>3, <3>1, <4>1, <4>2
      <4>3. CASE k # i
        BY <1>9, <2>2, <3>1, <4>1, <4>3
      <4> QED BY <4>2, <4>3
    <3> QED BY <2>2, <3>2 DEF Ordered
  <2>5. TasksOwn(us, R1)
    <3>1. ASSUME NEW k \in 1 .. n
          PROVE  /\ IsFiniteSet(us[k].servers)
                 /\ us[k].servers \subseteq R1
                 /\ \A q \in us[k].servers : TypeOf(q.process) = type[us[k].call]
      <4>1. CASE k = i
        BY <1>6, <1>7, <2>2, <4>1
      <4>2. CASE k # i
        BY <1>1, <1>5, <2>2, <4>2 DEF TasksOwn, R1
      <4> QED BY <4>1, <4>2
    <3>2. ASSUME NEW k \in 1 .. n, NEW j \in 1 .. n, k # j
          PROVE  us[k].servers \cap us[j].servers = {}
      <4>1. CASE k = i
        BY <1>7, <2>2, <3>2, <4>1
      <4>2. CASE j = i
        BY <1>7, <2>2, <3>2, <4>2
      <4>3. CASE k # i /\ j # i
        BY <1>1, <1>5, <2>2, <3>2, <4>3 DEF TasksOwn
      <4> QED BY <4>1, <4>2, <4>3
    <3> QED BY <2>2, <3>1, <3>2 DEF TasksOwn
  <2>6. AnswersOwn(us, ans, R1)
    <3>1. \A d \in Call : \A k \in DOMAIN ans[d] : \A j \in DOMAIN us :
            ans[d][k] \cap us[j].servers = {}
      BY <1>8, <2>2
    <3> QED BY <1>5, <3>1 DEF AnswersOwn, R1
  <2> QED BY <2>1, <2>4, <2>5, <2>6 DEF Sound, R1
<1> QED BY <1>10, <1>11

LEMMA OnStartedSound ==
  ASSUME TypeOK, NEW s \in Work, NEW R, Sound(s, R), NEW e \in Entry, e \notin R
  PROVE  OnStarted(s, e) \in Work /\ Sound(OnStarted(s, e), R \cup {e})
<1>1. OnStarted(s, e) \in Work
  BY OnStartedType
<1>2. CASE OnStarted(s, e) = s
  BY <1>1, <1>2, SoundMore
<1>3. CASE \E i \in TaskOfType(TypeOf(e.process), s.pending) : OnStarted(s, e) = Given(s, i, e)
  <2>1. PICK i \in TaskOfType(TypeOf(e.process), s.pending) : OnStarted(s, e) = Given(s, i, e)
    BY <1>3
  <2>2. Sound(Given(s, i, e), R \cup {e})
    BY GivenSound
  <2> QED BY <1>1, <2>1, <2>2
<1> QED BY <1>2, <1>3, OnStartedIs

-----------------------------------------------------------------------------
(* What a step does to the tasks and the answers.                          *)

ReportedMeans ==
  \A p : p \in Reported <=>
          /\ p \in ProcessId
          /\ p[2] \in 1 .. Len(state[p[1]])
          /\ state[p[1]][p[2]] # "launched"

LEMMA ReportedNow == TypeOK => ReportedMeans
BY ReportedIs DEF ReportedMeans

LEMMA ReportedNext == TypeOK' => ReportedMeans'
<1>1. (TypeOK => ReportedMeans)'
  BY ReportedNow, PTL
<1> QED BY <1>1

LEMMA ReportedGrows ==
  ASSUME CallInv, [Next]_vars
  PROVE  /\ Reported \subseteq Reported'
         /\ \A p \in Process : State(p) = "launched" /\ (Report(p) \/ FailAtPm2(p))
              => p \in Reported'
<1>0. TypeOK /\ TypeOK' /\ ReportedMeans /\ ReportedMeans'
  BY CallNext, ReportedNow, ReportedNext DEF CallInv
<1> DEFINE Goal == Reported \subseteq Reported'
<1>1. ASSUME \A c \in Call : \A k \in 1 .. Len(state[c]) :
               k \in 1 .. Len(state'[c])
               /\ (state'[c][k] = state[c][k] \/ state'[c][k] # "launched")
      PROVE  Goal
  <2> SUFFICES ASSUME NEW p \in Reported PROVE p \in Reported'
    OBVIOUS
  <2>1. p \in ProcessId /\ p[2] \in 1 .. Len(state[p[1]])
        /\ state[p[1]][p[2]] # "launched"
    BY <1>0 DEF ReportedMeans
  <2>2. p[1] \in Call
    BY <2>1 DEF ProcessId
  <2>3. p[2] \in 1 .. Len(state'[p[1]]) /\ state'[p[1]][p[2]] # "launched"
    BY <1>1, <2>1, <2>2
  <2> QED BY <1>0, <2>1, <2>3 DEF ReportedMeans
<1>2. ASSUME UNCHANGED state PROVE Goal
  BY <1>1, <1>2
<1>3. ASSUME NEW c \in Call, NEW n, StartServer(c, n) PROVE Goal
  <2>1. \A d \in Call : state[d] \in Seq({"launched", "reported", "serving", "failed"})
    BY <1>0 DEF TypeOK
  <2>2. state'[c] = Append(state[c], "launched")
        /\ \A d \in Call \ {c} : state'[d] = state[d]
    BY <1>0, <1>3 DEF StartServer, TypeOK
  <2>3. Len(state'[c]) = Len(state[c]) + 1
        /\ \A k \in 1 .. Len(state[c]) : state'[c][k] = state[c][k]
    BY <2>1, <2>2, AppendProperties
  <2>4. Len(state[c]) \in Nat
    BY <2>1
  <2> QED BY <1>1, <2>2, <2>3, <2>4
<1>4. ASSUME NEW p \in Process, NEW s \in {"reported", "serving", "failed"}, Becomes(p, s)
      PROVE  Goal /\ p \in Reported'
  <2>1. \A c \in Call : Len(state'[c]) = Len(state[c])
    BY <1>0, <1>4, BecomesType
  <2>2. \A c \in Call : \A k \in 1 .. Len(state[c]) :
          state'[c][k] = IF <<c, k>> = p THEN s ELSE state[c][k]
    BY <1>0, <1>4, BecomesType
  <2>3. Goal
    BY <1>1, <2>1, <2>2
  <2>4. p \in ProcessId /\ p[2] \in 1 .. Len(state[p[1]])
    BY <1>0, ProcessIs DEF count
  <2>5. p[1] \in Call /\ <<p[1], p[2]>> = p
    BY <2>4 DEF ProcessId
  <2>6. p[2] \in 1 .. Len(state'[p[1]]) /\ state'[p[1]][p[2]] # "launched"
    BY <2>1, <2>2, <2>4, <2>5
  <2>7. p \in Reported'
    BY <1>0, <2>4, <2>6 DEF ReportedMeans
  <2> QED BY <2>3, <2>7
<1> HIDE DEF Goal
<1>5. \A p \in Process : State(p) = "launched" /\ (Report(p) \/ FailAtPm2(p))
        => p \in Reported'
  BY <1>4 DEF Report, FailAtPm2
<1>6. Goal
  <2>1. CASE UNCHANGED vars
    BY <1>2, <2>1 DEF vars
  <2>2. ASSUME NEW c \in Call, Begin(c) PROVE Goal
    BY <1>2, <2>2 DEF Begin
  <2>3. ASSUME NEW r \in Request, Start(r) PROVE Goal
    BY <2>2, <2>3 DEF Start, Call
  <2>4. ASSUME NEW q \in Query, QueryServer(q) PROVE Goal
    BY <1>2, <2>2, <2>4 DEF QueryServer, Call
  <2>5. ASSUME NEW c \in Call, LookForFrontier(c) \/ PackageFound(c) PROVE Goal
    BY <1>3, <2>5 DEF LookForFrontier, PackageFound, OnFound
  <2>6. ASSUME NEW c \in Call, PackageMissing(c) PROVE Goal
    BY <1>2, <2>6 DEF PackageMissing
  <2>7. ASSUME NEW c \in Call, TimerFires(c) PROVE Goal
    BY <1>3, <2>7 DEF TimerFires
  <2>8. ASSUME NEW p \in Process,
               \/ Report(p) \/ FailSilently(p) \/ FailAtPm2(p)
               \/ Register(p) \/ Unregister(p)
        PROVE  Goal
    BY <1>4, <2>8 DEF Report, FailSilently, FailAtPm2, Register, Unregister
  <2> QED BY <2>1, <2>3, <2>4, <2>5, <2>6, <2>7, <2>8 DEF Next, Pending
<1> QED BY <1>5, <1>6 DEF Goal


LEMMA HeardGrows ==
  ASSUME TypeOK, Reported \subseteq Reported'
  PROVE  /\ Heard \subseteq Heard'
         /\ \A p \in Process : p \notin Reported => Id(p) \notin Heard /\ ErrorOf(p) \notin Heard
         /\ \A p \in Process : p \in Reported' =>
              Id(p) \in Heard' /\ (Pm2 => ErrorOf(p) \in Heard')
<1>1. \A p \in Process :
        /\ Id(p) \in Entry /\ Id(p).process = p /\ Id(p).error = FALSE
        /\ ErrorOf(p) \in Entry /\ ErrorOf(p).process = p /\ ErrorOf(p).error = TRUE
  BY EntriesOf
<1>2. \A e : e \in Heard' <=> e \in Entry /\ e.process \in Reported' /\ (e.error => Pm2)
  BY DEF Heard, Entry, ProcessId
<1>3. \A e : e \in Heard <=> e \in Entry /\ e.process \in Reported /\ (e.error => Pm2)
  BY DEF Heard
<1> QED BY <1>1, <1>2, <1>3

\* A process that has not got on before gets on, and goes to its task: itself,
\* or an error, or both.
Started(p) ==
  \/ ReportOnce(p)
  \/ ReportTwice(p)
  \/ Pm2 /\ Tasks(OnStarted(Now, ErrorOf(p)))

LEMMA StartedSound ==
  ASSUME CallInv, TaskInv, Reported \subseteq Reported',
         NEW p \in Process, p \notin Reported, p \in Reported', Started(p)
  PROVE  \E w \in Work : Sound(w, Heard') /\ Tasks(w)
<1>1. /\ Heard \subseteq Heard'
      /\ Id(p) \notin Heard /\ ErrorOf(p) \notin Heard
      /\ Id(p) \in Heard' /\ (Pm2 => ErrorOf(p) \in Heard')
  BY HeardGrows DEF CallInv
<1>2. /\ Id(p) \in Entry /\ ErrorOf(p) \in Entry /\ Id(p) # ErrorOf(p)
      /\ Now \in Work /\ Sound(Now, Heard) /\ TypeOK
  BY EntriesOf, NowType DEF CallInv, TaskInv
<1> DEFINE one == OnStarted(Now, Id(p))
           err == OnStarted(Now, ErrorOf(p))
           two == OnStarted(one, ErrorOf(p))
<1>3. one \in Work /\ Sound(one, Heard \cup {Id(p)})
  BY <1>1, <1>2, OnStartedSound
<1>4. err \in Work /\ Sound(err, Heard \cup {ErrorOf(p)})
  BY <1>1, <1>2, OnStartedSound
<1> HIDE DEF one, err
<1>5. two \in Work /\ Sound(two, Heard \cup {Id(p)} \cup {ErrorOf(p)})
  BY <1>1, <1>2, <1>3, OnStartedSound
<1> HIDE DEF two
<1>6. CASE Tasks(one)
  BY <1>1, <1>3, <1>6, SoundMore
<1>7. CASE Pm2 /\ Tasks(err)
  BY <1>1, <1>4, <1>7, SoundMore
<1>8. CASE Pm2 /\ Tasks(two)
  BY <1>1, <1>5, <1>8, SoundMore
<1> QED BY <1>6, <1>7, <1>8 DEF Started, ReportOnce, ReportTwice, one, err, two

LEMMA TaskSteps ==
  ASSUME CallInv, TaskInv, [Next]_vars
  PROVE  /\ UNCHANGED <<type, size>>
         /\ \E w \in Work : Sound(w, Heard') /\ Tasks(w)
<1> DEFINE Done == \E w \in Work : Sound(w, Heard') /\ Tasks(w)
           Goal == UNCHANGED <<type, size>> /\ Done
<1>1. TypeOK /\ Reported \subseteq Reported' /\ Heard \subseteq Heard'
  BY ReportedGrows, HeardGrows DEF CallInv
<1>2. ASSUME UNCHANGED <<pendingStart, answers>> PROVE Done
  <2>1. Now \in Work /\ Sound(Now, Heard') /\ Tasks(Now)
    BY <1>1, <1>2, NowType, SoundMore DEF TaskInv, Tasks, Now
  <2> QED BY <2>1
<1>3. ASSUME NEW c \in Call, answers' = [answers EXCEPT ![c] = Append(@, Error)],
             UNCHANGED pendingStart
      PROVE  Done
  <2>1. WithError(c) \in Work /\ Sound(WithError(c), Heard') /\ Tasks(WithError(c))
    BY <1>1, <1>3, RefusedSound, SoundMore DEF Tasks, WithError
  <2> QED BY <2>1
<1>4. ASSUME NEW c \in Call,
             pendingStart' = Append(pendingStart, [call |-> c, servers |-> {}]),
             UNCHANGED answers
      PROVE  Done
  <2>1. WithTask(c) \in Work /\ Sound(WithTask(c), Heard') /\ Tasks(WithTask(c))
    BY <1>1, <1>4, NewTaskSound, SoundMore DEF Tasks, WithTask
  <2> QED BY <2>1
<1>5. ASSUME NEW p \in Process, State(p) = "launched", Report(p) \/ FailAtPm2(p)
      PROVE  Done
  <2>1. p \notin Reported
    BY <1>5 DEF Reported
  <2>2. p \in Reported'
    BY <1>5, ReportedGrows
  <2>3. Started(p)
    BY <1>5 DEF Report, FailAtPm2, Started
  <2> QED BY <1>1, <2>1, <2>2, <2>3, StartedSound
<1> HIDE DEF Done
<1>6. CASE UNCHANGED vars
  BY <1>2, <1>6 DEF vars, calls, tasks, Done
<1>7. ASSUME NEW c \in Call, Begin(c) PROVE Goal
  BY <1>2, <1>3, <1>7 DEF Begin
<1>8. ASSUME NEW r \in Request, Start(r) PROVE Goal
  BY <1>7, <1>8 DEF Start, Call
<1>9. ASSUME NEW q \in Query, QueryServer(q) PROVE Goal
  <2>1. CASE Begin(q)
    BY <1>7, <2>1 DEF Call
  <2>2. CASE UNCHANGED <<type, size, tasks>>
    BY <1>2, <2>2 DEF tasks
  <2> QED BY <1>9, <2>1, <2>2 DEF QueryServer
<1>10. ASSUME NEW c \in Call, LookForFrontier(c) \/ PackageFound(c) PROVE Goal
  BY <1>4, <1>10 DEF LookForFrontier, PackageFound, OnFound
<1>11. ASSUME NEW c \in Call, PackageMissing(c) PROVE Goal
  BY <1>3, <1>11 DEF PackageMissing
<1>12. ASSUME NEW c \in Call, TimerFires(c) PROVE Goal
  BY <1>2, <1>12 DEF TimerFires, tasks
<1>13. ASSUME NEW p \in Process, Report(p) \/ FailAtPm2(p) PROVE Goal
  BY <1>5, <1>13 DEF Report, FailAtPm2, calls
<1>14. ASSUME NEW p \in Process,
              FailSilently(p) \/ Register(p) \/ Unregister(p)
       PROVE  Goal
  BY <1>2, <1>14 DEF FailSilently, Register, Unregister, calls, tasks
<1> QED BY <1>6, <1>8, <1>9, <1>10, <1>11, <1>12, <1>13, <1>14 DEF Next, Pending, Done

LEMMA TasksNext ==
  ASSUME CallInv, TaskInv, [Next]_vars
  PROVE  TaskInv'
<1>1. UNCHANGED <<type, size>>
  BY TaskSteps
<1>2. PICK w \in Work : Sound(w, Heard') /\ Tasks(w)
  BY TaskSteps
<1>3. pendingStart' = w.pending /\ answers' = w.answers
  BY <1>2 DEF Tasks
<1>4. /\ Ordered(w.pending) /\ TasksOwn(w.pending, Heard')
      /\ AnswersOwn(w.pending, w.answers, Heard')
  BY <1>2 DEF Sound
<1>5. Ordered(pendingStart)'
  BY <1>1, <1>3, <1>4 DEF Ordered
<1>6. TasksOwn(pendingStart, Heard)'
  BY <1>1, <1>3, <1>4 DEF TasksOwn, TypeOf
<1>7. AnswersOwn(pendingStart, answers, Heard)'
  BY <1>1, <1>3, <1>4 DEF AnswersOwn, TypeOf
<1> QED BY <1>5, <1>6, <1>7 DEF TaskInv, Sound, Now

LEMMA TaskInvariant == Spec => [](CallInv /\ TaskInv)
<1>1. Init => CallInv /\ TaskInv
  <2> SUFFICES ASSUME Init PROVE CallInv /\ TaskInv
    OBVIOUS
  <2>1. CallInv
    BY TypeInit, ChainInit DEF CallInv
  <2>2. pendingStart = << >> /\ \A c \in Call : answers[c] = << >>
    BY DEF Init
  <2> QED BY <2>1, <2>2 DEF TaskInv, Sound, Now, Ordered, TasksOwn, AnswersOwn
<1>2. CallInv /\ TaskInv /\ [Next]_vars => (CallInv /\ TaskInv)'
  BY CallNext, TasksNext
<1> QED BY <1>1, <1>2, PTL DEF Spec

LEMMA TasksNow ==
  ASSUME TaskInv
  PROVE  /\ OldestFirst
         /\ TasksOwn(pendingStart, Heard)
         /\ AnswersOwn(pendingStart, answers, Heard)
BY DEF TaskInv, Sound, Now, Ordered, OldestFirst

\* However requests of one type overlap, their tasks are filled in the order
\* they came (execute.js, onStarted).
THEOREM TasksInOrder == Spec => []OldestFirst
<1>1. TaskInv => OldestFirst
  BY TasksNow
<1> QED BY <1>1, TaskInvariant, PTL

\* A request is answered with as many entries as it asks for, of processes of
\* its type, which nobody else is given; only with PM2 are there errors among
\* them (execute.js, onStarted).
THEOREM AnswersRight == Spec => []AnswersHold
<1>1. TaskInv => AnswersHold
  <2> SUFFICES ASSUME TaskInv PROVE AnswersHold
    OBVIOUS
  <2>1. AnswersOwn(pendingStart, answers, Heard)
    BY TasksNow
  <2>2. \A e \in Heard : e.error => Pm2
    BY DEF Heard
  <2> QED BY <2>1, <2>2 DEF AnswersOwn, AnswersHold
<1> QED BY <1>1, TaskInvariant, PTL

-----------------------------------------------------------------------------
(* A task for each process.                                                *)

\* The processes that call c runs before its timers are over.
Limit(c) == IF found[c] = 0 THEN 0 ELSE size[c] + found[c] - 1

\* The processes of type t that are still to report: those that have been run
\* and those that will be.
Due(t) ==
  {p \in ProcessId :
     /\ TypeOf(p) = t
     /\ p[2] \in 1 .. Limit(p[1])
     /\ p[2] > count(p[1]) \/ State(p) = "launched"}

\* The places for entries in those of the tasks ts that are of type t.
Places(t, ts) ==
  {x \in Nat \X Nat :
     /\ x[1] \in DOMAIN ts
     /\ type[ts[x[1]].call] = t
     /\ x[2] \in 1 .. size[ts[x[1]].call] - Cardinality(ts[x[1]].servers)}

Free(t) == Places(t, pendingStart)

\* Each process that is still to report has a place of its own, but for the
\* types of which PM2 reported one twice.
Fits(D, F) == \E f \in [D -> F] : \A p, q \in D : f[p] = f[q] => p = q

Matched == \A t \in Type \ twice : Fits(Due(t), Free(t))

LEMMA FitsFewer ==
  ASSUME NEW D, NEW F, Fits(D, F), NEW D1 \in SUBSET D
  PROVE  Fits(D1, F)
<1>1. PICK f \in [D -> F] : \A p, q \in D : f[p] = f[q] => p = q
  BY DEF Fits
<1> DEFINE g == [p \in D1 |-> f[p]]
<1>2. g \in [D1 -> F] /\ \A p, q \in D1 : g[p] = g[q] => p = q
  BY <1>1
<1> QED BY <1>2 DEF Fits

\* More processes, which have places of their own.
LEMMA FitsMore ==
  ASSUME NEW D, NEW F, Fits(D, F), NEW E, NEW G, Fits(E, G), F \cap G = {},
         NEW D1 \in SUBSET (D \cup E)
  PROVE  Fits(D1, F \cup G)
<1>1. PICK f \in [D -> F] : \A p, q \in D : f[p] = f[q] => p = q
  BY DEF Fits
<1>2. PICK g \in [E -> G] : \A p, q \in E : g[p] = g[q] => p = q
  BY DEF Fits
<1> DEFINE h == [p \in D1 |-> IF p \in D THEN f[p] ELSE g[p]]
<1>3. h \in [D1 -> F \cup G]
  BY <1>1, <1>2
<1>4. ASSUME NEW p \in D1, NEW q \in D1, h[p] = h[q]
      PROVE  p = q
  <2>1. h[p] = (IF p \in D THEN f[p] ELSE g[p]) /\ h[q] = (IF q \in D THEN f[q] ELSE g[q])
    OBVIOUS
  <2>2. CASE p \in D /\ q \in D
    BY <1>1, <1>4, <2>1, <2>2
  <2>3. CASE p \notin D /\ q \notin D
    BY <1>2, <1>4, <2>1, <2>3
  <2>4. CASE p \in D /\ q \notin D
    BY <1>1, <1>2, <1>4, <2>1, <2>4
  <2>5. CASE p \notin D /\ q \in D
    BY <1>1, <1>2, <1>4, <2>1, <2>5
  <2> QED BY <2>2, <2>3, <2>4, <2>5
<1> QED BY <1>3, <1>4 DEF Fits

LEMMA FitsThrough ==
  ASSUME NEW D, NEW F, Fits(D, F), NEW D1 \in SUBSET D, NEW F1, Fits(F, F1)
  PROVE  Fits(D1, F1)
<1>1. PICK f \in [D -> F] : \A p, q \in D : f[p] = f[q] => p = q
  BY DEF Fits
<1>2. PICK g \in [F -> F1] : \A x, y \in F : g[x] = g[y] => x = y
  BY DEF Fits
<1> DEFINE h == [p \in D1 |-> g[f[p]]]
<1>3. h \in [D1 -> F1] /\ \A p, q \in D1 : h[p] = h[q] => p = q
  BY <1>1, <1>2
<1> HIDE DEF h
<1> QED BY <1>3 DEF Fits

\* Process p takes place x, which may have been another's: that one gets the
\* place of p.
LEMMA FitsTaken ==
  ASSUME NEW D, NEW F, Fits(D, F), NEW p \in D, NEW x \in F,
         NEW D1 \in SUBSET (D \ {p}), NEW F1, Fits(F \ {x}, F1)
  PROVE  Fits(D1, F1)
<1>1. PICK f \in [D -> F] : \A q, r \in D : f[q] = f[r] => q = r
  BY DEF Fits
<1>2. PICK g \in [F \ {x} -> F1] : \A y, z \in F \ {x} : g[y] = g[z] => y = z
  BY DEF Fits
<1> DEFINE to(q) == IF f[q] = x THEN f[p] ELSE f[q]
           h == [q \in D1 |-> g[to(q)]]
<1>3. \A q \in D1 : to(q) \in F \ {x}
  BY <1>1
<1>4. \A q, r \in D1 : to(q) = to(r) => q = r
  BY <1>1
<1> HIDE DEF to
<1>5. h \in [D1 -> F1]
  BY <1>2, <1>3
<1>6. \A q, r \in D1 : h[q] = h[r] => q = r
  BY <1>2, <1>3, <1>4
<1> QED BY <1>5, <1>6 DEF Fits

LEMMA DueMeans ==
  ASSUME NEW t, NEW p
  PROVE  p \in Due(t) <=>
           /\ p \in ProcessId
           /\ type[p[1]] = t
           /\ p[2] \in 1 .. Limit(p[1])
           /\ p[2] > Len(state[p[1]]) \/ state[p[1]][p[2]] = "launched"
BY DEF Due, TypeOf, State, count

\* A process that has been run and has not reported is one of them.
LEMMA LaunchedDue ==
  ASSUME CallInv, NEW p \in Process, State(p) = "launched"
  PROVE  p \in Due(TypeOf(p))
<1>1. p \in ProcessId /\ p[2] \in 1 .. count(p[1]) /\ p[1] \in Call
  BY ProcessIs DEF CallInv, ProcessId
<1> DEFINE c == p[1]
<1>2. /\ timers[c] \in Nat /\ found[c] \in 0 .. 2 /\ count(c) \in Nat
      /\ size[c] \in Nat
  BY <1>1, SizePositive DEF CallInv, TypeOK, count
<1>3. Chain(c)
  BY <1>1 DEF CallInv, Chains
<1>4. count(c) <= Limit(c) /\ Limit(c) \in Nat
  <2>1. found[c] # 0
    BY <1>1, <1>2, <1>3 DEF Chain
  <2> QED BY <1>2, <1>3, <2>1 DEF Chain, Limit
<1>5. p[2] \in 1 .. Limit(c)
  BY <1>1, <1>2, <1>4
<1> QED BY <1>1, <1>5 DEF Due

LEMMA MinNat ==
  ASSUME NEW T \in SUBSET Nat, T # {}
  PROVE  \E x \in T : \A y \in T : x <= y
<1> DEFINE R == {ss \in Nat \X Nat : ss[1] < ss[2]}
<1>1. IsWellFoundedOn(R, Nat)
  <2>1. R = OpToRel(<, Nat)
    BY DEF OpToRel
  <2> QED BY <2>1, NatLessThanWellFounded
<1>2. PICK x \in T : \A y \in T : ~ (<<y, x>> \in R)
  <2> HIDE DEF R
  <2> QED BY <1>1, WFMin
<1>3. ASSUME NEW y \in T, y < x PROVE FALSE
  BY <1>2, <1>3
<1> QED BY <1>3

\* Where there is a place, the loop of onStarted finds a task.
LEMMA PlaceFound ==
  ASSUME NEW ts \in Seq(Task), NEW t, Places(t, ts) # {}
  PROVE  TaskOfType(t, ts) # {}
<1> DEFINE T == {i \in DOMAIN ts : type[ts[i].call] = t}
<1>1. T \in SUBSET Nat /\ T # {} /\ DOMAIN ts = 1 .. Len(ts) /\ Len(ts) \in Nat
  <2>1. DOMAIN ts = 1 .. Len(ts) /\ Len(ts) \in Nat
    OBVIOUS
  <2>2. PICK x \in Places(t, ts) : TRUE
    OBVIOUS
  <2>3. x[1] \in T
    BY <2>2 DEF Places
  <2> QED BY <2>1, <2>3
<1>2. PICK i \in T : \A j \in T : i <= j
  <2> HIDE DEF T
  <2> QED BY <1>1, MinNat
<1>3. i \in TaskOfType(t, ts)
  BY <1>1, <1>2 DEF TaskOfType
<1> QED BY <1>3

LEMMA DueNextMeans ==
  ASSUME NEW t, NEW p
  PROVE  p \in Due(t)' <=>
           /\ p \in ProcessId
           /\ type'[p[1]] = t
           /\ p[2] \in 1 .. Limit(p[1])'
           /\ p[2] > Len(state'[p[1]]) \/ state'[p[1]][p[2]] = "launched"
BY DEF Due, TypeOf, State, count, ProcessId

\* Processes that are run or report: nobody is due who was not, but for calls
\* that are to run more.
LEMMA DueGrows ==
  ASSUME CallInv, UNCHANGED type, NEW t,
         \A c \in Call : /\ Len(state'[c]) \in Nat /\ Len(state'[c]) >= Len(state[c])
                         /\ \A k \in 1 .. Len(state[c]) :
                              state'[c][k] = "launched" => state[c][k] = "launched",
         NEW p \in Due(t)', p[2] \in 1 .. Limit(p[1])
  PROVE  p \in Due(t)
<1>1. /\ p \in ProcessId /\ type[p[1]] = t
      /\ p[2] > Len(state'[p[1]]) \/ state'[p[1]][p[2]] = "launched"
  BY DueNextMeans
<1>2. p[1] \in Call /\ p[2] \in Nat /\ p[2] >= 1
  BY <1>1 DEF ProcessId
<1>3. Len(state[p[1]]) \in Nat
  BY <1>2 DEF CallInv, TypeOK
<1>4. p[2] > Len(state[p[1]]) \/ state[p[1]][p[2]] = "launched"
  BY <1>1, <1>2, <1>3
<1> QED BY <1>1, <1>4, DueMeans

LEMMA DueKept ==
  ASSUME CallInv, UNCHANGED <<type, size, found>>, NEW t,
         \A c \in Call : /\ Len(state'[c]) \in Nat /\ Len(state'[c]) >= Len(state[c])
                         /\ \A k \in 1 .. Len(state[c]) :
                              state'[c][k] = "launched" => state[c][k] = "launched"
  PROVE  Due(t)' \subseteq Due(t)
<1>1. ASSUME NEW p \in Due(t)' PROVE p[2] \in 1 .. Limit(p[1])
  BY DueNextMeans DEF Limit
<1> QED BY <1>1, DueGrows

LEMMA DueBecomes ==
  ASSUME CallInv, NEW p \in Process, NEW s \in {"reported", "serving", "failed"},
         Becomes(p, s), UNCHANGED <<type, size, found>>, NEW t
  PROVE  Due(t)' \subseteq Due(t) \ {p}
<1>1. \A c \in Call : Len(state'[c]) = Len(state[c]) /\ Len(state[c]) \in Nat
  BY BecomesType DEF CallInv, TypeOK
<1>2. \A c \in Call : \A k \in 1 .. Len(state[c]) :
        state'[c][k] = IF <<c, k>> = p THEN s ELSE state[c][k]
  BY BecomesType DEF CallInv
<1>3. Due(t)' \subseteq Due(t)
  BY <1>1, <1>2, DueKept
<1>4. /\ p[1] \in Call /\ p[2] \in 1 .. Len(state[p[1]]) /\ <<p[1], p[2]>> = p
  BY ProcessIs DEF CallInv, ProcessId, count
<1>5. ~ p[2] > Len(state'[p[1]]) /\ state'[p[1]][p[2]] # "launched"
  BY <1>1, <1>2, <1>4
<1>6. p \notin Due(t)'
  BY <1>5, DueNextMeans
<1> QED BY <1>3, <1>6

LEMMA LaunchStates ==
  ASSUME TypeOK, NEW c \in Call, NEW n, StartServer(c, n)
  PROVE  \A d \in Call : /\ Len(state'[d]) \in Nat /\ Len(state'[d]) >= Len(state[d])
                         /\ \A k \in 1 .. Len(state[d]) : state'[d][k] = state[d][k]
<1>1. \A d \in Call : state[d] \in Seq({"launched", "reported", "serving", "failed"})
  BY DEF TypeOK
<1>2. state'[c] = Append(state[c], "launched")
      /\ \A d \in Call \ {c} : state'[d] = state[d]
  BY DEF StartServer, TypeOK
<1>3. Len(state'[c]) = Len(state[c]) + 1
      /\ \A k \in 1 .. Len(state[c]) : state'[c][k] = state[c][k]
  BY <1>1, <1>2, AppendProperties
<1>4. \A d \in Call : Len(state[d]) \in Nat
  BY <1>1
<1> QED BY <1>2, <1>3, <1>4

\* The places of a type only depend on the tasks of that type.
LEMMA FreeMeans ==
  ASSUME TypeOK, NEW t, NEW x
  PROVE  x \in Free(t) <=>
           /\ x \in Nat \X Nat
           /\ x[1] \in 1 .. Len(pendingStart)
           /\ type[pendingStart[x[1]].call] = t
           /\ x[2] \in 1 .. size[pendingStart[x[1]].call] - Cardinality(pendingStart[x[1]].servers)
<1>1. DOMAIN pendingStart = 1 .. Len(pendingStart)
  BY DEF TypeOK
<1> QED BY <1>1 DEF Free, Places

LEMMA FreeNextMeans ==
  ASSUME TypeOK', NEW t, NEW x
  PROVE  x \in Free(t)' <=>
           /\ x \in Nat \X Nat
           /\ x[1] \in 1 .. Len(pendingStart')
           /\ type'[pendingStart'[x[1]].call] = t
           /\ x[2] \in 1 .. size'[pendingStart'[x[1]].call] - Cardinality(pendingStart'[x[1]].servers)
<1>1. DOMAIN pendingStart' = 1 .. Len(pendingStart')
  BY DEF TypeOK
<1> QED BY <1>1 DEF Free, Places

LEMMA MatchedKept ==
  ASSUME Matched, UNCHANGED <<type, size, pendingStart, twice>>,
         \A t \in Type : Due(t)' \subseteq Due(t)
  PROVE  Matched'
<1> SUFFICES ASSUME NEW t \in Type \ twice PROVE Fits(Due(t)', Free(t)')
  BY DEF Matched, Fits
<1>1. Free(t)' = Free(t)
  BY DEF Free, Places
<1> QED BY <1>1, FitsFewer DEF Matched

LEMMA MatchedFound ==
  ASSUME CallInv, TaskInv, Matched, TypeOK', NEW c \in Call, found[c] \in 0 .. 1,
         OnFound(c), UNCHANGED <<type, size, twice>>
  PROVE  Matched'
<1> DEFINE n == Len(pendingStart)
           E == {<<c, k>> : k \in Limit(c) + 1 .. Limit(c)'}
           G == {<<n + 1, k>> : k \in 1 .. size[c]}
<1>1. /\ n \in Nat /\ Len(pendingStart') = n + 1
      /\ \A i \in 1 .. n : pendingStart'[i] = pendingStart[i]
      /\ pendingStart'[n + 1] = [call |-> c, servers |-> {}]
  <2>1. pendingStart \in Seq(Task)
        /\ [call |-> c, servers |-> {}] \in Task
    BY DEF CallInv, TypeOK, Task
  <2> QED BY <2>1, AppendProperties DEF OnFound
<1>2. /\ size[c] \in Nat /\ Limit(c) \in Nat /\ Limit(c)' \in Nat
      /\ Limit(c)' - Limit(c) <= size[c]
      /\ \A d \in Call \ {c} : Limit(d)' = Limit(d)
  <2>1. found'[c] = found[c] + 1 /\ \A d \in Call \ {c} : found'[d] = found[d]
    BY DEF OnFound, CallInv, TypeOK
  <2>2. size[c] \in Nat /\ size[c] >= 1
    BY SizePositive DEF CallInv
  <2> QED BY <2>1, <2>2 DEF Limit
<1>3. Fits(E, G)
  <2> DEFINE f == [p \in E |-> <<n + 1, p[2] - Limit(c)>>]
  <2>1. f \in [E -> G]
    BY <1>2
  <2>2. ASSUME NEW p \in E, NEW q \in E, f[p] = f[q] PROVE p = q
    BY <1>2, <2>2
  <2> QED BY <2>1, <2>2 DEF Fits
<1>4. ASSUME NEW t, NEW p \in Due(t)', p \notin Due(t)
      PROVE  p \in E /\ t = type[c]
  <2>1. \A d \in Call : /\ Len(state'[d]) \in Nat /\ Len(state'[d]) >= Len(state[d])
                        /\ \A k \in 1 .. Len(state[d]) : state'[d][k] = state[d][k]
    BY LaunchStates DEF CallInv, OnFound
  <2>2. p[2] \notin 1 .. Limit(p[1])
    BY <1>4, <2>1, DueGrows
  <2>3. p \in ProcessId /\ type[p[1]] = t /\ p[2] \in 1 .. Limit(p[1])'
    BY <1>4, DueNextMeans
  <2>4. p[1] = c /\ p = <<p[1], p[2]>>
    BY <1>2, <2>2, <2>3 DEF ProcessId
  <2> QED BY <1>2, <2>2, <2>3, <2>4
<1>5. ASSUME NEW t
      PROVE  /\ Free(t) \cap G = {}
             /\ Free(t)' = IF t = type[c] THEN Free(t) \cup G ELSE Free(t)
  <2>1. \A x : x \in Free(t) <=>
          /\ x \in Nat \X Nat
          /\ x[1] \in 1 .. n
          /\ type[pendingStart[x[1]].call] = t
          /\ x[2] \in 1 .. size[pendingStart[x[1]].call] - Cardinality(pendingStart[x[1]].servers)
    BY FreeMeans DEF CallInv
  <2>2. \A x : x \in Free(t)' <=>
          /\ x \in Nat \X Nat
          /\ x[1] \in 1 .. n + 1
          /\ type[pendingStart'[x[1]].call] = t
          /\ x[2] \in 1 .. size[pendingStart'[x[1]].call] - Cardinality(pendingStart'[x[1]].servers)
    BY <1>1, FreeNextMeans
  <2>3. \A x \in G : x \in Nat \X Nat /\ x[1] = n + 1 /\ x[2] \in 1 .. size[c]
    BY <1>1, <1>2
  <2>4. \A x \in Nat \X Nat : x[1] = n + 1 /\ x[2] \in 1 .. size[c] => x \in G
    BY <1>1, <1>2
  <2>5. Cardinality({}) = 0
    BY FS_EmptySet
  <2> HIDE DEF G, n
  <2>6. Free(t) \cap G = {}
    BY <1>1, <2>1, <2>3
  <2>7. ASSUME NEW x, x \in Nat \X Nat, x[1] \in 1 .. n
        PROVE  x \in Free(t)' <=> x \in Free(t)
    BY <1>1, <2>1, <2>2, <2>7
  <2>8. ASSUME NEW x, x \in Nat \X Nat, x[1] = n + 1
        PROVE  x \in Free(t)' <=> t = type[c] /\ x \in G
    <3>1. pendingStart'[x[1]].call = c /\ pendingStart'[x[1]].servers = {}
      BY <1>1, <2>8
    <3>2. size[c] - Cardinality(pendingStart'[x[1]].servers) = size[c]
      BY <1>2, <2>5, <3>1
    <3>3. x[1] \in 1 .. n + 1
      BY <1>1, <2>8
    <3>4. x \in Free(t)' <=> type[c] = t /\ x[2] \in 1 .. size[c]
      BY <2>2, <2>8, <3>1, <3>2, <3>3
    <3> QED BY <2>3, <2>4, <2>8, <3>4
  <2>9. \A x \in Nat \X Nat : x[1] \in 1 .. n + 1 => x[1] \in 1 .. n \/ x[1] = n + 1
    BY <1>1
  <2>10. \A x \in Free(t)' : x \in Nat \X Nat /\ x[1] \in 1 .. n + 1
    BY <2>2
  <2>11. \A x \in Free(t) : x \in Nat \X Nat /\ x[1] \in 1 .. n
    BY <2>1
  <2> QED BY <2>3, <2>6, <2>7, <2>8, <2>9, <2>10, <2>11
<1> HIDE DEF E, G, n
<1>6. ASSUME NEW t \in Type \ twice PROVE Fits(Due(t)', Free(t)')
  <2>1. Fits(Due(t), Free(t))
    BY DEF Matched
  <2>2. CASE t = type[c]
    <3>1. Due(t)' \in SUBSET (Due(t) \cup E)
      BY <1>4
    <3> QED BY <1>3, <1>5, <2>1, <2>2, <3>1, FitsMore
  <2>3. CASE t # type[c]
    <3>1. Due(t)' \in SUBSET Due(t)
      BY <1>4, <2>3
    <3> QED BY <1>5, <2>1, <2>3, <3>1, FitsFewer
  <2> QED BY <2>2, <2>3
<1> QED BY <1>6 DEF Matched, Fits

LEMMA PlacesMean ==
  ASSUME NEW ts \in Seq(Task), NEW t, NEW x
  PROVE  x \in Places(t, ts) <=>
           /\ x \in Nat \X Nat
           /\ x[1] \in 1 .. Len(ts)
           /\ type[ts[x[1]].call] = t
           /\ x[2] \in 1 .. size[ts[x[1]].call] - Cardinality(ts[x[1]].servers)
<1>1. DOMAIN ts = 1 .. Len(ts)
  OBVIOUS
<1> QED BY <1>1 DEF Places

\* An entry that goes to a task takes one place of it, the last one when the
\* task goes.
LEMMA PlaceGiven ==
  ASSUME TypeOK, NEW s \in Work, NEW R, Sound(s, R), NEW e \in Entry, e \notin R,
         NEW i \in TaskOfType(TypeOf(e.process), s.pending)
  PROVE  \E x \in Places(TypeOf(e.process), s.pending) :
           \A t : Fits(Places(t, s.pending) \ {x}, Places(t, Given(s, i, e).pending))
<1> DEFINE ts == s.pending
           us == Given(s, i, e).pending
           n == Len(ts)
           c == ts[i].call
           old == ts[i].servers
           servers == old \cup {e}
           last == size[c] - Cardinality(old)
           x == <<i, last>>
<1>1. ts \in Seq(Task) /\ n \in Nat /\ DOMAIN ts = 1 .. n
  BY DEF Work
<1>2. us \in Seq(Task)
  <2>1. i \in DOMAIN ts
    BY DEF TaskOfType
  <2>2. Given(s, i, e) \in Work
    BY <2>1, GivenType
  <2> QED BY <2>2 DEF Work
<1>3. i \in 1 .. n /\ type[c] = TypeOf(e.process)
  BY <1>1 DEF TaskOfType
<1>4. c \in Call /\ size[c] \in Nat /\ ts[i] \in Task
  <2>1. ts[i] \in Task
    BY <1>1, <1>3
  <2> QED BY <2>1, SizePositive DEF Task
<1>5. /\ Cardinality(old) \in Nat /\ Cardinality(old) < size[c]
      /\ Cardinality(servers) = Cardinality(old) + 1
  <2>1. IsFiniteSet(old) /\ e \notin old
    BY <1>1, <1>3 DEF Sound, TasksOwn
  <2>2. Cardinality(old) < size[c]
    BY <1>1, <1>3 DEF Sound, Ordered
  <2> QED BY <2>1, <2>2, FS_AddElement, FS_CardinalityType
<1>6. last \in 1 .. last /\ last \in Nat /\ i \in Nat
  BY <1>3, <1>4, <1>5
<1>7. us = IF Cardinality(servers) = size[c] THEN RemoveAt(ts, i)
           ELSE [ts EXCEPT ![i].servers = servers]
  BY DEF Given
<1> HIDE DEF us, ts
<1>8. \A t, y : y \in Places(t, ts) <=>
        /\ y \in Nat \X Nat
        /\ y[1] \in 1 .. n
        /\ type[ts[y[1]].call] = t
        /\ y[2] \in 1 .. size[ts[y[1]].call] - Cardinality(ts[y[1]].servers)
  BY <1>1, PlacesMean
<1>9. \A t, y : y \in Places(t, us) <=>
        /\ y \in Nat \X Nat
        /\ y[1] \in 1 .. Len(us)
        /\ type[us[y[1]].call] = t
        /\ y[2] \in 1 .. size[us[y[1]].call] - Cardinality(us[y[1]].servers)
  BY <1>2, PlacesMean
<1> HIDE DEF n
<1>10. x \in Places(TypeOf(e.process), ts)
  <2>1. x[1] = i /\ x[2] = last /\ x \in Nat \X Nat
    BY <1>6
  <2> QED BY <1>3, <1>6, <1>8, <2>1
<1>11. ASSUME NEW t, Cardinality(servers) = size[c]
       PROVE  Fits(Places(t, ts) \ {x}, Places(t, us))
  <2>1. /\ Len(us) = n - 1
        /\ \A k \in 1 .. n - 1 : us[k] = IF k < i THEN ts[k] ELSE ts[k + 1]
    <3>1. us = RemoveAt(ts, i)
      BY <1>7, <1>11
    <3>2. DOMAIN us = 1 .. n - 1
          /\ \A k \in 1 .. n - 1 : us[k] = IF k < i THEN ts[k] ELSE ts[k + 1]
      BY <1>1, <1>3, <3>1, RemoveAtElements DEF n
    <3>3. Len(us) \in Nat /\ DOMAIN us = 1 .. Len(us) /\ n - 1 \in Nat
      BY <1>1, <1>2, <1>3
    <3>4. Len(us) = n - 1
      BY <3>2, <3>3
    <3> QED BY <3>2, <3>4
  <2> DEFINE to(j) == IF j < i THEN j ELSE j - 1
             f == [y \in Places(t, ts) \ {x} |-> <<to(y[1]), y[2]>>]
  <2>2. ASSUME NEW j \in 1 .. n, j # i
        PROVE  to(j) \in 1 .. n - 1 /\ us[to(j)] = ts[j]
    BY <1>1, <1>3, <2>1, <2>2
  <2>3. last = 1
    BY <1>4, <1>5, <1>11
  <2>4. ASSUME NEW y \in Places(t, ts) \ {x}
        PROVE  y \in Nat \X Nat /\ y[1] \in 1 .. n /\ y[1] # i
    <3>1. y = <<y[1], y[2]>> /\ y[1] \in 1 .. n /\ y \in Nat \X Nat
      BY <1>8
    <3>2. y[1] = i => y[2] = 1
      BY <1>8, <2>3
    <3> QED BY <2>3, <3>1, <3>2
  <2>5. ASSUME NEW y \in Places(t, ts) \ {x}
        PROVE  <<to(y[1]), y[2]>> \in Places(t, us)
    <3>1. to(y[1]) \in 1 .. n - 1 /\ us[to(y[1])] = ts[y[1]]
      BY <2>2, <2>4
    <3>2. to(y[1]) \in Nat /\ y[2] \in Nat
      BY <1>1, <2>4, <3>1
    <3> DEFINE z == <<to(y[1]), y[2]>>
    <3>3. z \in Nat \X Nat /\ z[1] = to(y[1]) /\ z[2] = y[2]
      BY <3>2
    <3> HIDE DEF z, to
    <3> QED BY <1>8, <1>9, <2>1, <3>1, <3>3 DEF z
  <2>6. f \in [Places(t, ts) \ {x} -> Places(t, us)]
    BY <2>5
  <2>7. ASSUME NEW y \in Places(t, ts) \ {x}, NEW z \in Places(t, ts) \ {x}, f[y] = f[z]
        PROVE  y = z
    <3>1. /\ y = <<y[1], y[2]>> /\ z = <<z[1], z[2]>>
          /\ y[1] \in Nat /\ z[1] \in Nat /\ y[1] # i /\ z[1] # i
      BY <2>4
    <3>2. to(y[1]) = to(z[1]) /\ y[2] = z[2]
      BY <2>7
    <3>3. y[1] = z[1]
      BY <1>6, <3>1, <3>2
    <3> QED BY <3>1, <3>2, <3>3
  <2> HIDE DEF f
  <2> QED BY <2>6, <2>7 DEF Fits
<1>12. ASSUME NEW t, Cardinality(servers) # size[c]
       PROVE  Fits(Places(t, ts) \ {x}, Places(t, us))
  <2>1. us = [ts EXCEPT ![i] = [ts[i] EXCEPT !.servers = servers]]
    BY <1>7, <1>12
  <2>2. /\ Len(us) = n
        /\ us[i].servers = servers /\ us[i].call = c
        /\ \A j \in 1 .. n : j # i => us[j] = ts[j]
    BY <1>1, <1>3, <1>4, <2>1 DEF n, Task
  <2> HIDE DEF c, old, servers
  <2>3. ASSUME NEW y \in Places(t, ts) \ {x}
        PROVE  y \in Places(t, us)
    <3>1. /\ y \in Nat \X Nat /\ y[1] \in 1 .. n
          /\ type[ts[y[1]].call] = t
          /\ y[2] \in 1 .. size[ts[y[1]].call] - Cardinality(ts[y[1]].servers)
      BY <1>8
    <3>2. CASE y[1] # i
      BY <1>9, <2>2, <3>1, <3>2
    <3>3. CASE y[1] = i
      <4>1. y[2] # last /\ y[2] \in 1 .. last
        BY <2>3, <3>1, <3>3 DEF c, old
      <4>2. y[2] \in 1 .. size[c] - Cardinality(servers)
        BY <1>4, <1>5, <4>1
      <4> QED BY <1>9, <2>2, <3>1, <3>3, <4>2 DEF c
    <3> QED BY <3>2, <3>3
  <2> DEFINE g == [y \in Places(t, ts) \ {x} |-> y]
  <2>4. g \in [Places(t, ts) \ {x} -> Places(t, us)]
        /\ \A y, z \in Places(t, ts) \ {x} : g[y] = g[z] => y = z
    BY <2>3
  <2> HIDE DEF g
  <2> QED BY <2>4 DEF Fits
<1>13. \A t : Fits(Places(t, ts) \ {x}, Places(t, us))
  BY <1>11, <1>12
<1> HIDE DEF x
<1> QED BY <1>10, <1>13 DEF ts, us

\* onStarted for an entry of one type leaves the places of the others; where the
\* type itself has places, the entry takes one.
LEMMA PlaceStarted ==
  ASSUME TypeOK, NEW s \in Work, NEW R, Sound(s, R), NEW e \in Entry, e \notin R
  PROVE  /\ \A t : t # TypeOf(e.process) =>
              Fits(Places(t, s.pending), Places(t, OnStarted(s, e).pending))
         /\ Places(TypeOf(e.process), s.pending) # {} =>
              \E x \in Places(TypeOf(e.process), s.pending) :
                Fits(Places(TypeOf(e.process), s.pending) \ {x},
                     Places(TypeOf(e.process), OnStarted(s, e).pending))
<1> DEFINE own == TypeOf(e.process)
<1>0. s.pending \in Seq(Task)
  BY DEF Work
<1>1. CASE TaskOfType(own, s.pending) = {} /\ OnStarted(s, e) = s
  <2>1. Places(own, s.pending) = {}
    BY <1>0, <1>1, PlaceFound
  <2>2. ASSUME NEW F PROVE Fits(F, F)
    <3> DEFINE g == [y \in F |-> y]
    <3>1. g \in [F -> F] /\ \A y, z \in F : g[y] = g[z] => y = z
      OBVIOUS
    <3> HIDE DEF g
    <3> QED BY <3>1 DEF Fits
  <2> QED BY <1>1, <2>1, <2>2
<1>2. ASSUME NEW i \in TaskOfType(own, s.pending), OnStarted(s, e) = Given(s, i, e)
      PROVE  \E x \in Places(own, s.pending) :
               \A t : Fits(Places(t, s.pending) \ {x}, Places(t, OnStarted(s, e).pending))
  BY <1>2, PlaceGiven
<1>3. CASE \E i \in TaskOfType(own, s.pending) : OnStarted(s, e) = Given(s, i, e)
  <2>1. PICK x \in Places(own, s.pending) :
          \A t : Fits(Places(t, s.pending) \ {x}, Places(t, OnStarted(s, e).pending))
    BY <1>2, <1>3
  <2>2. \A t : t # own => Places(t, s.pending) \ {x} = Places(t, s.pending)
    BY <2>1 DEF Places
  <2> QED BY <2>1, <2>2
<1> QED BY <1>1, <1>3, OnStartedIs

LEMMA MatchedStarted ==
  ASSUME CallInv, TaskInv, Matched, NEW p \in Process, State(p) = "launched",
         NEW s \in {"reported", "failed"}, Becomes(p, s), UNCHANGED calls,
         \/ ReportOnce(p)
         \/ ReportTwice(p)
         \/ Tasks(OnStarted(Now, ErrorOf(p))) /\ UNCHANGED twice
  PROVE  Matched'
<1>1. UNCHANGED <<type, size, found>>
  BY DEF calls
<1>2. p \notin Reported
  BY DEF Reported
<1>3. /\ TypeOK /\ Now \in Work /\ Sound(Now, Heard)
      /\ Id(p) \in Entry /\ Id(p).process = p
      /\ ErrorOf(p) \in Entry /\ ErrorOf(p).process = p
      /\ Id(p) # ErrorOf(p)
  BY NowType, EntriesOf DEF CallInv, TaskInv
<1>4. Id(p) \notin Heard /\ ErrorOf(p) \notin Heard
  BY <1>2, <1>3 DEF Heard
<1>5. ASSUME NEW t, NEW w, Tasks(w) PROVE Free(t)' = Places(t, w.pending)
  BY <1>1, <1>5 DEF Free, Places, Tasks
<1>6. \A t : Free(t) = Places(t, Now.pending)
  BY DEF Free, Now
<1>7. \A t \in Type : Due(t)' \in SUBSET (Due(t) \ {p})
  BY <1>1, DueBecomes DEF CallInv
<1>8. ASSUME NEW e \in {Id(p), ErrorOf(p)}, Tasks(OnStarted(Now, e)), UNCHANGED twice,
             NEW t \in Type \ twice
      PROVE  Fits(Due(t)', Free(t)')
  <2>1. Fits(Due(t), Free(t)) /\ Free(t)' = Places(t, OnStarted(Now, e).pending)
    BY <1>5, <1>8 DEF Matched
  <2>2. e \in Entry /\ e \notin Heard /\ e.process = p
    BY <1>3, <1>4
  <2>3. /\ \A u : u # TypeOf(p) =>
              Fits(Places(u, Now.pending), Places(u, OnStarted(Now, e).pending))
        /\ Places(TypeOf(p), Now.pending) # {} =>
              \E x \in Places(TypeOf(p), Now.pending) :
                Fits(Places(TypeOf(p), Now.pending) \ {x},
                     Places(TypeOf(p), OnStarted(Now, e).pending))
    BY <1>3, <2>2, PlaceStarted
  <2>4. Due(t)' \in SUBSET (Due(t) \ {p})
    BY <1>7
  <2>5. CASE t # TypeOf(p)
    <3>1. Fits(Free(t), Free(t)')
      BY <1>6, <2>1, <2>3, <2>5
    <3>2. Due(t)' \in SUBSET Due(t)
      BY <2>4
    <3> QED BY <2>1, <3>1, <3>2, FitsThrough
  <2>6. CASE t = TypeOf(p)
    <3>1. p \in Due(t)
      BY <2>6, LaunchedDue
    <3>2. Free(t) # {}
      BY <2>1, <3>1 DEF Fits
    <3>3. PICK x \in Free(t) : Fits(Free(t) \ {x}, Free(t)')
      BY <1>6, <2>1, <2>3, <2>6, <3>2
    <3> QED BY <2>1, <2>4, <3>1, <3>3, FitsTaken
  <2> QED BY <2>5, <2>6
<1>9. ASSUME ReportTwice(p), NEW t \in Type \ twice'
      PROVE  Fits(Due(t)', Free(t)')
  <2> DEFINE one == OnStarted(Now, Id(p))
             two == OnStarted(one, ErrorOf(p))
  <2>1. t \in Type \ twice /\ t # TypeOf(p) /\ Tasks(two)
    BY <1>9 DEF ReportTwice
  <2>2. Fits(Due(t), Free(t)) /\ Due(t)' \in SUBSET Due(t)
    BY <1>7, <2>1 DEF Matched
  <2>3. Fits(Free(t), Places(t, one.pending))
    BY <1>3, <1>4, <1>6, <2>1, PlaceStarted
  <2>4. one \in Work /\ Sound(one, Heard \cup {Id(p)})
    BY <1>3, <1>4, OnStartedSound
  <2> HIDE DEF one
  <2>5. Fits(Places(t, one.pending), Places(t, two.pending))
    BY <1>3, <1>4, <2>1, <2>4, PlaceStarted
  <2>6. Free(t)' = Places(t, two.pending)
    BY <1>5, <2>1
  <2> HIDE DEF two
  <2>7. Fits(Due(t)', Places(t, one.pending))
    BY <2>2, <2>3, FitsThrough
  <2>8. Due(t)' \in SUBSET Due(t)'
    OBVIOUS
  <2> QED BY <2>5, <2>6, <2>7, FitsThrough
<1>10. \A t \in Type \ twice' : Fits(Due(t)', Free(t)')
  BY <1>8, <1>9 DEF ReportOnce
<1> QED BY <1>10 DEF Matched, Fits

LEMMA MatchedNext ==
  ASSUME CallInv, TaskInv, Matched, [Next]_vars
  PROVE  Matched'
<1>0. CallInv' /\ TypeOK'
  BY CallNext DEF CallInv
<1>1. ASSUME UNCHANGED <<calls, state, pendingStart, twice>> PROVE Matched'
  <2>1. \A t \in Type : Due(t)' \subseteq Due(t)
    BY <1>1 DEF calls, Due, TypeOf, State, count, Limit
  <2> QED BY <1>1, <2>1, MatchedKept DEF calls
<1>2. CASE UNCHANGED vars
  BY <1>1, <1>2 DEF vars, tasks
<1>3. ASSUME UNCHANGED <<type, size, found, state, pendingStart, twice>> PROVE Matched'
  <2>1. \A t \in Type : Due(t)' \subseteq Due(t)
    BY <1>3 DEF Due, TypeOf, State, count, Limit
  <2> QED BY <1>3, <2>1, MatchedKept
<1>4. ASSUME NEW r \in Request, Start(r) PROVE Matched'
  BY <1>3, <1>4 DEF Start, Begin
<1>5. ASSUME NEW q \in Query, QueryServer(q) PROVE Matched'
  BY <1>3, <1>5 DEF QueryServer, Begin, tasks
<1>6. ASSUME NEW c \in Call, LookForFrontier(c) \/ PackageFound(c) PROVE Matched'
  <2>1. found[c] \in 0 .. 1
    BY <1>6 DEF LookForFrontier, PackageFound, CallInv, LooksOnce
  <2> QED BY <1>0, <1>6, <2>1, MatchedFound DEF LookForFrontier, PackageFound
<1>7. ASSUME NEW c \in Call, PackageMissing(c) PROVE Matched'
  BY <1>3, <1>7 DEF PackageMissing
<1>8. ASSUME NEW c \in Call, TimerFires(c) PROVE Matched'
  <2>1. StartServer(c, timers[c] - 1) /\ UNCHANGED <<type, size, found, pendingStart, twice>>
    BY <1>8 DEF TimerFires, tasks
  <2>2. \A d \in Call : /\ Len(state'[d]) \in Nat /\ Len(state'[d]) >= Len(state[d])
                        /\ \A k \in 1 .. Len(state[d]) : state'[d][k] = state[d][k]
    BY <2>1, LaunchStates DEF CallInv
  <2>3. \A t \in Type : Due(t)' \subseteq Due(t)
    BY <2>1, <2>2, DueKept
  <2> QED BY <2>1, <2>3, MatchedKept
<1>9. ASSUME NEW p \in Process, Report(p) \/ FailAtPm2(p) PROVE Matched'
  BY <1>0, <1>9, MatchedStarted DEF Report, FailAtPm2, Started
<1>10. ASSUME NEW p \in Process,
              FailSilently(p) \/ Register(p) \/ Unregister(p)
       PROVE  Matched'
  <2>1. UNCHANGED <<type, size, found, pendingStart, twice>>
        /\ \E s \in {"reported", "serving", "failed"} : Becomes(p, s)
    BY <1>10 DEF FailSilently, Register, Unregister, calls, tasks
  <2>2. \A t \in Type : Due(t)' \subseteq Due(t)
    BY <2>1, DueBecomes
  <2> QED BY <2>1, <2>2, MatchedKept
<1> QED BY <1>2, <1>4, <1>5, <1>6, <1>7, <1>8, <1>9, <1>10 DEF Next, Pending

LEMMA MatchedInvariant == Spec => []Matched
<1>1. Init => Matched
  <2> SUFFICES ASSUME Init, NEW t \in Type \ twice PROVE Fits(Due(t), Free(t))
    BY DEF Matched
  <2>1. Due(t) = {}
    BY DEF Due, Limit, Init, ProcessId
  <2> DEFINE f == [p \in Due(t) |-> p]
  <2>2. f \in [Due(t) -> Free(t)] /\ \A p, q \in Due(t) : f[p] = f[q] => p = q
    BY <2>1
  <2> QED BY <2>2 DEF Fits
<1>2. CallInv /\ TaskInv /\ Matched /\ [Next]_vars => Matched'
  BY MatchedNext
<1> QED BY <1>1, <1>2, TaskInvariant, PTL DEF Spec

\* A process that reports finds a task, whatever the calls of its type, the
\* second calls of onFound and the failures before it; but not when PM2 has
\* reported one of its type twice (execute.js, onStarted, which has no branch for
\* a process that finds none).
THEOREM TasksForAll == Spec => []TasksServed
<1>1. CallInv /\ TaskInv /\ Matched => TasksServed
  <2> SUFFICES ASSUME CallInv, TaskInv, Matched,
                      NEW p \in Process, State(p) = "launched", TypeOf(p) \notin twice
               PROVE  TaskOfType(TypeOf(p), pendingStart) # {}
    BY TasksNow DEF TasksServed
  <2>1. p \in Due(TypeOf(p))
    BY LaunchedDue
  <2>2. TypeOf(p) \in Type
    BY EntriesOf DEF CallInv
  <2>3. Free(TypeOf(p)) # {}
    BY <2>1, <2>2 DEF Matched, Fits
  <2>4. pendingStart \in Seq(Task)
    BY DEF CallInv, TypeOK
  <2> QED BY <2>3, <2>4, PlaceFound DEF Free
<1> QED BY <1>1, TaskInvariant, MatchedInvariant, PTL

=============================================================================
