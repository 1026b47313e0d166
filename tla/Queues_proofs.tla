--------------------------- MODULE Queues_proofs ----------------------------
(***************************************************************************)
(* Proofs about the log manager (LogManager), for any logs, calls and      *)
(* number of messages, and about the event-loop queue that serves it       *)
(* (AdvQueue), for any items, handler outcomes, and handlers that enqueue  *)
(* or not.                                                                 *)
(***************************************************************************)
EXTENDS LogManager, AdvQueue, FiniteSetTheorems, FunctionTheorems,
        SequenceTheorems, TLAPS

\* The index counts what is buffered of each log, and only a log that is open
\* or is being emptied has something in the buffer.
IndexInv ==
  \A l \in Log : /\ IsFiniteSet(Buffered(l))
                 /\ idx[l] = Cardinality(Buffered(l))
                 /\ logs[l] \notin {"open", "emptying"} => idx[l] = 0

\* Logs that are or were on record; this they remain.
Known == {l \in Log : logs[l] \in {"open", "emptying", "fsclose", "closed"}}

\* What a call found on record is known; once the call closes it, each log is
\* closed or still in the list of those to be closed.
DisposeInv ==
  /\ notDone \subseteq Closing
  /\ checkDoneBusy => onAllClosed \in Call /\ phase[onAllClosed] = "waiting"
  /\ \A d \in Call : present[d] \subseteq Known
  /\ \A d \in Call : phase[d] = "closing" =>
       \A l \in present[d] : logs[l] = "closed" \/ l \in notDone

Inv == TypeOK /\ IndexInv /\ DisposeInv /\ DisposedClosed

-----------------------------------------------------------------------------
(* Counting the messages of a log in the buffer.                           *)

Positions(s, l) == {i \in 1 .. Len(s) : s[i] = l}

LEMMA CountNone ==
  ASSUME NEW l
  PROVE  IsFiniteSet(Positions(<< >>, l)) /\ Cardinality(Positions(<< >>, l)) = 0
BY FS_EmptySet, EmptySeq DEF Positions

LEMMA CountAppend ==
  ASSUME NEW s \in Seq(Log), NEW m \in Log, NEW l \in Log,
         IsFiniteSet(Positions(s, l))
  PROVE  /\ IsFiniteSet(Positions(Append(s, m), l))
         /\ Cardinality(Positions(Append(s, m), l))
              = Cardinality(Positions(s, l)) + IF l = m THEN 1 ELSE 0
<1>1. /\ Append(s, m) \in Seq(Log) /\ Len(Append(s, m)) = Len(s) + 1 /\ Len(s) \in Nat
      /\ \A i \in 1 .. Len(s) : Append(s, m)[i] = s[i]
      /\ Append(s, m)[Len(s) + 1] = m
  BY AppendProperties, LenProperties
<1>2. CASE l = m
  <2>1. Positions(Append(s, m), l) = Positions(s, l) \cup {Len(s) + 1}
    BY <1>1, <1>2 DEF Positions
  <2>2. Len(s) + 1 \notin Positions(s, l)
    BY <1>1 DEF Positions
  <2>3. /\ IsFiniteSet(Positions(s, l) \cup {Len(s) + 1})
        /\ Cardinality(Positions(s, l) \cup {Len(s) + 1}) = Cardinality(Positions(s, l)) + 1
    BY <2>2, FS_AddElement
  <2> QED BY <1>2, <2>1, <2>3
<1>3. CASE l # m
  <2>1. Positions(Append(s, m), l) = Positions(s, l)
    BY <1>1, <1>3 DEF Positions
  <2>2. Cardinality(Positions(s, l)) \in Nat
    BY FS_CardinalityType
  <2> QED BY <1>3, <2>1, <2>2
<1> QED BY <1>2, <1>3

LEMMA CountTail ==
  ASSUME NEW s \in Seq(Log), s # << >>, NEW l \in Log,
         IsFiniteSet(Positions(s, l))
  PROVE  /\ IsFiniteSet(Positions(Tail(s), l))
         /\ Cardinality(Positions(Tail(s), l))
              = Cardinality(Positions(s, l)) - IF l = Head(s) THEN 1 ELSE 0
<1> DEFINE later == Positions(s, l) \ {1}
           shift == [i \in later |-> i - 1]
<1>1. /\ Tail(s) \in Seq(Log) /\ Len(Tail(s)) = Len(s) - 1 /\ Len(s) \in Nat \ {0}
      /\ \A i \in 1 .. Len(Tail(s)) : Tail(s)[i] = s[i + 1]
      /\ Head(s) = s[1]
  BY HeadTailProperties, LenProperties, EmptySeq
<1>2. IsFiniteSet(later)
  BY FS_Subset
<1>3. shift \in Bijection(later, Positions(Tail(s), l))
  <2>1. ASSUME NEW i \in later
        PROVE  shift[i] \in Positions(Tail(s), l)
    BY <1>1 DEF Positions
  <2>2. ASSUME NEW i \in later, NEW k \in later, shift[i] = shift[k]
        PROVE  i = k
    BY <1>1, <2>2 DEF Positions
  <2>3. ASSUME NEW k \in Positions(Tail(s), l)
        PROVE  \E i \in later : shift[i] = k
    <3>1. k + 1 \in later
      BY <1>1 DEF Positions
    <3>2. shift[k + 1] = k
      BY <1>1, <3>1 DEF Positions
    <3> QED BY <3>1, <3>2
  <2>4. shift \in [later -> Positions(Tail(s), l)]
    BY <2>1
  <2> HIDE DEF shift
  <2> QED BY <2>2, <2>3, <2>4, Fun_IsBij
<1>4. /\ IsFiniteSet(Positions(Tail(s), l))
      /\ Cardinality(Positions(Tail(s), l)) = Cardinality(later)
  BY <1>2, <1>3, FS_Bijection DEF ExistsBijection
<1>5. 1 \in Positions(s, l) <=> l = Head(s)
  BY <1>1 DEF Positions
<1>6. Cardinality(later) = Cardinality(Positions(s, l)) - IF l = Head(s) THEN 1 ELSE 0
  BY <1>5, FS_RemoveElement, FS_CardinalityType
<1> QED BY <1>4, <1>6

\* A log without a message in the buffer has none counted.
LEMMA CountZero ==
  ASSUME NEW s, NEW l, IsFiniteSet(Positions(s, l))
  PROVE  /\ Cardinality(Positions(s, l)) \in Nat
         /\ Cardinality(Positions(s, l)) = 0 <=> Positions(s, l) = {}
BY FS_EmptySet, FS_CardinalityType

-----------------------------------------------------------------------------
(* The buffer and its index.                                               *)

\* A message is buffered and counted.
LEMMA WriteLogStep ==
  ASSUME TypeOK, IndexInv, NEW l \in Log, NEW day \in BOOLEAN, WriteLog(l, day)
  PROVE  buffer' \in Seq(Log) /\ idx' \in [Log -> Nat] /\ IndexInv'
<1>0. \A k \in Log : Buffered(k) = Positions(buffer, k) /\ Buffered(k)' = Positions(buffer', k)
  BY DEF Buffered, Positions
<1>1. /\ buffer \in Seq(Log) /\ logs[l] = "open" /\ logs' = logs
      /\ buffer' = buffer \o Message(l, day)
      /\ idx' = [idx EXCEPT ![l] = @ + Len(Message(l, day))]
      /\ idx \in [Log -> Nat]
  BY DEF WriteLog, TypeOK
<1>2. CASE ~day
  <2>1. buffer' = Append(buffer, l) /\ Len(Message(l, day)) = 1
    BY <1>1, <1>2, AppendIsConcat DEF Message
  <2>2. \A k \in Log : idx'[k] = idx[k] + IF k = l THEN 1 ELSE 0
    BY <1>1, <2>1
  <2>3. ASSUME NEW k \in Log
        PROVE  /\ IsFiniteSet(Buffered(k)')
               /\ idx'[k] = Cardinality(Buffered(k)')
    BY <1>0, <1>1, <2>1, <2>2, CountAppend DEF IndexInv
  <2> QED BY <1>1, <2>1, <2>2, <2>3, AppendProperties DEF IndexInv
<1>3. CASE day
  <2>1. buffer' = Append(Append(buffer, l), l) /\ Len(Message(l, day)) = 2
    BY <1>1, <1>3 DEF Message
  <2>2. \A k \in Log : idx'[k] = (idx[k] + IF k = l THEN 1 ELSE 0) + IF k = l THEN 1 ELSE 0
    BY <1>1, <2>1
  <2>3. Append(buffer, l) \in Seq(Log)
    BY <1>1, AppendProperties
  <2>4. ASSUME NEW k \in Log
        PROVE  /\ IsFiniteSet(Buffered(k)')
               /\ idx'[k] = Cardinality(Buffered(k)')
    <3> DEFINE once == Append(buffer, l)
    <3>1. /\ IsFiniteSet(Positions(once, k))
          /\ Cardinality(Positions(once, k)) = idx[k] + IF k = l THEN 1 ELSE 0
      BY <1>0, <1>1, CountAppend DEF IndexInv
    <3>2. once \in Seq(Log) /\ buffer' = Append(once, l)
      BY <2>1, <2>3
    <3> HIDE DEF once
    <3>3. /\ IsFiniteSet(Positions(Append(once, l), k))
          /\ Cardinality(Positions(Append(once, l), k))
               = Cardinality(Positions(once, k)) + IF k = l THEN 1 ELSE 0
      BY <3>1, <3>2, CountAppend
    <3> QED BY <1>0, <2>2, <3>1, <3>2, <3>3
  <2> QED BY <1>1, <2>1, <2>2, <2>3, <2>4, AppendProperties DEF IndexInv
<1> QED BY <1>2, <1>3

\* The first message is that of a log on record, and is written.
LEMMA WriteStep ==
  ASSUME TypeOK, IndexInv, Write
  PROVE  buffer' \in Seq(Log) /\ idx' \in [Log -> Nat] /\ IndexInv'
<1>0. \A k \in Log : Buffered(k) = Positions(buffer, k) /\ Buffered(k)' = Positions(buffer', k)
  BY DEF Buffered, Positions
<1> DEFINE h == Head(buffer)
<1>1. /\ buffer \in Seq(Log) /\ buffer # << >> /\ buffer' = Tail(buffer)
      /\ logs' = logs /\ idx \in [Log -> Nat]
      /\ h \in Log /\ Tail(buffer) \in Seq(Log)
  BY HeadTailProperties DEF Write, TypeOK
<1>2. h \in OnRecord
  <2>1. 1 \in Buffered(h)
    BY <1>1, EmptySeq, LenProperties DEF Buffered
  <2>2. idx[h] # 0
    BY <1>0, <1>1, <2>1, CountZero DEF IndexInv
  <2> QED BY <1>1, <2>2 DEF IndexInv, OnRecord, Closing
<1>3. idx' = [idx EXCEPT ![h] = @ - 1]
  BY <1>2 DEF Write
<1>4. \A k \in Log : idx'[k] = idx[k] - IF k = h THEN 1 ELSE 0
  BY <1>1, <1>3
<1>5. \A k \in Log : /\ IsFiniteSet(Buffered(k)')
                     /\ idx'[k] = Cardinality(Buffered(k)')
  BY <1>0, <1>1, <1>4, CountTail DEF IndexInv
<1>6. \A k \in Log : idx'[k] \in Nat
  BY <1>5, FS_CardinalityType
<1>7. \A k \in Log : idx[k] = 0 => idx'[k] = 0
  BY <1>1, <1>4, <1>6
<1>8. IndexInv'
  BY <1>1, <1>5, <1>7 DEF IndexInv
<1>9. idx' \in [Log -> Nat]
  BY <1>1, <1>3, <1>6
<1> QED BY <1>1, <1>8, <1>9

-----------------------------------------------------------------------------
(* Logs that change their state.                                           *)

\* One log gets on; what is said of the others and of the buffer remains.
LEMMA BecomeStep ==
  ASSUME Inv, NEW l \in Log, NEW state \in LogState \ {"closed"}, Become(l, state),
         logs[l] # "closed",
         l \in Known => state \in {"emptying", "fsclose"},
         state \in {"open", "emptying"} \/ idx[l] = 0,
         UNCHANGED <<buffer, idx>>, UNCHANGED disposal
  PROVE  Inv'
<1> USE DEF Inv, disposal
<1>1. logs' = [logs EXCEPT ![l] = state] /\ logs \in [Log -> LogState]
  BY DEF Become, TypeOK
<1>2. TypeOK'
  BY <1>1 DEF TypeOK
<1>3. IndexInv'
  BY <1>1 DEF IndexInv, Buffered, Known
<1>4. Known \subseteq Known'
  BY <1>1 DEF Known
<1>5. Closing \subseteq Closing'
  BY <1>1 DEF Closing, Known
<1>6. \A k \in Log : logs[k] = "closed" => logs'[k] = "closed"
  BY <1>1
<1>7. DisposeInv' /\ DisposedClosed'
  BY <1>4, <1>5, <1>6 DEF DisposeInv, DisposedClosed, TypeOK
<1> QED BY <1>2, <1>3, <1>7

\* fs.close has called back, and the log leaves the list of those to be closed.
LEMMA FsClosedStep ==
  ASSUME Inv, NEW l \in Log, FsClosed(l)
  PROVE  Inv'
<1> USE DEF Inv
<1>1. /\ logs' = [logs EXCEPT ![l] = "closed"] /\ logs \in [Log -> LogState]
      /\ logs[l] = "fsclose" /\ notDone' = notDone \ {l}
      /\ UNCHANGED <<buffer, idx, lock, phase, onAllClosed, checkDoneBusy, present>>
  BY DEF FsClosed, Become, TypeOK
<1>2. TypeOK'
  BY <1>1 DEF TypeOK, LogState
<1>3. IndexInv'
  BY <1>1 DEF IndexInv, Buffered
<1>4. /\ Known \subseteq Known'
      /\ notDone' \subseteq Closing'
      /\ \A k \in Log : logs[k] = "closed" => logs'[k] = "closed"
  BY <1>1 DEF Known, Closing, DisposeInv
<1>5. DisposeInv' /\ DisposedClosed'
  BY <1>1, <1>4 DEF DisposeInv, DisposedClosed, TypeOK
<1> QED BY <1>2, <1>3, <1>5

-----------------------------------------------------------------------------
(* disposeAllLogs.                                                         *)

\* step0, when no log is closing: those that are open are marked, and all that
\* an earlier call was to close are closed.
LEMMA Step0Step ==
  ASSUME Inv, Closing = {}, NEW d \in Call, NEW locked \in BOOLEAN,
         Step0(d, locked),
         present' \in [Call -> SUBSET Log], present'[d] \subseteq Known,
         \A e \in Call \ {d} : present'[e] = present[e],
         onAllClosed' \in Call \cup {NoCall},
         checkDoneBusy' = FALSE,
         UNCHANGED <<buffer, idx>>
  PROVE  Inv'
<1> USE DEF Inv
<1>1. notDone = {} /\ OnRecord = {l \in Log : logs[l] = "open"}
  BY DEF DisposeInv, OnRecord
<1>2. logs \in [Log -> LogState] /\ phase \in [Call -> Phase]
  BY DEF TypeOK
<1>3. /\ logs' \in [Log -> LogState]
      /\ \A l \in Log : \/ l \in OnRecord /\ logs'[l] = "emptying"
                        \/ l \notin OnRecord /\ logs'[l] = logs[l]
      /\ notDone' = OnRecord /\ lock' \in BOOLEAN
      /\ IF OnRecord = {} THEN phase' = [phase EXCEPT ![d] = "done"]
         ELSE phase' = [phase EXCEPT ![d] = "closing"]
  <2>1. CASE OnRecord = {}
    BY <1>1, <1>2, <2>1 DEF Step0, Finish
  <2>2. CASE OnRecord # {}
    BY <1>2, <2>2 DEF Step0, LogState
  <2> QED BY <2>1, <2>2
<1>4. TypeOK'
  BY <1>2, <1>3 DEF TypeOK, Phase, OnRecord, Closing
<1>5. IndexInv'
  BY <1>1, <1>3 DEF IndexInv, Buffered
<1>6. /\ Known \subseteq Known'
      /\ notDone' \subseteq Closing'
      /\ \A l \in Log : logs[l] = "closed" => logs'[l] = "closed"
      /\ \A l \in Known : l \in notDone' \/ logs'[l] = "closed"
  BY <1>1, <1>3 DEF Known, Closing
<1>7. \A e \in Call : present'[e] \subseteq Known
  BY DEF DisposeInv
<1>8. DisposeInv'
  BY <1>2, <1>3, <1>6, <1>7 DEF DisposeInv
<1>9. DisposedClosed'
  <2> SUFFICES ASSUME NEW e \in Call, phase'[e] = "done", NEW l \in present'[e]
               PROVE  logs'[l] = "closed"
    BY DEF DisposedClosed
  <2>1. l \in Known
    BY <1>7
  <2>2. CASE e = d
    BY <1>2, <1>3, <1>6, <2>1, <2>2
  <2>3. CASE e # d
    BY <1>2, <1>3, <1>6, <2>1, <2>3 DEF DisposedClosed, Known
  <2> QED BY <2>2, <2>3
<1> QED BY <1>4, <1>5, <1>8, <1>9

LEMMA DisposeStep ==
  ASSUME Inv, NEW d \in Call, Dispose(d)
  PROVE  Inv'
<1> USE DEF Inv
<1>1. /\ phase[d] = "idle"
      /\ present' = [present EXCEPT ![d] = OnRecord]
      /\ onAllClosed' = d
      /\ UNCHANGED <<buffer, idx>>
  BY DEF Dispose
<1>2. OnRecord \subseteq Known
  BY DEF OnRecord, Closing, Known
<1>3. /\ present' \in [Call -> SUBSET Log] /\ present'[d] = OnRecord
      /\ \A e \in Call \ {d} : present'[e] = present[e]
  BY <1>1, <1>2 DEF TypeOK, Known
<1>4. CASE checkDoneBusy \/ Closing # {}
  <2>1. /\ checkDoneBusy' = TRUE /\ lock' = TRUE /\ UNCHANGED <<logs, notDone>>
        /\ phase' = [c \in Call |->
             CASE c = d -> "waiting"
               [] checkDoneBusy /\ c = onAllClosed -> "overwritten"
               [] OTHER -> phase[c]]
    BY <1>4 DEF Dispose
  <2>2. \A c \in Call : /\ phase'[c] \in {"waiting", "overwritten", phase[c]}
                        /\ c = d => phase'[c] = "waiting"
    <3> SUFFICES ASSUME NEW c \in Call
                 PROVE  /\ phase'[c] \in {"waiting", "overwritten", phase[c]}
                        /\ c = d => phase'[c] = "waiting"
      OBVIOUS
    <3>1. CASE c = d
      <4>1. ~ (checkDoneBusy /\ c = onAllClosed)
        BY <1>1, <3>1 DEF DisposeInv
      <4> QED BY <2>1, <3>1, <4>1
    <3>2. CASE c # d
      BY <2>1, <3>2
    <3> QED BY <3>1, <3>2
  <2>3. TypeOK'
    BY <1>1, <1>3, <2>1, <2>2 DEF TypeOK, Phase
  <2>4. IndexInv'
    BY <1>1, <2>1 DEF IndexInv, Buffered
  <2>5. DisposeInv' /\ DisposedClosed'
    BY <1>1, <1>2, <1>3, <2>1, <2>2 DEF DisposeInv, DisposedClosed, Known, Closing
  <2> QED BY <2>3, <2>4, <2>5
<1>5. CASE ~ (checkDoneBusy \/ Closing # {})
  <2>1. Step0(d, TRUE) /\ checkDoneBusy' = FALSE
    BY <1>5 DEF Dispose, TypeOK
  <2> QED BY <1>1, <1>2, <1>3, <1>5, <2>1, Step0Step
<1> QED BY <1>4, <1>5

LEMMA CheckLogCloseStep ==
  ASSUME Inv, CheckLogClose
  PROVE  Inv'
<1>1. /\ onAllClosed \in Call /\ Closing = {} /\ checkDoneBusy' = FALSE
      /\ lock \in BOOLEAN /\ Step0(onAllClosed, lock)
      /\ UNCHANGED <<buffer, idx, onAllClosed, present>>
      /\ present \in [Call -> SUBSET Log]
      /\ present[onAllClosed] \subseteq Known
  BY DEF Inv, DisposeInv, TypeOK, CheckLogClose
<1> QED BY <1>1, Step0Step

\* All that a call found on record is closed.
LEMMA CheckDoneStep ==
  ASSUME Inv, NEW d \in Call, CheckDone(d)
  PROVE  Inv'
<1> USE DEF Inv
<1>1. /\ phase[d] = "closing" /\ notDone = {}
      /\ lock' = FALSE /\ phase' = [phase EXCEPT ![d] = "done"]
      /\ UNCHANGED <<logs, buffer, idx, onAllClosed, checkDoneBusy, notDone, present>>
  BY DEF CheckDone, Finish
<1>2. TypeOK' /\ IndexInv'
  BY <1>1 DEF TypeOK, Phase, IndexInv, Buffered
<1>3. DisposeInv' /\ DisposedClosed'
  BY <1>1 DEF DisposeInv, DisposedClosed, Known, Closing, TypeOK
<1> QED BY <1>2, <1>3

-----------------------------------------------------------------------------

LEMMA InitInv == Init => Inv
<1> SUFFICES ASSUME Init PROVE Inv
  OBVIOUS
<1>1. TypeOK
  BY EmptySeq DEF Init, TypeOK, LogState, Phase
<1>2. IndexInv
  <2>1. \A l \in Log : Buffered(l) = Positions(<< >>, l)
    BY DEF Init, Buffered, Positions
  <2> QED BY <2>1, CountNone DEF Init, IndexInv
<1>3. DisposeInv /\ DisposedClosed
  BY DEF Init, DisposeInv, DisposedClosed
<1> QED BY <1>1, <1>2, <1>3 DEF Inv

LEMMA NextInv ==
  ASSUME Inv, [Next]_vars
  PROVE  Inv'
<1> USE DEF Inv
<1>1. ASSUME NEW l \in Log,
             CreateLog(l) \/ CreateLogSync(l) \/ Opened(l) \/ CloseLog(l) \/ Emptied(l)
      PROVE  Inv'
  <2>1. logs[l] \in {"none", "opening"} => idx[l] = 0
    BY DEF IndexInv
  <2>2. CASE CreateLog(l)
    BY <2>1, <2>2, BecomeStep DEF CreateLog, Known, LogState
  <2>3. CASE CreateLogSync(l)
    BY <2>3, BecomeStep DEF CreateLogSync, Known, LogState
  <2>4. CASE Opened(l)
    BY <2>1, <2>4, BecomeStep DEF Opened, Known, LogState
  <2>5. CASE CloseLog(l)
    BY <2>5, BecomeStep DEF CloseLog, Known, LogState
  <2>6. CASE Emptied(l)
    BY <2>6, BecomeStep DEF Emptied, Known, LogState
  <2> QED BY <1>1, <2>2, <2>3, <2>4, <2>5, <2>6
<1>2. ASSUME \/ Write
             \/ \E l \in Log, day \in BOOLEAN : WriteLog(l, day)
      PROVE  Inv'
  <2>1. UNCHANGED logs /\ UNCHANGED disposal
    BY <1>2 DEF Write, WriteLog
  <2>2. buffer' \in Seq(Log) /\ idx' \in [Log -> Nat] /\ IndexInv'
    BY <1>2, WriteStep, WriteLogStep
  <2>3. TypeOK'
    BY <2>1, <2>2 DEF TypeOK, disposal
  <2>4. DisposeInv' /\ DisposedClosed'
    BY <2>1 DEF DisposeInv, DisposedClosed, Known, Closing, disposal
  <2> QED BY <2>2, <2>3, <2>4
<1>3. ASSUME NEW l \in Log, FsClosed(l)
      PROVE  Inv'
  BY <1>3, FsClosedStep
<1>4. ASSUME NEW d \in Call, Dispose(d) \/ CheckDone(d)
      PROVE  Inv'
  BY <1>4, DisposeStep, CheckDoneStep
<1>5. CASE CheckLogClose
  BY <1>5, CheckLogCloseStep
<1>6. CASE UNCHANGED vars
  BY <1>6 DEF vars, TypeOK, IndexInv, Buffered, DisposeInv, DisposedClosed, Known, Closing
<1> QED BY <1>1, <1>2, <1>3, <1>4, <1>5, <1>6 DEF Next

LEMMA Invariance == Spec => []Inv
BY InitInv, NextInv, PTL DEF Spec

-----------------------------------------------------------------------------
(* The theorems.                                                           *)

\* Every variable has its type: in particular no log has fewer messages counted
\* than none.
THEOREM TypeCorrect == Spec => []TypeOK
BY Invariance, PTL DEF Inv

\* A file is closed when all messages accepted for it have been written.
THEOREM WrittenFirst == Spec => []WrittenBeforeClose
<1>1. Inv => WrittenBeforeClose
  BY CountZero DEF Inv, IndexInv, WrittenBeforeClose, Buffered, Positions
<1> QED BY <1>1, Invariance, PTL

\* A call of disposeAllLogs that reports success has closed all that was on
\* record when it was made, however calls overlap.
THEOREM DisposedAll == Spec => []DisposedClosed
BY Invariance, PTL DEF Inv

-----------------------------------------------------------------------------
(* The event-loop queue.                                                   *)

\* The counters are numbers; all that the proofs need of the types.
Counters == runners \in Nat /\ nested \in Nat /\ busy \in BOOLEAN

AdvInv == Counters /\ NoLostWakeup /\ RunnersBounded

LEMMA ExtrasLength ==
  ASSUME NEW extra \in Extras
  PROVE  \/ extra = << >> /\ Len(extra) = 0
         \/ Reentrant /\ extra # << >> /\ Len(extra) = 1
BY DEF Extras

LEMMA WakeStep ==
  ASSUME AdvInv, Wake, UNCHANGED nested
  PROVE  AdvInv'
<1>1. CASE busy
  <2>1. busy' /\ runners' = runners /\ runners > 0
    BY <1>1 DEF Wake, AdvInv, NoLostWakeup
  <2>2. busy' \in BOOLEAN
    BY DEF Wake
  <2> QED BY <1>1, <2>1, <2>2
          DEF AdvInv, Counters, NoLostWakeup, RunnersBounded
<1>2. CASE ~ busy
  <2>1. busy' /\ runners' = runners + 1
    BY <1>2 DEF Wake
  <2>2. busy' \in BOOLEAN
    BY DEF Wake
  <2> QED BY <1>2, <2>1, <2>2
          DEF AdvInv, Counters, NoLostWakeup, RunnersBounded
<1> QED BY <1>1, <1>2

LEMMA ProcessStep ==
  ASSUME AdvInv, NEW outcome \in Outcome, NEW extra \in Extras,
         Process(outcome, extra)
  PROVE  AdvInv'
<1>1. /\ runners \in Nat /\ nested \in Nat /\ runners > 0
      /\ runners <= 1 + nested
  BY DEF AdvInv, Counters, RunnersBounded, Process
<1>2. nested' = nested + Len(extra)
      /\ runners' = runners - 1 + Len(extra)
                      + (IF GoesOn(outcome) THEN 1 ELSE 0)
  BY DEF Process
<1>3. busy' \in BOOLEAN
  BY DEF Process
<1>4. CASE GoesOn(outcome) \/ extra # << >>
  <2>1. busy'
    BY <1>4 DEF Process
  <2>2. /\ runners' \in Nat /\ nested' \in Nat
        /\ runners' > 0 /\ runners' <= 1 + nested'
    BY <1>1, <1>2, <1>4, ExtrasLength
  <2>3. NoLostWakeup'
    BY <2>2 DEF NoLostWakeup
  <2>4. RunnersBounded'
    BY <2>1, <2>2 DEF RunnersBounded
  <2> QED BY <1>3, <2>2, <2>3, <2>4 DEF AdvInv, Counters
<1>5. CASE ~ GoesOn(outcome) /\ extra = << >>
  <2>1. ~ busy' /\ paused'
    BY <1>5 DEF Process, GoesOn
  <2>2. runners' = runners - 1 /\ nested' = nested
    BY <1>1, <1>2, <1>5, ExtrasLength
  <2>3. runners' \in Nat /\ nested' \in Nat
    BY <1>1, <2>2
  <2>4. runners' <= nested' /\ runners' <= 1 + nested'
    BY <1>1, <2>2
  <2>5. NoLostWakeup'
    BY <2>1, Zenon DEF NoLostWakeup
  <2>6. RunnersBounded'
    BY <2>4, Zenon DEF RunnersBounded
  <2> QED BY <1>3, <2>3, <2>5, <2>6 DEF AdvInv, Counters
<1> QED BY <1>4, <1>5

LEMMA AdvInvariance == AdvSpec => []AdvInv
<1>1. AdvInit => AdvInv
  <2> SUFFICES ASSUME AdvInit PROVE AdvInv
    OBVIOUS
  <2>1. runners = 0 /\ nested = 0 /\ queue = << >>
    BY DEF AdvInit
  <2>2. busy = FALSE
    BY DEF AdvInit
  <2>3. Counters
    BY <2>1, <2>2, Zenon DEF Counters
  <2>4. NoLostWakeup
    BY <2>1, <2>2, Zenon DEF NoLostWakeup, IsEmpty
  <2>5. RunnersBounded
    BY <2>1, <2>2 DEF RunnersBounded
  <2> QED BY <2>3, <2>4, <2>5 DEF AdvInv
<1>2. AdvInv /\ [AdvNext]_adv_vars => AdvInv'
  <2> SUFFICES ASSUME AdvInv, [AdvNext]_adv_vars PROVE AdvInv'
    OBVIOUS
  <2>1. CASE Activate
    BY <2>1, WakeStep DEF Activate
  <2>2. ASSUME NEW x \in Item, Enqueue(x) PROVE AdvInv'
    BY <2>2, WakeStep DEF Enqueue
  <2>3. CASE Exhausted
    <3>1. /\ runners > 0 /\ ~ busy' /\ busy' \in BOOLEAN /\ IsEmpty'
          /\ runners' = runners - 1 /\ nested' = nested
      BY <2>3 DEF Exhausted, IsEmpty
    <3>2. /\ runners' \in Nat /\ nested' \in Nat /\ runners' <= nested'
      BY <3>1 DEF AdvInv, Counters, RunnersBounded
    <3> QED BY <3>1, <3>2 DEF AdvInv, Counters, NoLostWakeup, RunnersBounded
  <2>4. ASSUME NEW outcome \in Outcome, NEW extra \in Extras,
               Process(outcome, extra)
        PROVE  AdvInv'
    BY <2>4, ProcessStep
  <2>5. CASE UNCHANGED adv_vars
    BY <2>5 DEF adv_vars, AdvInv, Counters, NoLostWakeup, RunnersBounded, IsEmpty
  <2> QED BY <2>1, <2>2, <2>3, <2>4, <2>5 DEF AdvNext, ProcessEvent
<1> QED BY <1>1, <1>2, PTL DEF AdvSpec

-----------------------------------------------------------------------------
(* The array.                                                              *)

Shape == queue \in Seq(Item) /\ offset \in Nat /\ HalfLive

\* What is put after an array is put after its live part.
LEMMA LiveOfConcat ==
  ASSUME NEW q \in Seq(Item), NEW e \in Seq(Item), NEW o \in 0 .. Len(q)
  PROVE  SubSeq(q \o e, o + 1, Len(q \o e)) = SubSeq(q, o + 1, Len(q)) \o e
<1> DEFINE whole == SubSeq(q \o e, o + 1, Len(q \o e))
           part  == SubSeq(q, o + 1, Len(q))
<1>1. /\ Len(q) \in Nat /\ Len(e) \in Nat
      /\ q \o e \in Seq(Item) /\ Len(q \o e) = Len(q) + Len(e)
      /\ \A i \in 1 .. Len(q) + Len(e) :
           (q \o e)[i] = IF i <= Len(q) THEN q[i] ELSE e[i - Len(q)]
  BY ConcatProperties, LenProperties
<1>2. /\ part \in Seq(Item) /\ Len(part) = Len(q) - o
      /\ \A i \in 1 .. Len(q) - o : part[i] = q[o + i]
  <2>1. \A i \in o + 1 .. Len(q) : q[i] \in Item
    BY <1>1, ElementOfSeq
  <2> QED BY <1>1, <2>1, SubSeqProperties
<1>3. /\ whole \in Seq(Item) /\ Len(whole) = Len(q) + Len(e) - o
      /\ \A i \in 1 .. Len(q) + Len(e) - o : whole[i] = (q \o e)[o + i]
  <2>1. \A i \in o + 1 .. Len(q \o e) : (q \o e)[i] \in Item
    BY <1>1, ElementOfSeq
  <2> QED BY <1>1, <2>1, SubSeqProperties
<1>4. /\ part \o e \in Seq(Item) /\ Len(part \o e) = Len(part) + Len(e)
      /\ \A i \in 1 .. Len(part) + Len(e) :
           (part \o e)[i] = IF i <= Len(part) THEN part[i] ELSE e[i - Len(part)]
  BY <1>2, ConcatProperties
<1> HIDE DEF whole, part
<1>5. \A i \in 1 .. Len(whole) : whole[i] = (part \o e)[i]
  <2> SUFFICES ASSUME NEW i \in 1 .. Len(q) + Len(e) - o
               PROVE  whole[i] = (part \o e)[i]
    BY <1>3
  <2>1. o + i \in 1 .. Len(q) + Len(e)
    BY <1>1
  <2>2. CASE o + i <= Len(q)
    BY <1>1, <1>2, <1>3, <1>4, <2>1, <2>2
  <2>3. CASE ~ o + i <= Len(q)
    <3>1. (o + i) - Len(q) = i - Len(part)
      BY <1>1, <1>2
    <3> QED BY <1>1, <1>2, <1>3, <1>4, <2>1, <2>3, <3>1
  <2> QED BY <2>2, <2>3
<1>6. whole = part \o e
  <2>1. Len(whole) = Len(part \o e)
    BY <1>1, <1>2, <1>3, <1>4
  <2> QED BY <1>3, <1>4, <1>5, <2>1, SeqEqual
<1> QED BY <1>6 DEF whole, part

\* What dequeue takes from an array that is not empty, and what it leaves.
LEMMA Dequeued ==
  ASSUME Shape, ~ IsEmpty
  PROVE  /\ Waiting # << >>
         /\ First = Head(Waiting) /\ First \in Item
         /\ Remains \in Seq(Item) /\ Spent \in 0 .. Len(Remains)
         /\ IF Len(Remains) = 0 THEN Spent = 0 ELSE Spent * 2 < Len(Remains)
         /\ SubSeq(Remains, Spent + 1, Len(Remains)) = Tail(Waiting)
<1>1. /\ queue \in Seq(Item) /\ Len(queue) \in Nat /\ offset \in Nat
      /\ offset < Len(queue) /\ offset * 2 < Len(queue)
  BY LenProperties DEF Shape, HalfLive
<1>2. /\ offset + 1 \in 1 .. Len(queue)
      /\ Len(queue) \in offset + 1 .. Len(queue)
  BY <1>1
<1>3. /\ Head(Waiting) = queue[offset + 1]
      /\ Tail(Waiting) = SubSeq(queue, offset + 2, Len(queue))
  BY <1>1, <1>2, HeadTailOfSubSeq DEF Waiting
<1>4. First = Head(Waiting) /\ First \in Item
  BY <1>1, <1>2, <1>3, ElementOfSeq DEF First
<1>5. Waiting # << >>
  <2>1. \A i \in offset + 1 .. Len(queue) : queue[i] \in Item
    BY <1>1, ElementOfSeq
  <2>2. Len(Waiting) = Len(queue) - (offset + 1) + 1
    BY <1>1, <2>1, SubSeqProperties DEF Waiting
  <2> QED BY <1>1, <2>2, EmptySeq
<1>6. /\ SubSeq(queue, offset + 2, Len(queue)) \in Seq(Item)
      /\ Len(SubSeq(queue, offset + 2, Len(queue))) = Len(queue) - offset - 1
  <2>1. \A i \in offset + 2 .. Len(queue) : queue[i] \in Item
    BY <1>1, ElementOfSeq
  <2> QED BY <1>1, <2>1, SubSeqProperties
<1>7. CASE HalfSpent
  <2>1. Remains = SubSeq(queue, offset + 2, Len(queue)) /\ Spent = 0
    BY <1>7 DEF Remains, Spent
  <2>2. SubSeq(Remains, 1, Len(Remains)) = Remains
    BY <1>6, <2>1, SubSeqFull
  <2>3. SubSeq(Remains, Spent + 1, Len(Remains)) = Tail(Waiting)
    <3>1. Spent + 1 = 1
      BY <2>1
    <3> QED BY <1>3, <2>1, <2>2, <3>1
  <2> QED BY <1>1, <1>4, <1>5, <1>6, <2>1, <2>3
<1>8. CASE ~ HalfSpent
  <2>1. Remains = queue /\ Spent = offset + 1
    BY <1>8 DEF Remains, Spent
  <2>2. (offset + 1) * 2 < Len(queue)
    BY <1>1, <1>8 DEF HalfSpent
  <2>3. SubSeq(Remains, Spent + 1, Len(Remains)) = Tail(Waiting)
    <3>1. Spent + 1 = offset + 2
      BY <1>1, <2>1
    <3> QED BY <1>3, <2>1, <3>1
  <2> QED BY <1>1, <1>4, <1>5, <2>1, <2>2, <2>3
<1> QED BY <1>7, <1>8

LEMMA ExtraItems ==
  ASSUME NEW extra \in Extras
  PROVE  extra \in Seq(Item) /\ extra \in Promised!Came
<1>1. << >> \in Seq(Item)
  BY EmptySeq
<1>2. ASSUME NEW x \in Item PROVE <<x>> \in Seq(Item)
  OBVIOUS
<1>3. extra = << >> \/ \E x \in Item : extra = <<x>>
  BY DEF Extras, Fresh
<1> QED BY <1>1, <1>2, <1>3 DEF Promised!Came

\* One item of the queue comes to its end, the first.
LEMMA ProcessShape ==
  ASSUME Shape, NEW outcome \in Outcome, NEW extra \in Extras,
         Process(outcome, extra)
  PROVE  Shape' /\ Waiting' = Tail(Waiting) \o Comes(outcome, extra)
<1>1. ~ IsEmpty
  BY DEF Process
<1>2. Comes(outcome, extra) \in Seq(Item)
  <2>1. <<First>> \in Seq(Item)
    BY <1>1, Dequeued
  <2>2. extra \o <<First>> \in Seq(Item)
    BY <2>1, ExtraItems, ConcatProperties
  <2> QED BY <2>2, ExtraItems DEF Comes
<1> DEFINE r == Remains
           s == Spent
           e == Comes(outcome, extra)
<1>3. /\ r \in Seq(Item) /\ s \in 0 .. Len(r) /\ Len(r) \in Nat
      /\ IF Len(r) = 0 THEN s = 0 ELSE s * 2 < Len(r)
      /\ SubSeq(r, s + 1, Len(r)) = Tail(Waiting)
  BY <1>1, Dequeued, LenProperties
<1>4. e \in Seq(Item) /\ Len(e) \in Nat
  BY <1>2, LenProperties
<1>5. queue' = r \o e /\ offset' = s
  BY DEF Process
<1> HIDE DEF r, s, e
<1>6. queue' \in Seq(Item) /\ Len(queue') = Len(r) + Len(e)
  BY <1>3, <1>4, <1>5, ConcatProperties
<1>7. offset' \in Nat /\ HalfLive'
  <2>1. offset' \in Nat
    BY <1>3, <1>5
  <2>2. CASE queue' = << >>
    <3>1. Len(queue') = 0
      BY <2>2
    <3> QED BY <1>3, <1>4, <1>5, <1>6, <2>1, <2>2, <3>1 DEF HalfLive, IsEmpty
  <2>3. CASE queue' # << >>
    <3>1. Len(queue') > 0
      BY <1>6, <2>3, EmptySeq, LenProperties
    <3> QED BY <1>3, <1>4, <1>5, <1>6, <2>1, <2>3, <3>1 DEF HalfLive, IsEmpty
  <2> QED BY <2>2, <2>3
<1>8. Waiting' = Tail(Waiting) \o e
  <2>1. Waiting' = SubSeq(r \o e, s + 1, Len(r \o e))
    BY <1>5 DEF Waiting
  <2> QED BY <1>3, <1>4, <2>1, LiveOfConcat
<1> QED BY <1>6, <1>7, <1>8 DEF Shape, e

LEMMA EnqueueShape ==
  ASSUME Shape, NEW x \in Item, Enqueue(x)
  PROVE  Shape' /\ Waiting' = Waiting \o <<x>>
<1>1. <<x>> \in Seq(Item) /\ Len(<<x>>) = 1
  OBVIOUS
<1>2. /\ queue \in Seq(Item) /\ Len(queue) \in Nat /\ offset \in 0 .. Len(queue)
      /\ offset * 2 <= Len(queue)
  BY LenProperties DEF Shape, HalfLive, IsEmpty
<1>3. queue' = queue \o <<x>> /\ offset' = offset
  BY DEF Enqueue
<1>4. queue' \in Seq(Item) /\ Len(queue') = Len(queue) + 1
  BY <1>1, <1>2, <1>3, ConcatProperties
<1>5. HalfLive' /\ offset' \in Nat
  <2>1. queue' # << >>
    BY <1>2, <1>4
  <2> QED BY <1>2, <1>3, <1>4, <2>1 DEF HalfLive, IsEmpty
<1>6. Waiting' = Waiting \o <<x>>
  <2>1. Waiting' = SubSeq(queue \o <<x>>, offset + 1, Len(queue \o <<x>>))
    BY <1>3 DEF Waiting
  <2> QED BY <1>1, <1>2, <2>1, LiveOfConcat DEF Waiting
<1> QED BY <1>4, <1>5, <1>6 DEF Shape

LEMMA InitShape == AdvInit => Shape
<1> SUFFICES ASSUME AdvInit PROVE Shape
  OBVIOUS
<1>1. queue = << >> /\ offset = 0
  BY DEF AdvInit
<1>2. queue \in Seq(Item)
  BY <1>1, EmptySeq, Zenon
<1> QED BY <1>1, <1>2 DEF Shape, HalfLive, IsEmpty

LEMMA ShapeInv == AdvSpec => []Shape
<1>1. Shape /\ [AdvNext]_adv_vars => Shape'
  <2> SUFFICES ASSUME Shape, [AdvNext]_adv_vars PROVE Shape'
    OBVIOUS
  <2>1. CASE Activate \/ Exhausted \/ UNCHANGED adv_vars
    BY <2>1 DEF Activate, Exhausted, adv_vars, Shape, HalfLive, IsEmpty
  <2> QED BY <2>1, EnqueueShape, ProcessShape DEF AdvNext, ProcessEvent
<1> QED BY <1>1, InitShape, PTL DEF AdvSpec

-----------------------------------------------------------------------------

\* The types of the array and of what it remembers.  The counters alone need
\* the invariant: a runner is taken off only where there is one.
THEOREM AdvTypeCorrect == AdvSpec => []AdvTypeOK
<1> DEFINE History ==
      /\ served \in SUBSET Item /\ finished \in SUBSET Item
      /\ paused \in BOOLEAN
<1>1. AdvInit => History
  BY DEF AdvInit
<1>2. History /\ Shape /\ [AdvNext]_adv_vars => History'
  <2> SUFFICES ASSUME History, Shape, [AdvNext]_adv_vars PROVE History'
    OBVIOUS
  <2>1. CASE Activate
    BY <2>1 DEF Activate, Wake
  <2>2. ASSUME NEW x \in Item, Enqueue(x) PROVE History'
    BY <2>2 DEF Enqueue, Wake
  <2>3. CASE Exhausted
    BY <2>3 DEF Exhausted
  <2>4. ASSUME NEW outcome \in Outcome, NEW extra \in Extras,
               Process(outcome, extra)
        PROVE  History'
    <3>1. First \in Item
      BY <2>4, Dequeued DEF Process
    <3> QED BY <2>4, <3>1 DEF Process
  <2>5. CASE UNCHANGED adv_vars
    BY <2>5 DEF adv_vars
  <2> QED BY <2>1, <2>2, <2>3, <2>4, <2>5 DEF AdvNext, ProcessEvent
<1>3. AdvSpec => []History
  BY <1>1, <1>2, ShapeInv, PTL DEF AdvSpec
<1>4. AdvInv /\ Shape /\ History => AdvTypeOK
  BY DEF AdvInv, Counters, Shape, AdvTypeOK
<1> QED BY <1>3, <1>4, AdvInvariance, ShapeInv, PTL

\* More than half of a non-empty array waits: isEmpty needs no offset.
THEOREM HalfLiveAlways == AdvSpec => []HalfLive
BY ShapeInv, PTL DEF Shape

\* Items are served in the order they came, each until it is finished: the
\* array with its offset and the loop with its handler keep the promise.
THEOREM ServesInOrder == AdvSpec => ImplementsWorkQueue
<1>1. AdvInit => Promised!Init
  BY SubSeqEmpty DEF AdvInit, Promised!Init, Waiting
<1>2. Shape /\ [AdvNext]_adv_vars => [Promised!Next]_(Promised!vars)
  <2> SUFFICES ASSUME Shape, [AdvNext]_adv_vars
               PROVE  [Promised!Next]_(Promised!vars)
    OBVIOUS
  <2>1. CASE Activate \/ Exhausted \/ UNCHANGED adv_vars
    BY <2>1 DEF Activate, Exhausted, adv_vars, Promised!vars, Waiting
  <2>2. ASSUME NEW x \in Item, Enqueue(x) PROVE Promised!Next
    BY <2>2, EnqueueShape DEF Promised!Next, Promised!Arrive, Enqueue
  <2>3. ASSUME NEW outcome \in Outcome, NEW extra \in Extras,
               Process(outcome, extra)
        PROVE  Promised!Next
    <3>1. /\ Waiting # << >> /\ First = Head(Waiting)
          /\ Waiting' = Tail(Waiting) \o Comes(outcome, extra)
      BY <2>3, Dequeued, ProcessShape DEF Process
    <3>2. extra \in Promised!Came
      BY ExtraItems
    <3>3. CASE outcome = "again"
      <4>1. finished' = finished /\ Comes(outcome, extra) = extra \o <<First>>
        BY <2>3, <3>3 DEF Process, Comes
      <4>2. Promised!PutBack(extra)
        BY <3>1, <4>1 DEF Promised!PutBack
      <4> QED BY <3>2, <4>2 DEF Promised!Next
    <3>4. CASE outcome # "again"
      <4>1. finished' = finished \cup {First} /\ Comes(outcome, extra) = extra
        BY <2>3, <3>4 DEF Process, Comes
      <4>2. Promised!Finish(extra)
        BY <3>1, <4>1 DEF Promised!Finish
      <4> QED BY <3>2, <4>2 DEF Promised!Next
    <3> QED BY <3>3, <3>4
  <2> QED BY <2>1, <2>2, <2>3 DEF AdvNext, ProcessEvent
<1> QED BY <1>1, <1>2, ShapeInv, PTL DEF AdvSpec, ImplementsWorkQueue, Promised!Spec

\* An item never waits in an idle queue that was not asked to pause.
THEOREM WakeupsKept == AdvSpec => []NoLostWakeup
BY AdvInvariance, PTL DEF AdvInv

\* The handler's own calls of enqueue are all that multiplies the runners.
THEOREM RunnersCounted == AdvSpec => []RunnersBounded
BY AdvInvariance, PTL DEF AdvInv

=============================================================================
