----------------------------- MODULE LogManager -----------------------------
(***************************************************************************)
(* core/log_manager.js: log files, the buffer of messages to write, and    *)
(* the closing of one log or of all.  The callbacks of fs.open and         *)
(* fs.close, a turn of each AdvQueue, the 100 ms timer and each call from  *)
(* outside are one action each; a turn that only puts its item back        *)
(* changes nothing and is left out.  The write itself is synchronous, and  *)
(* an exception in it ends the process.  An operator that ends in          *)
(* "Variant" is a faulty version of the definition after it, kept to show  *)
(* that a property can fail.                                               *)
(***************************************************************************)
EXTENDS Naturals, Sequences

CONSTANTS
  Log,         \* log files; an id is created with each and never reused
  Call,        \* calls of disposeAllLogs
  NoCall,      \* l_onAllClosed before the first call
  MaxMessages  \* bound: messages buffered at a time

ASSUME LogAssumption ==
  /\ NoCall \notin Call
  /\ MaxMessages \in Nat

VARIABLES
  logs,          \* how far each log is; l_logs holds those OnRecord
  buffer,        \* l_logBuffer: for each message to write, its log
  idx,           \* l_logBufferIdxByID: number of entries of each log
  lock,          \* l_logLock
  phase,         \* how far each call of disposeAllLogs is
  onAllClosed,   \* l_onAllClosed: the call it belongs to
  checkDoneBusy, \* l_checkDoneBusy: l_checkLogClose is to be tried again
  notDone,       \* the logs with a FALSE in l_doneStatus
  present        \* for each call, the logs on record when it was made
                 \* (history)

vars == <<logs, buffer, idx, lock, phase, onAllClosed, checkDoneBusy, notDone,
          present>>
disposal == <<lock, phase, onAllClosed, checkDoneBusy, notDone, present>>

\* "emptying": closing, until its messages are written; "fsclose": closing,
\* with fs.close under way.
LogState == {"none", "opening", "open", "emptying", "fsclose", "closed"}
Closing == {l \in Log : logs[l] \in {"emptying", "fsclose"}}
OnRecord == {l \in Log : logs[l] = "open"} \cup Closing

\* "overwritten": a later call has taken l_onAllClosed before it was called.
Phase == {"idle", "waiting", "closing", "done", "overwritten"}

TypeOK ==
  /\ logs \in [Log -> LogState]
  /\ buffer \in Seq(Log)
  /\ idx \in [Log -> Nat]
  /\ lock \in BOOLEAN
  /\ phase \in [Call -> Phase]
  /\ onAllClosed \in Call \cup {NoCall}
  /\ checkDoneBusy \in BOOLEAN
  /\ notDone \in SUBSET Log
  /\ present \in [Call -> SUBSET Log]

Init ==
  /\ logs = [l \in Log |-> "none"]
  /\ buffer = << >>
  /\ idx = [l \in Log |-> 0]
  /\ lock = FALSE
  /\ phase = [d \in Call |-> "idle"]
  /\ onAllClosed = NoCall
  /\ checkDoneBusy = FALSE
  /\ notDone = {}
  /\ present = [d \in Call |-> {}]

-----------------------------------------------------------------------------
(* Opening and writing.                                                    *)

Become(l, state) == logs' = [logs EXCEPT ![l] = state]

\* createLog: the lock is looked at before the file is opened only.
CreateLog(l) ==
  /\ ~ lock
  /\ logs[l] = "none"
  /\ Become(l, "opening")
  /\ UNCHANGED <<buffer, idx>> /\ UNCHANGED disposal

CreateLogSync(l) ==
  /\ ~ lock
  /\ logs[l] = "none"
  /\ Become(l, "open")
  /\ UNCHANGED <<buffer, idx>> /\ UNCHANGED disposal

\* The callback of fs.open, with success or not.
Opened(l) ==
  /\ logs[l] = "opening"
  /\ Become(l, "open") \/ Become(l, "none")
  /\ UNCHANGED <<buffer, idx>> /\ UNCHANGED disposal

\* log(msg, log_id): the message, after a line for the day if the day has
\* changed, is buffered.
Message(l, day) == IF day THEN <<l, l>> ELSE <<l>>
WriteLog(l, day) ==
  /\ ~ lock
  /\ logs[l] = "open"
  /\ Len(buffer \o Message(l, day)) <= MaxMessages
  /\ buffer' = buffer \o Message(l, day)
  /\ idx' = [idx EXCEPT ![l] = @ + Len(Message(l, day))]
  /\ UNCHANGED logs /\ UNCHANGED disposal

\* A turn of l_logBuffer: the first message is written, or dropped when its
\* log is no longer on record.
Write ==
  /\ buffer # << >>
  /\ buffer' = Tail(buffer)
  /\ idx' = IF Head(buffer) \in OnRecord
              THEN [idx EXCEPT ![Head(buffer)] = @ - 1] ELSE idx
  /\ UNCHANGED logs /\ UNCHANGED disposal

-----------------------------------------------------------------------------
(* Closing.                                                                *)

\* closeLog: a log that is open is marked and waits in l_checkEmptyPool.
CloseLog(l) ==
  /\ logs[l] = "open"
  /\ Become(l, "emptying")
  /\ UNCHANGED <<buffer, idx>> /\ UNCHANGED disposal

\* A turn of l_checkEmptyPool: nothing is left to write, close the file.
EmptiedVariant(l) ==
  /\ logs[l] = "emptying"
  /\ idx[l] <= 1
  /\ Become(l, "fsclose")
  /\ UNCHANGED <<buffer, idx>> /\ UNCHANGED disposal
Emptied(l) ==
  /\ logs[l] = "emptying"
  /\ idx[l] = 0
  /\ Become(l, "fsclose")
  /\ UNCHANGED <<buffer, idx>> /\ UNCHANGED disposal

\* The callback of fs.close.
FsClosedVariant(l) ==
  /\ logs[l] = "fsclose"
  /\ Become(l, "closed")
  /\ UNCHANGED <<buffer, idx>> /\ UNCHANGED disposal
FsClosed(l) ==
  /\ logs[l] = "fsclose"
  /\ Become(l, "closed")
  /\ notDone' = notDone \ {l}
  /\ UNCHANGED <<buffer, idx, lock, phase, onAllClosed, checkDoneBusy, present>>

-----------------------------------------------------------------------------
(* disposeAllLogs.  AllClosed and step0 run in one callback.               *)

\* step1 of call d.
Finish(d) ==
  /\ lock' = FALSE
  /\ phase' = [phase EXCEPT ![d] = "done"]

\* step0 of call d: close what is on record, which is open by then.  The lock
\* is as before, unless there is nothing to close.
Step0Variant(d, locked) ==
  /\ Finish(d)
  /\ logs' = [l \in Log |-> IF l \in OnRecord THEN "emptying" ELSE logs[l]]
  /\ notDone' = OnRecord
Step0(d, locked) ==
  IF OnRecord = {}
    THEN Finish(d) /\ UNCHANGED <<logs, notDone>>
    ELSE /\ lock' = locked
         /\ phase' = [phase EXCEPT ![d] = "closing"]
         /\ logs' = [l \in Log |->
                       IF l \in OnRecord THEN "emptying" ELSE logs[l]]
         /\ notDone' = OnRecord

\* disposeAllLogs(onSuccess), waitClosing: step0 at once, unless some log is
\* closing; a call that waits already is overwritten.
Dispose(d) ==
  /\ phase[d] = "idle"
  /\ present' = [present EXCEPT ![d] = OnRecord]
  /\ onAllClosed' = d
  /\ IF checkDoneBusy \/ Closing # {}
       THEN /\ checkDoneBusy' = TRUE
            /\ lock' = TRUE
            /\ phase' = [c \in Call |->
                 CASE c = d -> "waiting"
                   [] checkDoneBusy /\ c = onAllClosed -> "overwritten"
                   [] OTHER -> phase[c]]
            /\ UNCHANGED <<logs, notDone>>
       ELSE Step0(d, TRUE) /\ UNCHANGED checkDoneBusy
  /\ UNCHANGED <<buffer, idx>>

\* l_checkLogClose, tried again after 100 ms.
CheckLogClose ==
  /\ checkDoneBusy
  /\ Closing = {}
  /\ checkDoneBusy' = FALSE
  /\ Step0(onAllClosed, lock)
  /\ UNCHANGED <<buffer, idx, onAllClosed, present>>

\* l_checkDone of call d: all logs of l_doneStatus are closed.
CheckDone(d) ==
  /\ phase[d] = "closing"
  /\ notDone = {}
  /\ Finish(d)
  /\ UNCHANGED <<logs, buffer, idx, onAllClosed, checkDoneBusy, notDone,
                 present>>

-----------------------------------------------------------------------------

Next ==
  \/ \E l \in Log : CreateLog(l) \/ CreateLogSync(l) \/ Opened(l)
  \/ \E l \in Log, day \in BOOLEAN : WriteLog(l, day)
  \/ Write
  \/ \E l \in Log : CloseLog(l) \/ Emptied(l) \/ FsClosed(l)
  \/ \E d \in Call : Dispose(d) \/ CheckDone(d)
  \/ CheckLogClose

Spec == Init /\ [][Next]_vars

\* The AdvQueues take their turns, the timer goes off, the file system
\* answers.  Nothing is assumed of the callers.
Fairness ==
  /\ WF_vars(Write) /\ WF_vars(CheckLogClose)
  /\ \A l \in Log : WF_vars(Opened(l)) /\ WF_vars(Emptied(l))
                    /\ WF_vars(FsClosed(l))
  /\ \A d \in Call : WF_vars(CheckDone(d))
FairSpec == Spec /\ Fairness

-----------------------------------------------------------------------------
(* Properties.                                                             *)

Buffered(l) == {i \in 1 .. Len(buffer) : buffer[i] = l}

\* Every message that was accepted is written before its file is closed
\* (log_manager.js l_log, l_logmsg and l_closeLog).
WrittenBeforeClose ==
  \A l \in Log : logs[l] \in {"fsclose", "closed"} => Buffered(l) = {}

\* A call of disposeAllLogs that reports success has closed every log that
\* was on record when it was made, also those that were closing already.
DisposedClosed ==
  \A d \in Call : phase[d] = "done"
    => \A l \in present[d] : logs[l] = "closed"

\* A call of disposeAllLogs comes to its end, unless a later call takes its
\* place while it waits for logs that were closing before it.
DisposeEnds ==
  \A d \in Call : phase[d] \in {"waiting", "closing"}
    ~> phase[d] \in {"done", "overwritten"}

=============================================================================
