---------------------------- MODULE StatusWriter ----------------------------
(***************************************************************************)
(* When and how the status writer of src/src/status.rs writes its file:    *)
(* debounced after the first unwritten change, on a heartbeat, once more   *)
(* when every reporter is gone, and through a temporary file that a rename *)
(* puts in place.                                                          *)
(*                                                                         *)
(* An event is reduced to whether it changes the state (apply's result,    *)
(* see StatusState).  The two deadlines are the ticks left until them, 0   *)
(* once they have passed; the select may fire late.  Contents of the two   *)
(* files are told apart only by being whole, durable or torn.              *)
(***************************************************************************)
EXTENDS Integers

CONSTANTS
    ChanCap,                \* STATUS_CHANNEL_CAPACITY
    Debounce, Heartbeat     \* status_debounce_secs, status_heartbeat_secs, in ticks

ASSUME WriterAssumption ==
    ChanCap \in Nat \ {0} /\ Debounce \in Nat /\ Heartbeat \in Nat

VARIABLES
    queued,         \* the events in the channel
    reporting,      \* TRUE while a reporter is left
    due,            \* `pending': ticks until the write of the oldest unwritten change, or None
    beat,           \* ticks until next_heartbeat
    wpc,            \* "create", "fill", "sync", "rename": in a write; "loop": at the select;
                    \* "done": returned; "off": the power was cut
    closing,        \* TRUE if the write in progress is the last one
    tmp, file,      \* the temporary file and the status file
    dirty,          \* history: the state differs from what the last write renders
    waited,         \* history: ticks since the oldest unwritten change, up to Debounce
    age             \* history: ticks since the last write ended, up to Pause

deadlines == <<due, beat>>
disk == <<tmp, file>>
history == <<dirty, waited, age>>
vars == <<queued, reporting, deadlines, wpc, closing, disk, history>>

-----------------------------------------------------------------------------
None == -1

Least(a, b) == IF a <= b THEN a ELSE b

\* The shortest time between two writes.
Pause == Least(Debounce, Heartbeat)

Writing == {"create", "fill", "sync", "rename"}

Init ==
    /\ queued = 0 /\ reporting = TRUE
    /\ due = None /\ beat = 0
    /\ wpc = "create" /\ closing = FALSE
    /\ tmp \in {"absent", "torn", "durable"} /\ file \in {"absent", "durable"}
    /\ dirty = FALSE /\ waited = 0 /\ age = 0

-----------------------------------------------------------------------------
\* Mutated: the channel is unbounded.
ReportAlways ==
    /\ reporting /\ wpc # "off"
    /\ queued' = queued + 1
    /\ UNCHANGED <<reporting, deadlines, wpc, closing, disk, history>>

\* A reporter's try_send: on a full channel the event is dropped.
Report ==
    /\ reporting /\ wpc # "off"
    /\ queued < ChanCap
    /\ queued' = queued + 1
    /\ UNCHANGED <<reporting, deadlines, wpc, closing, disk, history>>

\* The pollers and the publisher end, and their reporters with them.
CloseReports ==
    /\ reporting /\ wpc # "off"
    /\ reporting' = FALSE
    /\ UNCHANGED <<queued, deadlines, wpc, closing, disk, history>>

\* The state is rendered and a write of it begins.
BeginWrite(last) ==
    /\ wpc' = "create" /\ closing' = last
    /\ dirty' = FALSE /\ waited' = 0
    /\ UNCHANGED age

Received(changes) ==
    /\ queued > 0
    /\ queued' = queued - 1
    /\ dirty' = (dirty \/ changes)
    /\ UNCHANGED <<reporting, beat, wpc, closing, disk, waited, age>>

\* Mutated: every further change postpones the write.
RecvPostpones(changes) ==
    /\ wpc = "loop" /\ Received(changes)
    /\ due' = IF changes THEN Debounce ELSE due

\* An event is applied; the first unwritten change sets the deadline.
Recv(changes) ==
    /\ wpc = "loop" /\ Received(changes)
    /\ due' = IF changes /\ due = None THEN Debounce ELSE due

\* Mutated: a closed channel is polled again.
RecvClosedAgain ==
    /\ wpc = "loop" /\ queued = 0 /\ ~reporting
    /\ UNCHANGED vars

\* Every reporter is gone: write a pending change, then return.
RecvClosed ==
    /\ wpc = "loop" /\ queued = 0 /\ ~reporting
    /\ IF due # None
       THEN BeginWrite(TRUE)
       ELSE wpc' = "done" /\ UNCHANGED <<closing, history>>
    /\ UNCHANGED <<queued, reporting, deadlines, disk>>

\* Mutated: the select prefers the channel to the timer.
TimerLast ==
    /\ wpc = "loop" /\ queued = 0
    /\ due = 0 \/ beat = 0
    /\ BeginWrite(FALSE)
    /\ UNCHANGED <<queued, reporting, deadlines, disk>>

\* The earlier of the two deadlines has passed.
Timer ==
    /\ wpc = "loop"
    /\ due = 0 \/ beat = 0
    /\ BeginWrite(FALSE)
    /\ UNCHANGED <<queued, reporting, deadlines, disk>>

-----------------------------------------------------------------------------
\* write_atomic: File::create truncates the temporary file, ...
Create ==
    /\ wpc = "create"
    /\ tmp' = "torn" /\ wpc' = "fill"
    /\ UNCHANGED <<queued, reporting, deadlines, closing, file, history>>

\* ... write_all fills it, ...
Fill ==
    /\ wpc = "fill"
    /\ tmp' = "whole" /\ wpc' = "sync"
    /\ UNCHANGED <<queued, reporting, deadlines, closing, file, history>>

\* Mutated: the data is not made durable before the rename.
SkipSync ==
    /\ wpc = "sync"
    /\ wpc' = "rename"
    /\ UNCHANGED <<queued, reporting, deadlines, closing, disk, history>>

\* ... sync_all makes it durable ...
Sync ==
    /\ wpc = "sync"
    /\ tmp' = "durable" /\ wpc' = "rename"
    /\ UNCHANGED <<queued, reporting, deadlines, closing, file, history>>

\* Mutated: the deadline survives the write.
WriteEndsPending ==
    /\ wpc' = IF closing THEN "done" ELSE "loop"
    /\ beat' = Heartbeat /\ age' = 0
    /\ UNCHANGED <<due, dirty, waited>>

\* The write is over, whether it succeeded or a warning was logged.  After the last
\* write the deadlines are not read again.
WriteEnds ==
    /\ wpc' = IF closing THEN "done" ELSE "loop"
    /\ due' = None /\ beat' = Heartbeat /\ age' = 0
    /\ UNCHANGED <<dirty, waited>>

\* ... and rename puts it in place.
Rename ==
    /\ wpc = "rename"
    /\ file' = tmp /\ tmp' = "absent"
    /\ WriteEnds
    /\ UNCHANGED <<queued, reporting, closing>>

\* One of the calls fails; the status file stays as it was.
WriteFails ==
    /\ wpc \in Writing
    /\ WriteEnds
    /\ UNCHANGED <<queued, reporting, closing, disk>>

Tick ==
    /\ wpc \notin {"done", "off"}
    /\ due' = IF due > 0 THEN due - 1 ELSE due
    /\ beat' = IF beat > 0 THEN beat - 1 ELSE beat
    /\ waited' = IF dirty THEN Least(waited + 1, Debounce) ELSE 0
    /\ age' = Least(age + 1, Pause)
    /\ UNCHANGED <<queued, reporting, wpc, closing, disk, dirty>>

\* After a power cut a file that was not made durable may be torn.
AfterCut(f) == IF f = "whole" THEN {"durable", "torn"} ELSE {f}

\* The power is cut.
PowerCut ==
    /\ wpc # "off"
    /\ wpc' = "off"
    /\ file' \in AfterCut(file) /\ tmp' \in AfterCut(tmp)
    /\ UNCHANGED <<queued, reporting, deadlines, closing, history>>

Ended == wpc \in {"done", "off"} /\ UNCHANGED vars

Next ==
    \/ Report \/ CloseReports
    \/ \E changes \in BOOLEAN : Recv(changes)
    \/ RecvClosed \/ Timer
    \/ Create \/ Fill \/ Sync \/ Rename \/ WriteFails
    \/ Tick \/ PowerCut \/ Ended

Spec == Init /\ [][Next]_vars

-----------------------------------------------------------------------------
\* The variables keep their types and the channel its capacity.
TypeOK ==
    /\ queued \in 0 .. ChanCap /\ reporting \in BOOLEAN
    /\ due \in None .. Debounce /\ beat \in 0 .. Heartbeat
    /\ wpc \in Writing \cup {"loop", "done", "off"} /\ closing \in BOOLEAN
    /\ tmp \in {"absent", "torn", "whole", "durable"}
    /\ file \in {"absent", "torn", "whole", "durable"}
    /\ dirty \in BOOLEAN /\ waited \in 0 .. Debounce /\ age \in 0 .. Pause

\* At the select every unwritten change has a deadline, and it is counted from the
\* oldest one: later changes neither cancel nor postpone it (run_loop).
ChangeIsDue ==
    wpc = "loop" /\ dirty => due # None /\ (due = 0 \/ due + waited <= Debounce)

\* When the writer returns, its last write rendered the final state.
FinalStateWritten == wpc = "done" => ~dirty

\* No change of the state is forgotten: it is due within the debounce of the oldest one
\* while the writer runs, and in the file's last write when the writer has returned,
\* whatever arrives during a slow write and whenever the reporters end (run_loop).
NoChangeForgotten == ChangeIsDue /\ FinalStateWritten

\* The path may be on flash: but for the last one, a write does not begin before the
\* debounce or the heartbeat has passed since the write before it has ended,
\* whatever events arrive.
WritesSpaced ==
    [][wpc = "loop" /\ wpc' = "create" /\ ~closing' => age = Pause]_vars

\* A reader never sees a partial status file, and a power cut never leaves one.
NeverTorn == file # "torn"

\* The writer takes its steps and time passes; tokio::select! polls its branches in
\* random order, so a full channel does not starve the timer for ever, nor the timer
\* the channel.
Fairness ==
    /\ WF_vars(Tick)
    /\ WF_vars(Create \/ Fill \/ Sync \/ Rename)
    /\ SF_vars(Timer) /\ SF_vars(RecvClosed) /\ SF_vars(\E changes \in BOOLEAN : Recv(changes))

FairSpec == Spec /\ Fairness

\* A change is rendered into a write sooner or later, also while the state goes on
\* changing without a pause; and the writer never stays at the select, so that the file a
\* failed write has left old, with its change no longer pending, is written again.
ChangeIsWritten ==
    /\ dirty ~> (~dirty \/ wpc = "off")
    /\ wpc = "loop" ~> wpc \in Writing \cup {"done", "off"}

\* When every reporter is gone the writer returns; run waits for it at shutdown.
WriterReturns == ~reporting ~> wpc \in {"done", "off"}
=============================================================================
