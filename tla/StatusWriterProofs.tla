------------------------- MODULE StatusWriterProofs -------------------------
(***************************************************************************)
(* Proofs about StatusWriter: the inductive invariant behind the write     *)
(* policy and the theorems that follow from it.                            *)
(***************************************************************************)
EXTENDS StatusWriter, TLAPS

\* The deadline of the debounce and the unwritten change come and go together, and
\* nothing is unwritten while a write is in progress.
PendingInv ==
    /\ wpc = "loop" => (dirty <=> due # None)
    /\ wpc \in Writing \cup {"done"} => ~dirty
    /\ ~dirty => waited = 0

\* What a rename puts in place is durable.
DurableInv ==
    /\ file \in {"absent", "durable"}
    /\ wpc = "rename" => tmp = "durable"

\* Until the pause since the last write is over, neither deadline has passed.
SpacedInv ==
    wpc = "loop" =>
        \/ age = Pause
        \/ beat + age >= Pause /\ (due = None \/ due + age >= Pause)

IInv == TypeOK /\ ChangeIsDue /\ PendingInv /\ DurableInv /\ SpacedInv

\* The smaller of two numbers is one of them and at most either (Duration::min).
LEMMA LeastIs ==
    ASSUME NEW a \in Nat, NEW b \in Nat
    PROVE  Least(a, b) \in Nat /\ Least(a, b) <= a /\ Least(a, b) <= b
           /\ (Least(a, b) = a \/ Least(a, b) = b)
BY DEF Least

\* The pause is at most the debounce and the heartbeat.
LEMMA PauseIs == Pause \in Nat /\ Pause <= Debounce /\ Pause <= Heartbeat
BY WriterAssumption, LeastIs DEF Pause

\* The invariant holds when the writer starts its first write.
LEMMA InitInv == Init => IInv
<1> SUFFICES ASSUME Init PROVE IInv
  OBVIOUS
<1>1. /\ queued \in 0 .. ChanCap /\ due \in None .. Debounce /\ beat \in 0 .. Heartbeat
      /\ waited \in 0 .. Debounce /\ age \in 0 .. Pause
  BY WriterAssumption, PauseIs DEF Init, None
<1>2. ~dirty /\ dirty \in BOOLEAN /\ reporting \in BOOLEAN /\ closing \in BOOLEAN
  BY Zenon DEF Init
<1>3. TypeOK
  <2>1. /\ wpc \in Writing
        /\ tmp \in {"absent", "torn", "durable"} /\ file \in {"absent", "durable"}
    BY DEF Init, Writing
  <2> QED
    BY <1>1, <1>2, <2>1 DEF TypeOK
<1>4. DurableInv
  BY DEF Init, DurableInv
<1>5. wpc = "create" /\ waited = 0
  BY DEF Init
<1> QED
  BY <1>2, <1>3, <1>4, <1>5 DEF IInv, ChangeIsDue, PendingInv, SpacedInv

\* Applying an event keeps the invariant: the first change sets the deadline.
LEMMA RecvInv ==
    ASSUME NEW changes \in BOOLEAN, IInv, Recv(changes)
    PROVE  IInv'
<1> USE WriterAssumption, PauseIs DEF Recv, Received, disk, IInv
<1>1. TypeOK'
  BY DEF TypeOK, Writing, None
<1>2. ChangeIsDue'
  BY DEF TypeOK, ChangeIsDue, PendingInv, None
<1>3. PendingInv'
  BY DEF TypeOK, PendingInv, Writing, None
<1>4. DurableInv'
  BY DEF DurableInv
<1>5. SpacedInv'
  BY DEF TypeOK, SpacedInv, None
<1> QED BY <1>1, <1>2, <1>3, <1>4, <1>5

\* The passing of time keeps the invariant.
LEMMA TickInv == ASSUME IInv, Tick PROVE IInv'
<1> USE WriterAssumption, PauseIs DEF Tick, disk, IInv, TypeOK
<1>0. /\ Least(waited + 1, Debounce) \in 0 .. Debounce
      /\ Least(waited + 1, Debounce) <= waited + 1
      /\ Least(age + 1, Pause) \in 0 .. Pause
      /\ Least(age + 1, Pause) = Pause \/ Least(age + 1, Pause) = age + 1
      /\ age = Pause => Least(age + 1, Pause) = Pause
  BY DEF Least
<1>1. TypeOK'
  BY <1>0 DEF None
<1>2. ChangeIsDue'
  BY <1>0 DEF ChangeIsDue, None
<1>3. PendingInv'
  BY DEF PendingInv, Writing, None
<1>4. DurableInv'
  BY DEF DurableInv
<1>5. SpacedInv'
  BY <1>0 DEF SpacedInv, None
<1> QED BY <1>1, <1>2, <1>3, <1>4, <1>5

\* Every step keeps the invariant.
LEMMA NextInv == IInv /\ [Next]_vars => IInv'
<1> SUFFICES ASSUME IInv, [Next]_vars PROVE IInv'
  OBVIOUS
<1> USE WriterAssumption, PauseIs
    DEF IInv, TypeOK, ChangeIsDue, PendingInv, DurableInv, SpacedInv, Writing, None,
        deadlines, disk, history
<1>1. CASE Report
  BY <1>1 DEF Report
<1>2. CASE CloseReports
  BY <1>2 DEF CloseReports
<1>3. ASSUME NEW changes \in BOOLEAN, Recv(changes) PROVE IInv'
  BY <1>3, RecvInv
<1>4. CASE RecvClosed
  <2>1. CASE due # None
    <3>1. ~dirty' /\ waited' = 0 /\ wpc' = "create" /\ closing' \in BOOLEAN /\ dirty' \in BOOLEAN
          /\ age' = age
      BY <1>4, <2>1, Zenon DEF RecvClosed, BeginWrite
    <3> QED
      BY <1>4, <3>1 DEF RecvClosed
  <2>2. CASE due = None
    BY <1>4, <2>2 DEF RecvClosed
  <2> QED BY <2>1, <2>2
<1>5. CASE Timer
  <2>1. ~dirty' /\ waited' = 0 /\ wpc' = "create" /\ closing' \in BOOLEAN /\ dirty' \in BOOLEAN
        /\ age' = age
    BY <1>5, Zenon DEF Timer, BeginWrite
  <2> QED
    BY <1>5, <2>1 DEF Timer
<1>6. CASE Create \/ Fill \/ Sync
  BY <1>6 DEF Create, Fill, Sync
<1>7. CASE Rename
  BY <1>7 DEF Rename, WriteEnds
<1>8. CASE WriteFails
  BY <1>8 DEF WriteFails, WriteEnds
<1>9. CASE Tick
  BY <1>9, TickInv
<1>10. CASE PowerCut
  BY <1>10 DEF PowerCut, AfterCut
<1>11. CASE Ended \/ UNCHANGED vars
  BY <1>11 DEF Ended, vars
<1> QED
  BY <1>1, <1>2, <1>3, <1>4, <1>5, <1>6, <1>7, <1>8, <1>9, <1>10, <1>11 DEF Next

\* The inductive invariant holds throughout every behaviour of the writer.
LEMMA InvAlways == Spec => []IInv
BY InitInv, NextInv, PTL DEF Spec

\* The variables keep their types and the channel its capacity, for every debounce,
\* heartbeat and capacity.
THEOREM TypeCorrect == Spec => []TypeOK
<1>1. IInv => TypeOK
  BY DEF IInv
<1> QED BY <1>1, InvAlways, PTL

\* Every unwritten change has a deadline that counts from the oldest one, and when the
\* writer returns its last write has rendered the final state (run_loop).
THEOREM ChangesKept == Spec => []NoChangeForgotten
<1>1. IInv => NoChangeForgotten
  BY DEF IInv, PendingInv, FinalStateWritten, NoChangeForgotten
<1> QED BY <1>1, InvAlways, PTL

\* The status file is never torn, whatever fails and whenever the power is cut
\* (write_atomic).
THEOREM Untorn == Spec => []NeverTorn
<1>1. IInv => NeverTorn
  BY DEF IInv, DurableInv, NeverTorn
<1> QED BY <1>1, InvAlways, PTL

\* But for the last one, a write begins no sooner than the pause after the write before
\* it has ended (run_loop).
THEOREM Spaced == Spec => WritesSpaced
<1>1. IInv /\ [Next]_vars => [wpc = "loop" /\ wpc' = "create" /\ ~closing' => age = Pause]_vars
  <2> SUFFICES ASSUME IInv, Next, wpc = "loop", wpc' = "create", ~closing'
               PROVE  age = Pause
    OBVIOUS
  <2>1. CASE Timer
    <3>1. due = 0 \/ beat = 0
      BY <2>1 DEF Timer
    <3> QED
      BY <3>1, PauseIs DEF IInv, TypeOK, SpacedInv, None
  <2>2. CASE RecvClosed
    BY <2>2 DEF RecvClosed, BeginWrite
  <2>3. CASE ~Timer /\ ~RecvClosed
    BY <2>3 DEF Next, Report, CloseReports, Recv, Received, Create, Fill, Sync, Rename,
                WriteFails, Writing, Tick, PowerCut, Ended, vars
  <2> QED BY <2>1, <2>2, <2>3
<1> QED BY <1>1, InvAlways, PTL DEF Spec, WritesSpaced
=============================================================================
