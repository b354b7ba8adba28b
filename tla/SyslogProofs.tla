---------------------------- MODULE SyslogProofs ----------------------------
(***************************************************************************)
(* Proofs about Syslog: for any number of threads, any back-off and any    *)
(* bound on the lag of a sample, the mutex is exclusive and the connect    *)
(* attempts keep to the schedule of the back-off.                          *)
(***************************************************************************)
EXTENDS Syslog, TLAPS

\* The back-off is that of the history, and next_attempt is the end of its pause,
\* counted from a sample that was at most MaxLag old.
ScheduleInv ==
    /\ backoff = IF fresh THEN Min ELSE Least(2 * pause, Max)
    /\ socket # "none" => fresh
    /\ fresh => pause = Min
    /\ socket = "none" =>
          /\ pause - MaxLag <= due + calm
          /\ due <= Greatest(pause - calm, -MaxLag)

IInv == TypeOK /\ ScheduleInv

\* The first attempt of Connection::new establishes the invariant.
LEMMA InitInv == Init => IInv
<1> SUFFICES ASSUME Init PROVE IInv
  OBVIOUS
<1>1. /\ backoff \in Min .. Max /\ due \in 0 .. Max /\ calm = 0 /\ pause = Min
      /\ fresh = (daemon = "up") /\ pause \in Min .. Max /\ calm \in 0 .. Longest
      /\ due \in -MaxLag .. Max
  BY SyslogAssumption DEF Init, Least, Longest
<1>2. pc \in [Threads -> {"idle"}] /\ age \in [Threads -> 0 .. MaxLag]
  BY SyslogAssumption DEF Init
<1>3. TypeOK
  BY <1>1, <1>2 DEF Init, TypeOK
<1>4. CASE daemon = "up"
  BY <1>1, <1>3, <1>4 DEF Init, IInv, ScheduleInv
<1>5. CASE daemon = "down"
  <2>1. socket = "none" /\ backoff = Least(2 * Min, Max) /\ due = Min /\ fresh = FALSE
    BY <1>1, <1>5 DEF Init
  <2>2. ScheduleInv
    BY <1>1, <2>1, SyslogAssumption DEF ScheduleInv, Greatest
  <2> QED BY <1>3, <2>2 DEF IInv
<1> QED
  BY <1>4, <1>5 DEF Init

\* The invariant says nothing of a thread's sample but that it is recent.
LEMMA LeaveKeeps ==
    ASSUME TypeOK, NEW t \in Threads, NEW place \in {"idle", "sampled", "fallback"},
           Leave(t, place)
    PROVE  /\ pc' \in [Threads -> {"idle", "sampled", "locked", "fallback"}]
           /\ \A u, v \in Threads : pc'[u] = "locked" /\ pc'[v] = "locked" => u = v
           /\ \A u \in Threads : pc'[u] = "locked" => pc[u] = "locked" /\ u # t
           /\ age' \in [Threads -> 0 .. MaxLag]
BY SyslogAssumption DEF TypeOK, Leave, Goto

\* So does a thread that goes on under the lock.
LEMMA LockKeeps ==
    ASSUME TypeOK, NEW t \in Threads, Locks(t), Goto(t, "locked")
    PROVE  /\ pc' \in [Threads -> {"idle", "sampled", "locked", "fallback"}]
           /\ \A u, v \in Threads : pc'[u] = "locked" /\ pc'[v] = "locked" => u = v
BY DEF TypeOK, Locks, Goto

\* An attempt that fails sets a schedule that the invariant describes.
LEMMA FailsKeeps ==
    ASSUME IInv, NEW t \in Threads, ConnectFails(t)
    PROVE  IInv'
<1>1. /\ age[t] \in 0 .. MaxLag /\ backoff \in Min .. Max /\ pause \in Min .. Max
      /\ socket = "none" /\ socket' = "none" /\ daemon' = "down"
      /\ due' = backoff - age[t] /\ backoff' = Least(2 * backoff, Max)
      /\ calm' = 0 /\ fresh' = FALSE
      /\ pause' = IF fresh THEN Min ELSE Least(2 * pause, Max)
  BY DEF IInv, TypeOK, ConnectFails, NotOpened, Failed, Now
<1>2. pause' = backoff
  BY <1>1 DEF IInv, ScheduleInv
<1>3. backoff' \in Min .. Max /\ due' \in -MaxLag .. Max
  BY <1>1, SyslogAssumption DEF Least
<1>4. /\ pc' \in [Threads -> {"idle", "sampled", "locked", "fallback"}]
      /\ \A u, v \in Threads : pc'[u] = "locked" /\ pc'[v] = "locked" => u = v
      /\ \A u \in Threads : pc'[u] # "locked"
      /\ age' \in [Threads -> 0 .. MaxLag]
  BY LeaveKeeps DEF ConnectFails, Locks, IInv
<1>5. calm' \in 0 .. Longest /\ pause' \in Min .. Max
  BY <1>1, <1>2, SyslogAssumption DEF Longest
<1>6. TypeOK'
  BY <1>1, <1>3, <1>4, <1>5 DEF TypeOK
<1>7. ScheduleInv'
  BY <1>1, <1>2, SyslogAssumption DEF ScheduleInv, Greatest
<1> QED BY <1>6, <1>7 DEF IInv

\* So does the loss of the socket.
LEMMA LossKeeps ==
    ASSUME IInv, NEW t \in Threads, pc[t] = "locked", SendFails(t)
    PROVE  IInv'
<1>1. /\ age[t] \in 0 .. MaxLag /\ socket' = "none" /\ backoff' = Min
      /\ due' = Min - age[t] /\ calm' = 0 /\ fresh' = TRUE /\ pause' = Min
      /\ daemon' = daemon
  BY DEF IInv, TypeOK, SendFails, Disconnect, Succeeded, Now
<1>2. /\ pc' \in [Threads -> {"idle", "sampled", "locked", "fallback"}]
      /\ \A u, v \in Threads : pc'[u] = "locked" /\ pc'[v] = "locked" => u = v
      /\ \A u \in Threads : pc'[u] # "locked"
      /\ age' \in [Threads -> 0 .. MaxLag]
  BY LeaveKeeps DEF SendFails, IInv, TypeOK
<1>3. TypeOK'
  BY <1>1, <1>2, SyslogAssumption DEF IInv, TypeOK, Longest
<1>4. ScheduleInv'
  BY <1>1, SyslogAssumption DEF ScheduleInv, Greatest
<1> QED BY <1>3, <1>4 DEF IInv

\* Time keeps the schedule: the pause is used up as the history's clock goes on.
LEMMA TickKeeps == IInv /\ Tick => IInv'
<1> SUFFICES ASSUME IInv, Tick PROVE IInv'
  OBVIOUS
<1>1. /\ due' = Greatest(due - 1, -MaxLag) /\ calm' = Least(calm + 1, Longest)
      /\ UNCHANGED <<daemon, socket, backoff, pc, pause, fresh>>
      /\ due \in -MaxLag .. Max /\ calm \in 0 .. Longest /\ pause \in Min .. Max
  BY DEF IInv, TypeOK, Tick
<1>2. due' \in -MaxLag .. Max /\ calm' \in 0 .. Longest
  BY <1>1, SyslogAssumption DEF Greatest, Least, Longest
<1>3. age' \in [Threads -> 0 .. MaxLag]
  BY SyslogAssumption DEF IInv, TypeOK, Tick
<1>4. TypeOK'
  BY <1>1, <1>2, <1>3 DEF IInv, TypeOK
<1>5. ASSUME socket = "none" PROVE pause - MaxLag <= due' + calm'
  BY <1>1, <1>5, SyslogAssumption DEF IInv, ScheduleInv, Greatest, Least, Longest
<1>6. ASSUME socket = "none" PROVE due' <= Greatest(pause - calm', -MaxLag)
  BY <1>1, <1>6, SyslogAssumption DEF IInv, ScheduleInv, Greatest, Least, Longest
<1> QED
  BY <1>1, <1>4, <1>5, <1>6 DEF IInv, ScheduleInv

\* Every other step leaves the schedule alone or ends it with a success.
LEMMA NextInv == IInv /\ [Next]_vars => IInv'
<1> SUFFICES ASSUME IInv, [Next]_vars PROVE IInv'
  OBVIOUS
<1>1. ASSUME NEW t \in Threads, Connect(t) PROVE IInv'
  BY <1>1, LockKeeps, SyslogAssumption
     DEF Connect, Opened, Succeeded, IInv, TypeOK, ScheduleInv, Longest
<1>2. ASSUME NEW t \in Threads, ConnectFails(t) PROVE IInv'
  BY <1>2, FailsKeeps
<1>3. ASSUME NEW t \in Threads, UseSocket(t) PROVE IInv'
  BY <1>3, LockKeeps DEF UseSocket, IInv, TypeOK, ScheduleInv, conn, history
<1>4. ASSUME NEW t \in Threads,
             Sample(t) \/ NotYet(t) \/ Sent(t) \/ WouldBlock(t) \/ WriteFallback(t)
      PROVE  IInv'
  <2>1. UNCHANGED <<daemon, conn, history>>
    BY <1>4 DEF Sample, NotYet, Sent, WouldBlock, WriteFallback
  <2>2. PICK place \in {"idle", "sampled", "fallback"} : Leave(t, place)
    BY <1>4 DEF Sample, NotYet, Sent, WouldBlock, WriteFallback
  <2> QED
    BY <2>1, <2>2, LeaveKeeps DEF IInv, TypeOK, ScheduleInv, conn, history
<1>5. ASSUME NEW t \in Threads, PeerGone(t) \/ TooLong(t) PROVE IInv'
  BY <1>5, LossKeeps DEF PeerGone, TooLong
<1>6. CASE Tick
  BY <1>6, TickKeeps
<1>7. CASE Stall \/ Drain \/ Stop \/ Start
  BY <1>7 DEF Stall, Drain, Stop, Start, IInv, TypeOK, ScheduleInv, conn, history
<1>8. CASE UNCHANGED vars
  BY <1>8 DEF IInv, TypeOK, ScheduleInv, vars, conn, history
<1> QED
  BY <1>1, <1>2, <1>3, <1>4, <1>5, <1>6, <1>7, <1>8 DEF Next, Emit

\* The invariant holds throughout every behaviour.
LEMMA InvAlways == Spec => []IInv
BY InitInv, NextInv, PTL DEF Spec

\* The variables keep their types and the mutex is exclusive, for any number of threads.
THEOREM TypeCorrect == Spec => []TypeOK
<1>1. IInv => TypeOK
  BY DEF IInv
<1> QED BY <1>1, InvAlways, PTL

\* Connects are attempted on the schedule of one back-off, however many threads log and
\* however old their samples of the clock are (Connection::socket and try_connect).
THEOREM OnSchedule == Spec => AttemptsOnSchedule
<1> DEFINE Step ==
      \A t \in Threads :
          /\ Connect(t) \/ ConnectFails(t) => calm + MaxLag >= pause
          /\ NotYet(t) => calm - age[t] < pause
<1>1. IInv => Step
  <2> SUFFICES ASSUME IInv, NEW t \in Threads
               PROVE  /\ Connect(t) \/ ConnectFails(t) => calm + MaxLag >= pause
                      /\ NotYet(t) => calm - age[t] < pause
    OBVIOUS
  <2>1. /\ age[t] \in 0 .. MaxLag /\ due \in -MaxLag .. Max /\ calm \in 0 .. Longest
        /\ pause \in Min .. Max
    BY DEF IInv, TypeOK
  <2>2. socket = "none" => /\ pause - MaxLag <= due + calm
                           /\ due <= Greatest(pause - calm, -MaxLag)
    BY DEF IInv, ScheduleInv
  <2>3. ASSUME Connect(t) \/ ConnectFails(t) PROVE calm + MaxLag >= pause
    <3>1. socket = "none" /\ -age[t] >= due
      BY <2>3 DEF Connect, ConnectFails, Now
    <3> QED BY <2>1, <2>2, <3>1, SyslogAssumption DEF Longest
  <2>4. ASSUME NotYet(t) PROVE calm - age[t] < pause
    <3>1. socket = "none" /\ -age[t] < due
      BY <2>4 DEF NotYet, Now
    <3> QED BY <2>1, <2>2, <3>1, SyslogAssumption DEF Longest, Greatest
  <2> QED BY <2>3, <2>4
<1>2. []IInv => [][Step]_vars
  <2>1. IInv => [Step]_vars
    BY <1>1
  <2> QED BY <2>1, PTL
<1> QED BY <1>2, InvAlways DEF AttemptsOnSchedule
=============================================================================
