------------------------------- MODULE Syslog -------------------------------
(***************************************************************************)
(* The log layer of src/src/syslog.rs: threads that log at any time share  *)
(* one datagram socket to syslogd under a mutex.  While the socket cannot  *)
(* be opened, events go to the fallback writer and the connect is tried    *)
(* again, with a back-off, by later events.                                *)
(*                                                                         *)
(* An event samples the clock before it waits for the mutex, so what it    *)
(* takes for the current time may be old by the time it holds the lock.    *)
(* Time is relative: the age of each thread's sample and the distance of   *)
(* next_attempt from the current time.  Formatting is left out.            *)
(***************************************************************************)
EXTENDS Integers, FiniteSets

CONSTANTS
    Threads,
    Min, Max,       \* RETRY_MIN, RETRY_MAX
    MaxLag          \* bound of the environment: how long a thread waits for the mutex

ASSUME SyslogAssumption ==
    /\ Threads # {}
    /\ Min \in Nat \ {0} /\ Max \in Nat /\ Min <= Max
    /\ MaxLag \in Nat

VARIABLES
    daemon,     \* syslogd: "up", "stalled" (its queue is full) or "down"
    socket,     \* "none", "live", or "stale": connected to a syslogd that is gone
    backoff,    \* Connection::backoff
    due,        \* next_attempt minus the current time
    pc,         \* of each thread: "idle", "sampled", "locked" (about to send), "fallback"
    age,        \* of each thread: the current time minus its sample
    calm,       \* history: ticks since the last attempt or the loss of the socket
    pause,      \* history: how long no attempt may follow it
    fresh       \* history: no attempt has failed since the last success or loss

conn == <<socket, backoff, due>>
history == <<calm, pause, fresh>>
vars == <<daemon, conn, pc, age, history>>

-----------------------------------------------------------------------------
Least(a, b) == IF a <= b THEN a ELSE b

Greatest(a, b) == IF a >= b THEN a ELSE b

\* Beyond it neither history nor sample tells anything apart.
Longest == Max + MaxLag

Opened == socket' = "live" /\ backoff' = Min /\ UNCHANGED due

\* Mutated: the delay that was doubled is not capped.
NotOpenedUncapped(now) ==
    /\ due' = backoff + now
    /\ backoff' = IF backoff > Max THEN backoff ELSE 2 * backoff
    /\ UNCHANGED socket

\* Mutated: the delay does not grow.
NotOpenedAgain(now) == due' = Min + now /\ UNCHANGED <<backoff, socket>>

\* The next attempt has to wait, counted from the event's sample, and the one after
\* it twice as long, up to the maximum.
NotOpened(now) ==
    /\ due' = backoff + now
    /\ backoff' = Least(2 * backoff, Max)
    /\ UNCHANGED socket

\* Mutated: the dead socket is kept.
DisconnectLater(now) == backoff' = Min /\ due' = Min + now /\ UNCHANGED socket

\* The connection starts again after the shortest pause.
Disconnect(now) == socket' = "none" /\ backoff' = Min /\ due' = Min + now

Succeeded == calm' = 0 /\ pause' = Min /\ fresh' = TRUE

Failed ==
    /\ calm' = 0 /\ fresh' = FALSE
    /\ pause' = IF fresh THEN Min ELSE Least(2 * pause, Max)

\* Connection::new makes the first attempt.
Init ==
    /\ daemon \in {"up", "down"}
    /\ IF daemon = "up"
       THEN socket = "live" /\ backoff = Min /\ due = 0
       ELSE socket = "none" /\ backoff = Least(2 * Min, Max) /\ due = Min
    /\ pc = [t \in Threads |-> "idle"] /\ age = [t \in Threads |-> 0]
    /\ calm = 0 /\ pause = Min /\ fresh = (daemon = "up")

-----------------------------------------------------------------------------
Goto(t, place) == pc' = [pc EXCEPT ![t] = place]

\* The event is done with its sample.
Leave(t, place) == Goto(t, place) /\ age' = [age EXCEPT ![t] = 0]

\* An event: Instant::now() comes before the lock.
Sample(t) ==
    /\ pc[t] = "idle"
    /\ Leave(t, "sampled")
    /\ UNCHANGED <<daemon, conn, history>>

Locks(t) == pc[t] = "sampled" /\ \A u \in Threads : pc[u] # "locked"

\* The clock as the event knows it, relative to the current time.
Now(t) == -age[t]

\* Connection::socket finds the connect due, and it succeeds, ...
Connect(t) ==
    /\ Locks(t) /\ socket = "none" /\ Now(t) >= due
    /\ daemon # "down"
    /\ Opened /\ Succeeded
    /\ Goto(t, "locked")
    /\ UNCHANGED <<daemon, age>>

\* ... or fails, and the lock is released again.
ConnectFails(t) ==
    /\ Locks(t) /\ socket = "none" /\ Now(t) >= due
    /\ daemon = "down"
    /\ NotOpened(Now(t)) /\ Failed
    /\ Leave(t, "fallback")
    /\ UNCHANGED daemon

NotYet(t) ==
    /\ Locks(t) /\ socket = "none" /\ Now(t) < due
    /\ Leave(t, "fallback")
    /\ UNCHANGED <<daemon, conn, history>>

UseSocket(t) ==
    /\ Locks(t) /\ socket # "none"
    /\ Goto(t, "locked")
    /\ UNCHANGED <<daemon, conn, age, history>>

Sent(t) ==
    /\ pc[t] = "locked" /\ socket = "live" /\ daemon = "up"
    /\ Leave(t, "idle")
    /\ UNCHANGED <<daemon, conn, history>>

\* Mutated: the socket is blocking, and the send waits for room.
WaitForRoom(t) ==
    /\ pc[t] = "locked" /\ socket = "live" /\ daemon = "stalled"
    /\ UNCHANGED vars

\* syslogd takes no more datagrams: the event goes to the fallback, the socket stays.
WouldBlock(t) ==
    /\ pc[t] = "locked" /\ socket = "live" /\ daemon = "stalled"
    /\ Leave(t, "fallback")
    /\ UNCHANGED <<daemon, conn, history>>

\* Any other error: drop the socket.
SendFails(t) ==
    /\ Disconnect(Now(t)) /\ Succeeded
    /\ Leave(t, "fallback")
    /\ UNCHANGED daemon

\* The peer is gone, ...
PeerGone(t) == pc[t] = "locked" /\ socket = "stale" /\ SendFails(t)

\* ... or the datagram is too long for the socket.
TooLong(t) == pc[t] = "locked" /\ socket = "live" /\ SendFails(t)

\* The fallback is written after the lock is released.
WriteFallback(t) ==
    /\ pc[t] = "fallback"
    /\ Leave(t, "idle")
    /\ UNCHANGED <<daemon, conn, history>>

\* Time passes.  No thread that has sampled the clock is held up beyond MaxLag.
Tick ==
    /\ \A t \in Threads : age[t] < MaxLag
    /\ age' = [t \in Threads |-> IF pc[t] \in {"sampled", "locked"} THEN age[t] + 1 ELSE 0]
    /\ due' = Greatest(due - 1, -MaxLag)
    /\ calm' = Least(calm + 1, Longest)
    /\ UNCHANGED <<daemon, socket, backoff, pc, pause, fresh>>

Stall == daemon = "up" /\ daemon' = "stalled" /\ UNCHANGED <<conn, pc, age, history>>

Drain == daemon = "stalled" /\ daemon' = "up" /\ UNCHANGED <<conn, pc, age, history>>

\* syslogd ends, and a new one has a socket of its own.
Stop ==
    /\ daemon # "down" /\ daemon' = "down"
    /\ socket' = IF socket = "live" THEN "stale" ELSE socket
    /\ UNCHANGED <<backoff, due, pc, age, history>>

Start == daemon = "down" /\ daemon' = "up" /\ UNCHANGED <<conn, pc, age, history>>

Emit(t) ==
    \/ Sample(t)
    \/ Connect(t) \/ ConnectFails(t) \/ NotYet(t) \/ UseSocket(t)
    \/ Sent(t) \/ WouldBlock(t) \/ PeerGone(t) \/ TooLong(t)
    \/ WriteFallback(t)

Next == (\E t \in Threads : Emit(t)) \/ Tick \/ Stall \/ Drain \/ Stop \/ Start

Spec == Init /\ [][Next]_vars

-----------------------------------------------------------------------------
\* The variables keep their types; at most one thread is inside the lock, and the
\* socket is live only as long as the syslogd it is connected to.
TypeOK ==
    /\ daemon \in {"up", "stalled", "down"} /\ socket \in {"none", "live", "stale"}
    /\ socket = "live" => daemon # "down"
    /\ backoff \in Min .. Max /\ due \in -MaxLag .. Max
    /\ pc \in [Threads -> {"idle", "sampled", "locked", "fallback"}]
    /\ \A t, u \in Threads : pc[t] = "locked" /\ pc[u] = "locked" => t = u
    /\ \A t \in Threads : pc[t] = "locked" => socket # "none"
    /\ age \in [Threads -> 0 .. MaxLag]
    /\ calm \in 0 .. Longest /\ pause \in Min .. Max /\ fresh \in BOOLEAN

\* However many threads log while syslogd is away, and however old their samples are
\* when they get the lock, connects are attempted on the schedule of one back-off: an
\* attempt never comes sooner than the pause after the last one, but for the lag, and
\* an event sampled after the pause does not skip it.  The pause doubles with each
\* failure up to the maximum and starts again after a success or a loss (Connection).
AttemptsOnSchedule ==
    [][\A t \in Threads :
          /\ Connect(t) \/ ConnectFails(t) => calm + MaxLag >= pause
          /\ NotYet(t) => calm - age[t] < pause]_vars

\* A thread inside emit takes its steps, the mutex is not withheld from a thread for
\* ever, and time passes.
Fairness ==
    /\ WF_vars(Tick)
    /\ \A t \in Threads :
          /\ SF_vars(Connect(t) \/ ConnectFails(t) \/ NotYet(t) \/ UseSocket(t))
          /\ WF_vars(Sent(t) \/ WouldBlock(t) \/ PeerGone(t))
          /\ WF_vars(WriteFallback(t))

FairSpec == Spec /\ Fairness

\* A stalled, dead or restarting syslogd never blocks a logging thread (the comment
\* at syslog.rs:125-126).
EmitReturns == \A t \in Threads : pc[t] # "idle" ~> pc[t] = "idle"

\* When syslogd is there to stay and the gateway goes on logging, the events reach it
\* again and go on reaching it, whatever the back-off and the socket were like.
Recovers ==
    /\ <>[](daemon = "up")
    /\ <>[][\A t \in Threads : ~TooLong(t)]_vars
    /\ []<>(\E t \in Threads : pc[t] # "idle")
    => <>[](socket = "live")
=============================================================================
