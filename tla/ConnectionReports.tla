-------------------------- MODULE ConnectionReports --------------------------
(***************************************************************************)
(* The reporting protocol of one connection, as the status writer may rely *)
(* on it: devices are reported only while the connection is up, round by   *)
(* round in configuration order and each once in a round, and a loss of    *)
(* the connection is announced -- unless the connection's task panics or   *)
(* is cancelled, which ends it without a word.                             *)
(***************************************************************************)
EXTENDS Integers

CONSTANT N       \* the devices of the connection are 1 .. N

VARIABLES
    link,        \* "down" or "up"
    next,        \* the device the next device report is about
    event        \* the last event reported

vars == <<link, next, event>>

NoEvent == [kind |-> "none", device |-> 0]
Up == [kind |-> "ConnectionUp", device |-> 0]
Down == [kind |-> "ConnectionDown", device |-> 0]
DeviceEvents(d) == {[kind |-> k, device |-> d] : k \in {"DeviceOk", "DeviceProblem"}}

Init == link = "down" /\ next = 1 /\ event = NoEvent

ReportUp == link = "down" /\ link' = "up" /\ next' = 1 /\ event' = Up

ReportDown == link' = "down" /\ next' = 1 /\ event' = Down

ReportDevice ==
    /\ link = "up"
    /\ event' \in DeviceEvents(next)
    /\ next' = IF next = N THEN 1 ELSE next + 1
    /\ UNCHANGED link

EndSilently == link = "up" /\ link' = "down" /\ next' = 1 /\ UNCHANGED event

Next == ReportUp \/ ReportDown \/ ReportDevice \/ EndSilently

Spec == Init /\ [][Next]_vars
=============================================================================
