--------------------------- MODULE TumblingWindow ---------------------------
(***************************************************************************)
(* What the aggregation stage promises, with no channel, timer or task in  *)
(* it: readings are taken in the order they were accepted, each one is     *)
(* counted in the window that is open when it is taken, and a window is    *)
(* sealed once, as one batch per device that has a sample.                 *)
(***************************************************************************)
EXTENDS Integers, Sequences

CONSTANTS
    Points,     \* the configured points
    Devices,    \* the configured devices
    DeviceOf,   \* the device a point belongs to
    W           \* seconds in a window

VARIABLES
    accepted,   \* the accepted readings: the point of each, in order
    taken,      \* how many of them have been counted
    current,    \* the samples of the open window, by point
    window,     \* the end of the open window
    published,  \* every batch ever sealed
    running     \* FALSE once the stage has stopped

vars == <<accepted, taken, current, window, published, running>>

Init ==
    /\ accepted = <<>>
    /\ taken = 0
    /\ current = [p \in Points |-> {}]
    /\ window \in Nat /\ window > 0 /\ window % W = 0
    /\ published = {}
    /\ running = TRUE

Accept(p) ==
    /\ running
    /\ accepted' = Append(accepted, p)
    /\ UNCHANGED <<taken, current, window, published, running>>

Count ==
    /\ running
    /\ taken < Len(accepted)
    /\ taken' = taken + 1
    /\ current' = [current EXCEPT ![accepted[taken + 1]] = @ \cup {taken + 1}]
    /\ UNCHANGED <<accepted, window, published, running>>

Sampled(d) == {p \in Points : DeviceOf[p] = d /\ current[p] # {}}

Sealed(d) ==
    [device |-> d, start |-> window - W, end |-> window,
     points |-> {[name |-> p, samples |-> current[p]] : p \in Sampled(d)}]

Seal ==
    /\ running
    /\ published' = published \cup {Sealed(d) : d \in {e \in Devices : Sampled(e) # {}}}
    /\ current' = [p \in Points |-> {}]
    /\ window' = window + W
    /\ UNCHANGED <<accepted, taken, running>>

Stop ==
    /\ running
    /\ running' = FALSE
    /\ UNCHANGED <<accepted, taken, current, window, published>>

Next ==
    \/ \E p \in Points : Accept(p)
    \/ Count
    \/ Seal
    \/ Stop

Spec == Init /\ [][Next]_vars
=============================================================================
