---------------------------- MODULE MCAggregator ----------------------------
(***************************************************************************)
(* Instance of Aggregator for TLC: two devices, one with two points, and   *)
(* windows of two ticks that start on a boundary, inside a second, or late.*)
(***************************************************************************)
EXTENDS Aggregator, TLC

CONSTANTS d1, d2, p1, p2, p3

MCPoints == {p1, p2, p3}
MCDevices == {d1, d2}
MCDeviceOf == p1 :> d1 @@ p2 :> d1 @@ p3 :> d2
=============================================================================
