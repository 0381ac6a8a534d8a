------------------------------- MODULE MCSoak -------------------------------
(***************************************************************************)
(* The soak on small instances, and a claim of its comments that the code  *)
(* does not keep.                                                          *)
(***************************************************************************)
EXTENDS Soak

\* The three drills in the order of the shipped scenarios.
AllDrills == <<"pusher", "crash", "death">>
CrashOnly == <<"crash">>

\* cmd/zoubench/sustain.go, waitWrite: "returns the milliseconds since from,
\* which for a drill is the kill instant".
RtoFromKill == \A d \in Recorded : d.rto # None => d.killed = 0
=============================================================================
