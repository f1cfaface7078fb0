---------------------------- MODULE ServoMonitor ----------------------------
(***************************************************************************)
(* What the servo gets from setAngle, without threads and memory: one      *)
(* train of pulses at a time.  It begins at rest, is aimed once, comes to  *)
(* rest again, is told to end and then ends; while it has not ended there  *)
(* is no other.  A call that catches a train while it is ending may revive *)
(* it or have its own ended, and nothing is promised from then on.         *)
(***************************************************************************)
VARIABLES pulses,   \* off, on, ending, unknown
          duty      \* of the pulses that are on: zero, angle

vars == <<pulses, duty>>

Init == pulses = "off" /\ duty = "zero"

Begin == pulses = "off" /\ pulses' = "on" /\ UNCHANGED duty

Aim == pulses = "on" /\ duty = "zero" /\ duty' = "angle" /\ UNCHANGED pulses

Rest == pulses = "on" /\ duty = "angle" /\ duty' = "zero" /\ UNCHANGED pulses

Stop == pulses = "on" /\ duty = "zero" /\ pulses' = "ending" /\ UNCHANGED duty

End == pulses = "ending" /\ pulses' = "off" /\ UNCHANGED duty

Catch == pulses = "ending" /\ pulses' = "unknown" /\ UNCHANGED duty

Next == Begin \/ Aim \/ Rest \/ Stop \/ End \/ Catch

Spec == Init /\ [][Next]_vars
=============================================================================
