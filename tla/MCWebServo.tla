----------------------------- MODULE MCWebServo -----------------------------
(* WebServo at the ends and the middle of the scale and around them. *)
EXTENDS WebServo

MCPositions == {-90, -73, -1, 0, 89}

MCTyped ==
    {Plain(n) : n \in {-91, 90, 91}}
      \cup {[form |-> "fraction", num |-> n] : n \in {-91, 89, 90}}
      \cup {[form |-> "odd", num |-> n] : n \in {-91, 45, 91}}
      \cup {[form |-> f, num |-> 0] : f \in {"empty", "none"}}
=============================================================================
