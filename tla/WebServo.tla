------------------------------ MODULE WebServo ------------------------------
(***************************************************************************)
(* The servo of the web version: slider and text field of the stream page  *)
(* (utils.js), move.php and setAngle.py.                                   *)
(*                                                                         *)
(* The page posts an angle to move.php, which runs setAngle.py.  Requests  *)
(* run at the same time, each in a process of its own, and no lock keeps   *)
(* them apart: the programs share the pin of the servo.  A request may be  *)
(* lost; the page does not handle it.                                      *)
(*                                                                         *)
(* An operator named Bug... is a faulty form of the operator behind it; no *)
(* specification uses it.                                                  *)
(***************************************************************************)
EXTENDS Integers

CONSTANTS
    Positions,  \* positions of the slider that are tried
    Typed,      \* texts that are typed
    Moves       \* BOUND: requests to move.php in flight

Low  == -90
High == 90

\* What a text is to JavaScript and to a range input: "plain" is a whole number to
\* both, "fraction" a number between num and num + 1, "odd" a number to JavaScript
\* alone ("+45", " 45", "0x2d"), "empty" no characters or blanks, the number 0 to
\* JavaScript alone, and "none" a number to neither.
Forms == {"plain", "fraction", "odd", "empty", "none"}

Plain(n) == [form |-> "plain", num |-> n]

ASSUME PageAssumption ==
    /\ Positions \subseteq Low..High
    /\ Typed \subseteq [form : Forms, num : Int]
    /\ \A t \in Typed : t.form \in {"empty", "none"} => t.num = 0

VARIABLES
    slider, text,    \* the two inputs of the page
    editing,         \* the text was changed since it was last used or set
    move, angle,     \* every request: where it is, the angle it carries
    duty, clear,     \* its duty cycle; nobody else has used the pin meanwhile
    output, servo,   \* the pin is an output; the duty cycle the servo stands at
    asked, alone     \* the last angle posted; its request was the only one

page    == <<slider, text, editing>>
process == <<move, angle, duty, clear>>
pin     == <<output, servo>>
last    == <<asked, alone>>
vars    == <<page, process, pin, last>>

-----------------------------------------------------------------------------
Texts == Typed \cup {Plain(n) : n \in Low..High}

MoveLocs  == {"none", "posted", "setup", "drive", "hold", "cleanup"}

\* The comparisons of JavaScript take the text for a number of the scale.
InScale(t) ==
    \/ t.form \in {"plain", "odd"} /\ Low <= t.num /\ t.num <= High
    \/ t.form = "fraction" /\ Low <= t.num /\ t.num < High
    \/ t.form = "empty"

\* What a range input makes of a text: the nearest position, and its middle of what
\* is not written as a number.
Taken(t) ==
    CASE t.form = "fraction" -> {n \in {t.num, t.num + 1} : Low <= n /\ n <= High}
      [] t.form = "plain"    -> {IF t.num < Low THEN Low ELSE IF t.num > High THEN High
                                 ELSE t.num}
      [] OTHER               -> {(Low + High) \div 2}

TypeOK ==
    /\ slider \in Low..High
    /\ text \in Texts
    /\ editing \in BOOLEAN
    /\ move \in [Moves -> MoveLocs]
    /\ angle \in [Moves -> Low..High]
    /\ duty \in [Moves -> 0..12]
    /\ clear \in [Moves -> BOOLEAN]
    /\ output \in BOOLEAN
    /\ servo \in 2..12
    /\ asked \in Low..High
    /\ alone \in BOOLEAN

\* The page is loaded: the text is set from the slider.  The browser may have
\* restored the slider's position of an earlier visit.
Init ==
    /\ slider \in Positions
    /\ text = Plain(slider)
    /\ editing = FALSE
    /\ move = [m \in Moves |-> "none"]
    /\ angle = [m \in Moves |-> 0]
    /\ duty = [m \in Moves |-> 0]
    /\ clear = [m \in Moves |-> FALSE]
    /\ output = FALSE
    /\ servo = 7
    /\ asked = 0
    /\ alone = FALSE

-----------------------------------------------------------------------------
(* The page *)

\* move(): a request on its own way.
Post(a) ==
    \E m \in Moves :
      /\ move[m] = "none"
      /\ move' = [move EXCEPT ![m] = "posted"]
      /\ angle' = [angle EXCEPT ![m] = a]
      /\ asked' = a
      /\ alone' = \A n \in Moves : move[n] = "none"
      /\ UNCHANGED <<duty, clear, pin>>

\* The slider is moved, by mouse or by key.
Slide(a) ==
    /\ slider' = a
    /\ text' = Plain(a)
    /\ editing' = FALSE
    /\ UNCHANGED <<process, pin, last>>

\* The mouse lets the slider go.
MouseUp ==
    /\ Post(slider)
    /\ UNCHANGED page

Type(t) ==
    /\ text' = t
    /\ editing' = TRUE
    /\ UNCHANGED <<slider, process, pin, last>>

\* What is refused is replaced by the position of the slider.
Refuse ==
    /\ text' = Plain(slider)
    /\ UNCHANGED <<slider, process, pin, last>>

\* Faulty: the range input is left to make sense of the text.
BugEnter ==
    /\ slider' \in Taken(text)
    /\ Post(slider')
    /\ editing' = FALSE
    /\ UNCHANGED text

\* The enter key in the text field.  The text is compared by JavaScript but taken
\* by the range input, and stays as it was typed.
Enter ==
    /\ IF InScale(text)
         THEN slider' \in Taken(text) /\ Post(slider') /\ UNCHANGED text
         ELSE Refuse
    /\ editing' = FALSE

-----------------------------------------------------------------------------
(* move.php and setAngle.py *)

\* Programs that use the pin besides m.
Others(m) == {n \in Moves \ {m} : move[n] \in {"drive", "hold", "cleanup"}}

\* The request is over, and its program's memory gone.
Ends(m) ==
    /\ move' = [move EXCEPT ![m] = "none"]
    /\ angle' = [angle EXCEPT ![m] = 0]
    /\ duty' = [duty EXCEPT ![m] = 0]

\* The pin is used by m: all others are disturbed.
Disturbs(m) == [n \in Moves |-> clear[n] /\ n = m]

\* empty() holds for "0": the request does nothing.
MovePhp(m) ==
    /\ move[m] = "posted"
    /\ IF angle[m] = 0
         THEN Ends(m)
         ELSE move' = [move EXCEPT ![m] = "setup"] /\ UNCHANGED <<angle, duty>>
    /\ UNCHANGED <<page, clear, pin, last>>

MoveIsLost(m) ==
    /\ move[m] = "posted"
    /\ Ends(m)
    /\ alone' = FALSE
    /\ UNCHANGED <<page, clear, pin, asked>>

\* Faulty: the pin is not made an output.
BugSetupPin(m) ==
    /\ move[m] = "setup"
    /\ move' = [move EXCEPT ![m] = "drive"]
    /\ clear' = [n \in Moves |-> n = m /\ Others(m) = {}]
    /\ UNCHANGED <<page, angle, duty, pin, last>>

\* The pin is made an output, and the PWM begins with a duty cycle of 0.
SetupPin(m) ==
    /\ move[m] = "setup"
    /\ move' = [move EXCEPT ![m] = "drive"]
    /\ output' = TRUE
    /\ clear' = [n \in Moves |-> n = m /\ Others(m) = {}]
    /\ UNCHANGED <<page, angle, duty, servo, last>>

\* Faulty: angles are not counted from the end of the scale.
BugDrive(m) ==
    /\ move[m] = "drive"
    /\ move' = [move EXCEPT ![m] = "hold"]
    /\ duty' = [duty EXCEPT ![m] = angle[m] \div 18 + 2]
    /\ clear' = Disturbs(m)
    /\ UNCHANGED <<page, angle, pin, last>>

\* SetAngle before its sleep; the division of Python 2 drops the remainder.
Drive(m) ==
    /\ move[m] = "drive"
    /\ move' = [move EXCEPT ![m] = "hold"]
    /\ duty' = [duty EXCEPT ![m] = (angle[m] + 90) \div 18 + 2]
    /\ clear' = Disturbs(m)
    /\ UNCHANGED <<page, angle, pin, last>>

\* After a second the servo has followed the pulses, if they were the only ones;
\* else nobody knows.
HoldEnds(m) ==
    /\ move[m] = "hold"
    /\ move' = [move EXCEPT ![m] = "cleanup"]
    /\ servo' \in IF output /\ clear[m] THEN {duty[m]} ELSE {servo, duty[m]}
    /\ clear' = Disturbs(m)
    /\ UNCHANGED <<page, angle, duty, output, last>>

\* Faulty: the program ends without GPIO.cleanup.
BugCleanUp(m) ==
    /\ move[m] = "cleanup"
    /\ Ends(m)
    /\ clear' = [clear EXCEPT ![m] = FALSE]
    /\ UNCHANGED <<page, pin, last>>

\* The pin is an input again, whoever else uses it.
CleanUp(m) ==
    /\ move[m] = "cleanup"
    /\ Ends(m)
    /\ output' = FALSE
    /\ clear' = [n \in Moves |-> FALSE]
    /\ UNCHANGED <<page, servo, last>>

-----------------------------------------------------------------------------
SetAngle(m) == SetupPin(m) \/ Drive(m) \/ HoldEnds(m) \/ CleanUp(m)

Next ==
    \/ \E a \in Positions : Slide(a)
    \/ MouseUp
    \/ \E t \in Typed : Type(t)
    \/ Enter
    \/ \E m \in Moves : MovePhp(m) \/ MoveIsLost(m) \/ SetAngle(m)

Spec == Init /\ [][Next]_vars

-----------------------------------------------------------------------------
(* Properties *)

\* When the text is not being edited it is a number of the scale to JavaScript, and
\* the slider stands at it if it is a whole number, next to it if it is a fraction
\* and else in the middle: "+45" stays in the field with the slider at 0
\* (utils.js:8-34).
PageAgrees ==
    ~editing =>
      /\ text.form # "none" /\ Low <= text.num /\ text.num <= High
      /\ text.form = "plain" => slider = text.num
      /\ text.form = "fraction" => slider - text.num \in {0, 1}
      /\ text.form \in {"odd", "empty"} => slider = 0

Still == \A m \in Moves : move[m] = "none"

\* A servo at duty cycle d stands for a: it is the last of the steps of 18 degrees
\* from the end of the scale that does not go beyond a.
StandsFor(d, a) == 18 * (d - 2) <= a - Low /\ a - Low < 18 * (d - 1)

\* When the last angle posted was posted alone, was not lost and is not 0, the servo
\* stands for it in the end (utils.js:14-34, move.php:3-11, setAngle.py:12-22).
ServoFollows == Still /\ alone /\ asked # 0 => StandsFor(servo, asked)

\* The pin is left as an input, in whatever order programs end (setAngle.py:22-23).
PinIsReleased == output => \E m \in Moves : move[m] \in {"drive", "hold", "cleanup"}
=============================================================================
