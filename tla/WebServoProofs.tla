--------------------------- MODULE WebServoProofs ---------------------------
(***************************************************************************)
(* Theorems about WebServo, for any number of requests and any texts.      *)
(*                                                                         *)
(* PinIsReleased is inductive.  ServoFollows takes the history of the one  *)
(* request that is about: as long as it is alone, nobody disturbs its      *)
(* pulses, and they are those of its angle (AloneDrives).                  *)
(***************************************************************************)
EXTENDS WebServo, TLAPS

\* The duty cycle of an angle.
DutyOf(a) == (a + 90) \div 18 + 2

\* A program that holds the servo does so at the duty cycle of its angle.
DutyFits == \A m \in Moves : move[m] \in {"hold", "cleanup"} => duty[m] = DutyOf(angle[m])

\* What a request that was posted alone has achieved at each of its steps.
AloneDrives ==
    alone = TRUE =>
      /\ \A m, n \in Moves : move[m] # "none" /\ move[n] # "none" => m = n
      /\ \A m \in Moves :
           /\ move[m] # "none" => angle[m] = asked
           /\ move[m] \in {"setup", "drive", "hold", "cleanup"} => asked # 0
           /\ move[m] \in {"drive", "hold"} => clear[m] = TRUE /\ output = TRUE
           /\ move[m] = "cleanup" => StandsFor(servo, asked)
      /\ Still /\ asked # 0 => StandsFor(servo, asked)

\* The inductive invariant.
ServoInv == TypeOK /\ DutyFits /\ PageAgrees /\ PinIsReleased /\ AloneDrives

USE PageAssumption

-----------------------------------------------------------------------------
\* The duty cycle of every angle is one the servo has a position for.
LEMMA DutyStands ==
    ASSUME NEW a \in Low..High
    PROVE  DutyOf(a) \in 2..12 /\ StandsFor(DutyOf(a), a)
BY DEF DutyOf, StandsFor, Low, High

\* The texts of the field, and what the middle of the scale is.
LEMMA TextsFit ==
    /\ Texts \subseteq [form : Forms, num : Int]
    /\ \A t \in Texts : t.form \in {"empty", "none"} => t.num = 0
    /\ \A n \in Low..High : Plain(n) \in Texts /\ Plain(n).form = "plain" /\ Plain(n).num = n
    /\ (Low + High) \div 2 = 0
BY DEF Texts, Plain, Forms, Low, High

\* What is on the scale leaves the slider at a position it has, and close to it.
LEMMA TakenFits ==
    ASSUME NEW t \in Texts, InScale(t), NEW s \in Taken(t)
    PROVE  /\ s \in Low..High
           /\ t.form # "none" /\ Low <= t.num /\ t.num <= High
           /\ t.form = "plain" => s = t.num
           /\ t.form = "fraction" => s - t.num \in {0, 1}
           /\ t.form \in {"odd", "empty"} => s = 0
<1>1. /\ t.form \in Forms /\ t.num \in Int
      /\ t.form \in {"empty", "none"} => t.num = 0
      /\ (Low + High) \div 2 = 0
  BY TextsFit
<1>2. CASE t.form = "fraction"
  BY <1>1, <1>2 DEF InScale, Taken, Low, High
<1>3. CASE t.form = "plain"
  BY <1>1, <1>3 DEF InScale, Taken, Low, High
<1>4. CASE t.form \notin {"fraction", "plain"}
  <2>1. s = 0
    BY <1>1, <1>4 DEF Taken
  <2> QED
    BY <1>1, <1>4, <2>1 DEF InScale, Low, High
<1> QED
  BY <1>2, <1>3, <1>4

LEMMA InitServo == Init => ServoInv
<1> SUFFICES ASSUME Init PROVE ServoInv
  OBVIOUS
<1>1. /\ slider \in Low..High /\ text = Plain(slider)
      /\ text \in Texts /\ text.form = "plain" /\ text.num = slider
  BY TextsFit DEF Init
<1>2. /\ move \in [Moves -> MoveLocs] /\ angle \in [Moves -> Low..High]
      /\ duty \in [Moves -> 0..12] /\ clear \in [Moves -> BOOLEAN]
  BY DEF Init, MoveLocs, Low, High
<1>3. asked \in Low..High /\ servo \in 2..12
  BY DEF Init, Low, High
<1>4. TypeOK
  BY <1>1, <1>2, <1>3 DEF Init, TypeOK
<1>5. PageAgrees
  BY <1>1 DEF PageAgrees, Low, High
<1> QED
  BY <1>1, <1>4, <1>5 DEF Init, ServoInv, DutyFits, PinIsReleased, AloneDrives

\* A request that is posted carries an angle, and is alone or not.
LEMMA PostStep ==
    ASSUME ServoInv, NEW a \in Low..High, Post(a)
    PROVE  /\ move' \in [Moves -> MoveLocs] /\ angle' \in [Moves -> Low..High]
           /\ asked' \in Low..High /\ alone' \in BOOLEAN
           /\ UNCHANGED <<duty, clear, pin>>
           /\ DutyFits' /\ PinIsReleased' /\ AloneDrives'
<1>1. PICK m \in Moves :
        /\ move[m] = "none"
        /\ move' = [move EXCEPT ![m] = "posted"]
        /\ angle' = [angle EXCEPT ![m] = a]
        /\ asked' = a
        /\ alone' = \A n \in Moves : move[n] = "none"
        /\ UNCHANGED <<duty, clear, pin>>
  BY DEF Post
<1>2. /\ move' \in [Moves -> MoveLocs] /\ angle' \in [Moves -> Low..High]
      /\ move'[m] = "posted" /\ angle'[m] = a
      /\ \A n \in Moves : n # m => move'[n] = move[n] /\ angle'[n] = angle[n]
  BY <1>1 DEF ServoInv, TypeOK, MoveLocs
<1>3. DutyFits'
  BY <1>1, <1>2 DEF ServoInv, DutyFits
<1>4. PinIsReleased'
  BY <1>1, <1>2 DEF ServoInv, PinIsReleased, pin
<1>5. AloneDrives'
  <2> SUFFICES ASSUME alone' = TRUE PROVE AloneDrives'
    BY DEF AloneDrives
  <2>1. \A n \in Moves : n # m => move'[n] = "none"
    BY <1>1, <1>2
  <2>2. ~Still'
    BY <1>2 DEF Still
  <2> QED
    BY <1>1, <1>2, <2>1, <2>2 DEF AloneDrives
<1> QED
  BY <1>1, <1>2, <1>3, <1>4, <1>5

\* A text that is set from the slider agrees with it.
LEMMA PlainAgrees ==
    ASSUME NEW n \in Low..High, slider' = n, text' = Plain(n)
    PROVE  text' \in Texts /\ PageAgrees'
<1>1. text' \in Texts /\ text'.form = "plain" /\ text'.num = n
  BY TextsFit
<1> QED
  BY <1>1 DEF PageAgrees, Low, High

LEMMA PageStep ==
    ASSUME ServoInv,
           (\E a \in Positions : Slide(a)) \/ MouseUp
             \/ (\E t \in Typed : Type(t)) \/ Enter
    PROVE  ServoInv'
<1> USE DEF page, process, pin, last
<1>1. ASSUME UNCHANGED <<process, pin, last>>
      PROVE  (DutyFits /\ PinIsReleased /\ AloneDrives)'
  BY <1>1 DEF ServoInv, DutyFits, PinIsReleased, AloneDrives, Still
<1>2. ASSUME NEW a \in Positions, Slide(a) PROVE ServoInv'
  BY <1>1, <1>2, PlainAgrees DEF Slide, ServoInv, TypeOK
<1>3. CASE MouseUp
  <2>1. slider \in Low..High
    BY DEF ServoInv, TypeOK
  <2>2. Post(slider)
    BY <1>3 DEF MouseUp
  <2> QED
    BY <1>3, <2>1, <2>2, PostStep DEF MouseUp, ServoInv, TypeOK, PageAgrees
<1>4. ASSUME NEW t \in Typed, Type(t) PROVE ServoInv'
  BY <1>1, <1>4 DEF Type, ServoInv, TypeOK, PageAgrees, Texts
<1>5. CASE Enter
  <2>1. text \in Texts /\ slider \in Low..High
    BY DEF ServoInv, TypeOK
  <2>2. CASE InScale(text)
    <3>1. PICK s \in Taken(text) : slider' = s /\ Post(s) /\ text' = text /\ editing' = FALSE
      BY <1>5, <2>2 DEF Enter
    <3>2. s \in Low..High /\ PageAgrees'
      BY <2>1, <2>2, <3>1, TakenFits DEF PageAgrees
    <3> QED
      BY <2>1, <3>1, <3>2, PostStep DEF ServoInv, TypeOK
  <2>3. CASE ~InScale(text)
    <3>1. Refuse /\ editing' = FALSE
      BY <1>5, <2>3 DEF Enter
    <3> QED
      BY <1>1, <2>1, <3>1, PlainAgrees DEF Refuse, ServoInv, TypeOK
  <2> QED
    BY <2>2, <2>3
<1> QED
  BY <1>2, <1>3, <1>4, <1>5

-----------------------------------------------------------------------------
\* What ends leaves the page alone, and the request is no more.
LEMMA EndsOne ==
    ASSUME TypeOK, NEW m \in Moves, Ends(m)
    PROVE  /\ move' \in [Moves -> MoveLocs] /\ angle' \in [Moves -> Low..High]
           /\ duty' \in [Moves -> 0..12]
           /\ move'[m] = "none"
           /\ \A n \in Moves : n # m =>
                move'[n] = move[n] /\ angle'[n] = angle[n] /\ duty'[n] = duty[n]
BY DEF TypeOK, Ends, MoveLocs, Low, High

LEMMA MovePhpStep == ASSUME ServoInv, NEW m \in Moves, MovePhp(m) PROVE ServoInv'
<1> USE DEF page, pin, last
<1>1. CASE angle[m] = 0
  <2>1. Ends(m) /\ UNCHANGED <<page, clear, pin, last>>
    BY <1>1 DEF MovePhp
  <2>2. TypeOK'
    BY <2>1, EndsOne DEF ServoInv, TypeOK
  <2>3. (DutyFits /\ PageAgrees /\ PinIsReleased)'
    BY <2>1, EndsOne DEF ServoInv, DutyFits, PageAgrees, PinIsReleased, MovePhp
  <2>4. AloneDrives'
    BY <1>1, <2>1, EndsOne DEF ServoInv, TypeOK, AloneDrives, Still, MovePhp
  <2> QED
    BY <2>2, <2>3, <2>4 DEF ServoInv
<1>2. CASE angle[m] # 0
  <2>1. move' = [move EXCEPT ![m] = "setup"] /\ UNCHANGED <<page, angle, duty, clear, pin, last>>
    BY <1>2 DEF MovePhp
  <2>2. TypeOK'
    BY <2>1 DEF ServoInv, TypeOK, MoveLocs
  <2>3. (DutyFits /\ PageAgrees /\ PinIsReleased)'
    BY <2>1 DEF ServoInv, TypeOK, DutyFits, PageAgrees, PinIsReleased, MovePhp
  <2>4. AloneDrives'
    BY <1>2, <2>1 DEF ServoInv, TypeOK, AloneDrives, Still, MovePhp
  <2> QED
    BY <2>2, <2>3, <2>4 DEF ServoInv
<1> QED
  BY <1>1, <1>2

LEMMA LostStep == ASSUME ServoInv, NEW m \in Moves, MoveIsLost(m) PROVE ServoInv'
BY EndsOne DEF MoveIsLost, page, pin, ServoInv, TypeOK, DutyFits, PageAgrees,
               PinIsReleased, AloneDrives

LEMMA SetupPinStep == ASSUME ServoInv, NEW m \in Moves, SetupPin(m) PROVE ServoInv'
<1> USE DEF page, last
<1>1. /\ move[m] = "setup"
      /\ move' = [move EXCEPT ![m] = "drive"]
      /\ output' = TRUE
      /\ clear' = [n \in Moves |-> n = m /\ Others(m) = {}]
      /\ UNCHANGED <<page, angle, duty, servo, last>>
  BY DEF SetupPin
<1>2. TypeOK'
  BY <1>1 DEF ServoInv, TypeOK, MoveLocs
<1>3. (DutyFits /\ PageAgrees /\ PinIsReleased)'
  BY <1>1 DEF ServoInv, TypeOK, DutyFits, PageAgrees, PinIsReleased
<1>4. AloneDrives'
  <2> SUFFICES ASSUME alone = TRUE PROVE AloneDrives'
    BY <1>1 DEF AloneDrives
  <2>1. \A n \in Moves : n # m => move[n] = "none"
    BY <1>1 DEF ServoInv, AloneDrives
  <2>2. Others(m) = {}
    BY <2>1 DEF Others
  <2>3. clear'[m] = TRUE
    BY <1>1, <2>2
  <2> QED
    BY <1>1, <2>1, <2>3 DEF ServoInv, TypeOK, AloneDrives, Still
<1> QED
  BY <1>2, <1>3, <1>4 DEF ServoInv

LEMMA DriveStep == ASSUME ServoInv, NEW m \in Moves, Drive(m) PROVE ServoInv'
<1> USE DEF page, pin, last
<1>1. /\ move[m] = "drive"
      /\ move' = [move EXCEPT ![m] = "hold"]
      /\ duty' = [duty EXCEPT ![m] = DutyOf(angle[m])]
      /\ clear' = [n \in Moves |-> clear[n] /\ n = m]
      /\ UNCHANGED <<page, angle, pin, last>>
  BY DEF Drive, Disturbs, DutyOf
<1>2. DutyOf(angle[m]) \in 0..12
  <2>1. angle[m] \in Low..High
    BY DEF ServoInv, TypeOK
  <2> QED
    BY <2>1, DutyStands
<1>3. TypeOK'
  BY <1>1, <1>2 DEF ServoInv, TypeOK, MoveLocs
<1>4. (DutyFits /\ PageAgrees /\ PinIsReleased)'
  BY <1>1 DEF ServoInv, TypeOK, DutyFits, PageAgrees, PinIsReleased
<1>5. AloneDrives'
  <2>1. clear'[m] = clear[m]
    BY <1>1 DEF ServoInv, TypeOK
  <2> QED
    BY <1>1, <2>1 DEF ServoInv, TypeOK, AloneDrives, Still
<1> QED
  BY <1>3, <1>4, <1>5 DEF ServoInv

LEMMA HoldEndsStep == ASSUME ServoInv, NEW m \in Moves, HoldEnds(m) PROVE ServoInv'
<1> USE DEF page, last
<1>1. /\ move[m] = "hold"
      /\ move' = [move EXCEPT ![m] = "cleanup"]
      /\ servo' \in IF output /\ clear[m] THEN {duty[m]} ELSE {servo, duty[m]}
      /\ clear' = [n \in Moves |-> clear[n] /\ n = m]
      /\ UNCHANGED <<page, angle, duty, output, last>>
  BY DEF HoldEnds, Disturbs
<1>2. angle[m] \in Low..High /\ duty[m] = DutyOf(angle[m])
  BY <1>1 DEF ServoInv, TypeOK, DutyFits
<1>3. duty[m] \in 2..12 /\ StandsFor(duty[m], angle[m])
  BY <1>2, DutyStands
<1>4. TypeOK'
  BY <1>1, <1>3 DEF ServoInv, TypeOK, MoveLocs
<1>5. (DutyFits /\ PageAgrees /\ PinIsReleased)'
  BY <1>1, <1>2 DEF ServoInv, TypeOK, DutyFits, PageAgrees, PinIsReleased
<1>6. AloneDrives'
  <2> SUFFICES ASSUME alone = TRUE PROVE AloneDrives'
    BY <1>1 DEF AloneDrives
  <2>1. angle[m] = asked /\ clear[m] = TRUE /\ output = TRUE
    BY <1>1 DEF ServoInv, AloneDrives
  <2>2. servo' = duty[m]
    BY <1>1, <2>1
  <2>3. StandsFor(servo', asked')
    BY <1>1, <1>3, <2>1, <2>2
  <2> QED
    BY <1>1, <2>3 DEF ServoInv, TypeOK, AloneDrives
<1> QED
  BY <1>4, <1>5, <1>6 DEF ServoInv

LEMMA CleanUpStep == ASSUME ServoInv, NEW m \in Moves, CleanUp(m) PROVE ServoInv'
<1> USE DEF page, last
<1>1. /\ move[m] = "cleanup"
      /\ Ends(m)
      /\ output' = FALSE
      /\ clear' = [n \in Moves |-> FALSE]
      /\ UNCHANGED <<page, servo, last>>
  BY DEF CleanUp
<1>2. TypeOK'
  BY <1>1, EndsOne DEF ServoInv, TypeOK
<1>3. (DutyFits /\ PageAgrees /\ PinIsReleased)'
  BY <1>1, EndsOne DEF ServoInv, DutyFits, PageAgrees, PinIsReleased
<1>4. AloneDrives'
  BY <1>1, EndsOne DEF ServoInv, TypeOK, AloneDrives, Still
<1> QED
  BY <1>2, <1>3, <1>4 DEF ServoInv

LEMMA ServoStep == ServoInv /\ [Next]_vars => ServoInv'
<1>1. ServoInv /\ Next => ServoInv'
  BY PageStep, MovePhpStep, LostStep, SetupPinStep, DriveStep, HoldEndsStep, CleanUpStep
     DEF Next, SetAngle
<1>2. ServoInv /\ UNCHANGED vars => ServoInv'
  BY DEF vars, page, process, pin, last, ServoInv, TypeOK, DutyFits, PageAgrees,
         PinIsReleased, AloneDrives, Still
<1> QED
  BY <1>1, <1>2

LEMMA ServoInvariant == Spec => []ServoInv
BY InitServo, ServoStep, PTL DEF Spec

-----------------------------------------------------------------------------
\* Every variable keeps its type; in particular every angle posted is one of the
\* scale, and every duty cycle one of a position.
THEOREM TypeCorrect == Spec => []TypeOK
<1>1. ServoInv => TypeOK
  BY DEF ServoInv
<1> QED
  BY ServoInvariant, <1>1, PTL

\* When the text is not being edited, the slider stands at it or next to it, or in the
\* middle if only JavaScript takes it for a number, for any texts that are typed
\* (utils.js:8-34).
THEOREM InputsAgree == Spec => []PageAgrees
<1>1. ServoInv => PageAgrees
  BY DEF ServoInv
<1> QED
  BY ServoInvariant, <1>1, PTL

\* The pin is left as an input, in whatever order any number of programs end
\* (setAngle.py:22-23).
THEOREM ThePinIsReleased == Spec => []PinIsReleased
<1>1. ServoInv => PinIsReleased
  BY DEF ServoInv
<1> QED
  BY ServoInvariant, <1>1, PTL

\* An angle that was posted alone, was not lost and is not 0 is where the servo
\* stands in the end (utils.js:14-34, move.php:3-11, setAngle.py:12-22).
THEOREM TheServoFollows == Spec => []ServoFollows
<1>1. ServoInv => ServoFollows
  BY DEF ServoInv, TypeOK, AloneDrives, ServoFollows
<1> QED
  BY ServoInvariant, <1>1, PTL
=============================================================================
