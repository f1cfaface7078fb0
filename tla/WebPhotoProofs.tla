--------------------------- MODULE WebPhotoProofs ---------------------------
(***************************************************************************)
(* Theorems about WebPhoto, for any number of pages and requests.          *)
(*                                                                         *)
(* MotionIsOwed is inductive.  CameraIsThere is not: it takes that a       *)
(* script that is alone has the service off from its first command to its  *)
(* second, and nobody else at the camera (AloneFits).                      *)
(***************************************************************************)
EXTENDS WebPhoto, TLAPS

\* What a script that is alone has achieved at each of its commands.
AloneFits ==
    \A p \in Photos : only[p] =>
      /\ \A q \in Photos : q # p => photo[q] = "none"
      /\ photo[p] = "still" => motion = "off"

\* The inductive invariant.
PhotoInv == TypeOK /\ MotionIsOwed /\ AloneFits

USE OwnerAssumption

LEMMA InitPhoto == Init => PhotoInv
BY DEF Init, PhotoInv, TypeOK, MotionIsOwed, AloneFits, PhotoLocs

\* One step keeps the types, and the camera with the one who uses it.
LEMMA TypeStep == TypeOK /\ [Next]_vars => TypeOK'
<1> SUFFICES ASSUME TypeOK, [Next]_vars PROVE TypeOK'
  OBVIOUS
<1> USE DEF TypeOK, PhotoLocs
<1>1. ASSUME NEW g \in Pages, ClickPhoto(g) PROVE TypeOK'
  BY <1>1 DEF ClickPhoto
<1>2. ASSUME NEW p \in Photos, StopMotion(p) PROVE TypeOK'
  BY <1>2 DEF StopMotion
<1>3. ASSUME NEW p \in Photos, StillStarts(p) PROVE TypeOK'
  BY <1>3 DEF StillStarts
<1>4. ASSUME NEW p \in Photos, StillFails(p) PROVE TypeOK'
  BY <1>4 DEF StillFails
<1>5. ASSUME NEW p \in Photos, StillEnds(p) PROVE TypeOK'
  BY <1>5 DEF StillEnds
<1>6. ASSUME NEW p \in Photos, StartMotion(p) PROVE TypeOK'
  BY <1>6 DEF StartMotion
<1>7. ASSUME NEW p \in Photos, PhotoIsLost(p) \/ AnswerIsLost(p) PROVE TypeOK'
  BY <1>7 DEF PhotoIsLost, AnswerIsLost
<1>8. ASSUME NEW p \in Photos, Refresh(p) PROVE TypeOK'
  BY <1>8 DEF Refresh
<1>9. CASE MotionReady
  BY <1>9 DEF MotionReady
<1>10. CASE UNCHANGED vars
  BY <1>10 DEF vars
<1> QED
  BY <1>1, <1>2, <1>3, <1>4, <1>5, <1>6, <1>7, <1>8, <1>9, <1>10 DEF Next, TakePhoto

\* One step leaves a stopped service to a script that will start it.
LEMMA OwedStep == TypeOK /\ MotionIsOwed /\ [Next]_vars => MotionIsOwed'
<1> SUFFICES ASSUME TypeOK, MotionIsOwed, [Next]_vars PROVE MotionIsOwed'
  OBVIOUS
<1> USE DEF TypeOK, PhotoLocs, MotionIsOwed
<1>1. ASSUME NEW g \in Pages, ClickPhoto(g) PROVE MotionIsOwed'
  BY <1>1 DEF ClickPhoto
<1>2. ASSUME NEW p \in Photos, StopMotion(p) PROVE MotionIsOwed'
  BY <1>2 DEF StopMotion
<1>3. ASSUME NEW p \in Photos, StillStarts(p) PROVE MotionIsOwed'
  BY <1>3 DEF StillStarts
<1>4. ASSUME NEW p \in Photos, StillFails(p) PROVE MotionIsOwed'
  BY <1>4 DEF StillFails
<1>5. ASSUME NEW p \in Photos, StillEnds(p) PROVE MotionIsOwed'
  BY <1>5 DEF StillEnds
<1>6. ASSUME NEW p \in Photos, StartMotion(p) PROVE MotionIsOwed'
  BY <1>6 DEF StartMotion
<1>7. ASSUME NEW p \in Photos, PhotoIsLost(p) \/ AnswerIsLost(p) PROVE MotionIsOwed'
  BY <1>7 DEF PhotoIsLost, AnswerIsLost
<1>8. ASSUME NEW p \in Photos, Refresh(p) PROVE MotionIsOwed'
  BY <1>8 DEF Refresh
<1>9. CASE MotionReady
  BY <1>9 DEF MotionReady
<1>10. CASE UNCHANGED vars
  BY <1>10 DEF vars
<1> QED
  BY <1>1, <1>2, <1>3, <1>4, <1>5, <1>6, <1>7, <1>8, <1>9, <1>10 DEF Next, TakePhoto

\* One step keeps what a script that is alone relies on.
LEMMA AloneStep == TypeOK /\ AloneFits /\ [Next]_vars => AloneFits'
<1> SUFFICES ASSUME TypeOK, AloneFits, [Next]_vars PROVE AloneFits'
  OBVIOUS
<1> USE DEF TypeOK, PhotoLocs, AloneFits
<1>1. ASSUME NEW g \in Pages, ClickPhoto(g) PROVE AloneFits'
  <2>1. PICK p \in Photos :
          /\ photo' = [photo EXCEPT ![p] = "stop"]
          /\ only' = [q \in Photos |-> q = p /\ \A r \in Photos : photo[r] = "none"]
    BY <1>1 DEF ClickPhoto
  <2>2. ASSUME NEW q \in Photos, only'[q]
        PROVE  q = p /\ \A r \in Photos : photo[r] = "none"
    BY <2>1, <2>2, Zenon
  <2>3. ASSUME NEW q \in Photos, only'[q], NEW r \in Photos, r # q
        PROVE  photo'[r] = "none"
    BY <2>1, <2>2, <2>3
  <2>4. photo'[p] = "stop"
    BY <2>1
  <2> QED
    BY <2>2, <2>3, <2>4
<1>2. ASSUME NEW p \in Photos, StopMotion(p) PROVE AloneFits'
  BY <1>2 DEF StopMotion
<1>3. ASSUME NEW p \in Photos, StillStarts(p) PROVE AloneFits'
  BY <1>3 DEF StillStarts
<1>4. ASSUME NEW p \in Photos, StillFails(p) PROVE AloneFits'
  BY <1>4 DEF StillFails
<1>5. ASSUME NEW p \in Photos, StillEnds(p) PROVE AloneFits'
  BY <1>5 DEF StillEnds
<1>6. ASSUME NEW p \in Photos, StartMotion(p) PROVE AloneFits'
  BY <1>6 DEF StartMotion
<1>7. ASSUME NEW p \in Photos, PhotoIsLost(p) \/ AnswerIsLost(p) PROVE AloneFits'
  BY <1>7 DEF PhotoIsLost, AnswerIsLost
<1>8. ASSUME NEW p \in Photos, Refresh(p) PROVE AloneFits'
  BY <1>8 DEF Refresh
<1>9. CASE MotionReady
  BY <1>9 DEF MotionReady
<1>10. CASE UNCHANGED vars
  BY <1>10 DEF vars
<1> QED
  BY <1>1, <1>2, <1>3, <1>4, <1>5, <1>6, <1>7, <1>8, <1>9, <1>10 DEF Next, TakePhoto

LEMMA PhotoInvariant == Spec => []PhotoInv
<1>1. PhotoInv /\ [Next]_vars => PhotoInv'
  BY TypeStep, OwedStep, AloneStep DEF PhotoInv
<1> QED
  BY InitPhoto, <1>1, PTL DEF Spec

\* Every variable keeps its type; the camera belongs to whoever uses it.
THEOREM TypeCorrect == Spec => []TypeOK
<1>1. PhotoInv => TypeOK
  BY DEF PhotoInv
<1> QED
  BY PhotoInvariant, <1>1, PTL

\* The motion service is off only while a script is there that will start it again,
\* for any number of scripts at the same time (takePhoto.sh:3-5).
THEOREM ServiceIsOwed == Spec => []MotionIsOwed
<1>1. PhotoInv => MotionIsOwed
  BY DEF PhotoInv
<1> QED
  BY PhotoInvariant, <1>1, PTL

\* The raspistill of a script that runs alone never finds the camera in use
\* (takePhoto.sh:3-4), for any number of pages and requests.
THEOREM AloneFindsCamera == Spec => []CameraIsThere
<1>1. PhotoInv => CameraIsThere
  BY DEF PhotoInv, TypeOK, PhotoLocs, AloneFits, CameraIsThere
<1> QED
  BY PhotoInvariant, <1>1, PTL
=============================================================================
