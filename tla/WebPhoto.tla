------------------------------ MODULE WebPhoto ------------------------------
(***************************************************************************)
(* Pictures of the web version: the button of the stream page (utils.js),  *)
(* photo.php, takePhoto.sh and the motion service, whose stream the pages  *)
(* show.                                                                   *)
(*                                                                         *)
(* Each request runs takePhoto.sh in a process of its own, and no lock     *)
(* keeps the scripts apart.  The service and raspistill share the camera,  *)
(* which has one owner.  A request may be lost and so may its answer; the  *)
(* page handles neither.                                                   *)
(*                                                                         *)
(* An operator named Bug... is a faulty form of the operator behind it; no *)
(* specification uses it.                                                  *)
(***************************************************************************)

CONSTANTS
    Pages,   \* browsers that show the page
    Photos,  \* BOUND: requests to photo.php in flight
    Motion,  \* the motion service, as owner of the camera
    Nobody   \* no owner

ASSUME OwnerAssumption == Motion \notin Photos /\ Nobody \notin Photos \cup {Motion}

VARIABLES
    photo, from,     \* every request: where it is, the page it came from
    only,            \* its script was the only one
    motion, camera,  \* the motion service; the owner of the camera
    stream           \* the pages that show the stream

vars == <<photo, from, only, motion, camera, stream>>

PhotoLocs == {"none", "stop", "still", "capture", "start", "reply"}

TypeOK ==
    /\ photo \in [Photos -> PhotoLocs]
    /\ from \in [Photos -> Pages]
    /\ only \in [Photos -> BOOLEAN]
    /\ motion \in {"off", "starting", "on"}
    /\ camera \in Photos \cup {Motion, Nobody}
    /\ camera = Motion <=> motion = "on"
    /\ \A p \in Photos : camera = p <=> photo[p] = "capture"
    /\ stream \subseteq Pages

Init ==
    /\ photo = [p \in Photos |-> "none"]
    /\ from \in [Photos -> Pages]
    /\ only = [p \in Photos |-> FALSE]
    /\ motion = "on"
    /\ camera = Motion
    /\ stream = Pages

-----------------------------------------------------------------------------
\* The button is clicked on page g.
ClickPhoto(g) ==
    \E p \in Photos :
      /\ photo[p] = "none"
      /\ photo' = [photo EXCEPT ![p] = "stop"]
      /\ from' = [from EXCEPT ![p] = g]
      /\ only' = [q \in Photos |-> q = p /\ \A r \in Photos : photo[r] = "none"]
      /\ UNCHANGED <<motion, camera, stream>>

-----------------------------------------------------------------------------
(* photo.php and takePhoto.sh *)

PhotoIsLost(p) ==
    /\ photo[p] = "stop"
    /\ photo' = [photo EXCEPT ![p] = "none"]
    /\ UNCHANGED <<from, only, motion, camera, stream>>

\* Faulty: the service keeps running.
BugStopMotion(p) ==
    /\ photo[p] = "stop"
    /\ photo' = [photo EXCEPT ![p] = "still"]
    /\ UNCHANGED <<from, only, motion, camera, stream>>

\* service motion stop: every stream ends.
StopMotion(p) ==
    /\ photo[p] = "stop"
    /\ photo' = [photo EXCEPT ![p] = "still"]
    /\ motion' = "off"
    /\ camera' = IF camera = Motion THEN Nobody ELSE camera
    /\ stream' = {}
    /\ UNCHANGED <<from, only>>

\* raspistill gets the camera ...
StillStarts(p) ==
    /\ photo[p] = "still"
    /\ camera = Nobody
    /\ camera' = p
    /\ photo' = [photo EXCEPT ![p] = "capture"]
    /\ UNCHANGED <<from, only, motion, stream>>

\* ... or fails: the camera is in use, or missing, or the picture cannot be written.
\* The script goes on.
StillFails(p) ==
    /\ photo[p] = "still"
    /\ photo' = [photo EXCEPT ![p] = "start"]
    /\ UNCHANGED <<from, only, motion, camera, stream>>

\* raspistill ends, with a picture or without one: nobody asks.
StillEnds(p) ==
    /\ photo[p] = "capture"
    /\ camera' = Nobody
    /\ photo' = [photo EXCEPT ![p] = "start"]
    /\ UNCHANGED <<from, only, motion, stream>>

\* Faulty: the start is left to a request that is still under way.
BugStartMotion(p) ==
    /\ photo[p] = "start"
    /\ motion' = IF motion = "off" /\ \A q \in Photos \ {p} : photo[q] = "none"
                 THEN "starting" ELSE motion
    /\ photo' = [photo EXCEPT ![p] = "reply"]
    /\ UNCHANGED <<from, only, camera, stream>>

\* service motion start: nothing when it runs.
StartMotion(p) ==
    /\ photo[p] = "start"
    /\ motion' = IF motion = "off" THEN "starting" ELSE motion
    /\ photo' = [photo EXCEPT ![p] = "reply"]
    /\ UNCHANGED <<from, only, camera, stream>>

\* Faulty: the service does not wait for the camera.
BugMotionReady ==
    /\ motion = "starting"
    /\ motion' = "on"
    /\ camera' = Motion
    /\ UNCHANGED <<photo, from, only, stream>>

\* The service gets the camera some time later, when it is free.
MotionReady ==
    /\ motion = "starting"
    /\ camera = Nobody
    /\ motion' = "on"
    /\ camera' = Motion
    /\ UNCHANGED <<photo, from, only, stream>>

\* The answer reaches the page, which loads the stream again; one that is shown
\* goes on.
Refresh(p) ==
    /\ photo[p] = "reply"
    /\ photo' = [photo EXCEPT ![p] = "none"]
    /\ stream' = IF motion = "on" THEN stream \cup {from[p]} ELSE stream \ {from[p]}
    /\ UNCHANGED <<from, only, motion, camera>>

AnswerIsLost(p) ==
    /\ photo[p] = "reply"
    /\ photo' = [photo EXCEPT ![p] = "none"]
    /\ UNCHANGED <<from, only, motion, camera, stream>>

-----------------------------------------------------------------------------
TakePhoto(p) == \/ StopMotion(p) \/ StillStarts(p) \/ StillFails(p) \/ StillEnds(p)
                \/ StartMotion(p)

Next ==
    \/ \E g \in Pages : ClickPhoto(g)
    \/ \E p \in Photos : TakePhoto(p) \/ PhotoIsLost(p) \/ Refresh(p) \/ AnswerIsLost(p)
    \/ MotionReady

Spec == Init /\ [][Next]_vars

\* A request that is not lost runs its script to the end and is answered, unless
\* the answer is lost; the service starts in the end.
FairSpec ==
    /\ Spec
    /\ \A p \in Photos : WF_vars(TakePhoto(p)) /\ WF_vars(Refresh(p) \/ AnswerIsLost(p))
    /\ WF_vars(MotionReady)

-----------------------------------------------------------------------------
(* Properties *)

\* The camera service is off only while a script is there that will start it again
\* (takePhoto.sh:3-5).
MotionIsOwed == motion = "off" => \E p \in Photos : photo[p] \in {"still", "capture", "start"}

\* The raspistill of a script that runs alone never finds the camera in use: the
\* service has been stopped, and one still starting does not take it
\* (takePhoto.sh:3-4).  Whatever else raspistill fails at, the script ignores.
CameraIsThere == \A p \in Photos : photo[p] = "still" /\ only[p] => camera = Nobody

\* When pictures are asked for no more, the camera service runs for good, whatever
\* the scripts did to each other (takePhoto.sh:3-5).
MotionComesBack ==
    <>[](\A p \in Photos : photo[p] = "none") => <>[](motion = "on")
=============================================================================
