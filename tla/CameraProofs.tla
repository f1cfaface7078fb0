---------------------------- MODULE CameraProofs ----------------------------
(***************************************************************************)
(* Theorems about Camera, for any number of descriptors, names and blocks. *)
(*                                                                         *)
(* None of the properties is inductive.  A call of takePhoto has the       *)
(* device open behind its first step, the file while it writes, and the    *)
(* buffers from REQBUFS to its end (CallHolds); without a failure it has   *)
(* these and there are no others (NoLeak); only a failure while it has the *)
(* buffers loses them (LateLoses).  FileFits says how far the picture has  *)
(* got into its file.                                                      *)
(***************************************************************************)
EXTENDS Camera, Integers, TLAPS

\* Where a call of takePhoto has a file.
PictureLocs == {"write", "close"}

CallHolds ==
    /\ pc # "idle" => open["video"] >= 1
    /\ pc \in PictureLocs => open["picture"] >= 1
    /\ pc \in BufferLocs <=> owner = "call"

NoLeak ==
    failed = "nothing" =>
      /\ open["video"] = IF pc = "idle" THEN 0 ELSE 1
      /\ open["picture"] = IF pc \in PictureLocs THEN 1 ELSE 0

FileFits ==
    /\ pc \in {"write", "close", "release"} => (file[name].old > 0 => reused = TRUE)
    /\ pc \in {"close", "release"} => file[name].new = frame

\* The buffers are lost by a call that failed while it had them, and by no other.
LateLoses ==
    /\ failed = "late" => owner = "lost" /\ pc \in {"idle", "caps", "request", "set"}
    /\ owner = "lost" => failed = "late"

\* The inductive invariant.
CameraInv == TypeOK /\ CallHolds /\ NoLeak /\ LateLoses /\ FileFits

USE CameraAssumption

-----------------------------------------------------------------------------
(* Descriptors *)

\* A descriptor that is opened is the only one that changes, and there was room.
LEMMA OpensOne ==
    ASSUME TypeOK, NEW k \in Kinds, Opens(k)
    PROVE  /\ open' \in [Kinds -> 0..MaxFiles]
           /\ InUse' <= MaxFiles
           /\ open'[k] = open[k] + 1
           /\ \A j \in Kinds : j # k => open'[j] = open[j]
<1>1. InUse < MaxFiles
  BY DEF TypeOK, Opens, Full, InUse, Kinds
<1>2. open[k] + 1 \in 0..MaxFiles
  BY <1>1 DEF TypeOK, InUse, Kinds
<1>3. open' = [open EXCEPT ![k] = open[k] + 1]
  BY DEF Opens
<1>4. open' \in [Kinds -> 0..MaxFiles]
  BY <1>2, <1>3 DEF TypeOK
<1>5. open'[k] = open[k] + 1 /\ \A j \in Kinds : j # k => open'[j] = open[j]
  BY <1>3 DEF TypeOK
<1>6. InUse' = InUse + 1
  BY <1>5 DEF TypeOK, InUse, Kinds
<1> QED
  BY <1>1, <1>4, <1>5, <1>6 DEF TypeOK, InUse, Kinds

\* A descriptor that is closed was open and is the only one that changes.
LEMMA ClosesOne ==
    ASSUME TypeOK, NEW k \in Kinds, open[k] >= 1, Closes(k)
    PROVE  /\ open' \in [Kinds -> 0..MaxFiles]
           /\ InUse' <= MaxFiles
           /\ open'[k] = open[k] - 1
           /\ \A j \in Kinds : j # k => open'[j] = open[j]
<1>1. open[k] - 1 \in 0..MaxFiles
  BY DEF TypeOK
<1>2. open' = [open EXCEPT ![k] = open[k] - 1]
  BY DEF Closes
<1>3. open' \in [Kinds -> 0..MaxFiles]
  BY <1>1, <1>2 DEF TypeOK
<1>4. open'[k] = open[k] - 1 /\ \A j \in Kinds : j # k => open'[j] = open[j]
  BY <1>2 DEF TypeOK
<1>5. \A j \in Kinds : open[j] \in Nat /\ open'[j] \in Int
  BY <1>3 DEF TypeOK
<1>6. InUse' = InUse - 1
  BY <1>4, <1>5 DEF InUse, Kinds
<1> QED
  BY <1>3, <1>4, <1>5, <1>6 DEF TypeOK, InUse, Kinds

\* Nothing is opened and nothing closed.
LEMMA OpensNone ==
    ASSUME TypeOK, UNCHANGED open
    PROVE  open' \in [Kinds -> 0..MaxFiles] /\ InUse' <= MaxFiles
BY DEF TypeOK, InUse

-----------------------------------------------------------------------------
LEMMA InitCamera == Init => CameraInv
<1> SUFFICES ASSUME Init PROVE CameraInv
  OBVIOUS
<1>1. \A k \in Kinds : open[k] = 0
  BY DEF Init
<1>2. InUse = 0
  BY <1>1 DEF InUse, Kinds
<1>3. open \in [Kinds -> 0..MaxFiles] /\ InUse <= MaxFiles
  BY <1>2 DEF Init
<1>4. file \in [Names -> [new : 0..MaxBlocks, old : 0..MaxBlocks]] /\ frame \in 0..MaxBlocks
  BY DEF Init
<1>5. TypeOK
  BY <1>3, <1>4 DEF Init, TypeOK, Locs
<1> QED
  BY <1>1, <1>5 DEF Init, CameraInv, CallHolds, NoLeak, LateLoses, FileFits,
                    BufferLocs, PictureLocs, Kinds

\* A failure inside takePhoto or setting.c: whatever the call had is lost.
LEMMA FailsStep ==
    ASSUME CameraInv, pc # "idle", Fails, UNCHANGED alive
    PROVE  CameraInv'
<1>1. TypeOK'
  BY OpensNone DEF CameraInv, TypeOK, Fails, Locs
<1> QED
  BY <1>1 DEF CameraInv, CallHolds, NoLeak, LateLoses, FileFits, Fails, TypeOK,
              BufferLocs, PictureLocs

\* A step of takePhoto that opens nothing, closes nothing and touches no file.
LEMMA QuietStep ==
    ASSUME CameraInv,
           OpenDeviceFails \/ QueryCaps \/ RequestBuffers \/ QueryBuffer \/ StartStream
             \/ DequeueFrame
    PROVE  CameraInv'
<1> USE DEF OpenDeviceFails, QueryCaps, RequestBuffers, QueryBuffer, StartStream,
            DequeueFrame, Goes
<1>1. TypeOK'
  BY OpensNone DEF CameraInv, TypeOK, CallHolds, BufferLocs, Locs
<1>2. CallHolds'
  BY DEF CameraInv, TypeOK, CallHolds, BufferLocs, PictureLocs
<1>3. NoLeak'
  BY DEF CameraInv, TypeOK, NoLeak, PictureLocs
<1>4. LateLoses'
  BY DEF CameraInv, TypeOK, LateLoses
<1>5. FileFits'
  BY DEF CameraInv, TypeOK, FileFits
<1> QED
  BY <1>1, <1>2, <1>3, <1>4, <1>5 DEF CameraInv

\* The steps that open or close the device.
LEMMA DeviceStep ==
    ASSUME CameraInv, OpenDevice \/ OpenForSetting \/ ChangeSetting \/ Release
    PROVE  CameraInv'
<1> USE DEF OpenDevice, OpenForSetting, ChangeSetting, Release, Goes
<1>1. /\ open' \in [Kinds -> 0..MaxFiles]
      /\ InUse' <= MaxFiles
      /\ open'["video"] = IF pc = "idle" THEN open["video"] + 1 ELSE open["video"] - 1
      /\ open'["picture"] = open["picture"]
  BY OpensOne, ClosesOne DEF CameraInv, CallHolds, Kinds
<1>2. TypeOK'
  BY <1>1 DEF CameraInv, TypeOK, CallHolds, BufferLocs, Locs
<1>3. CallHolds'
  BY <1>1 DEF CameraInv, TypeOK, CallHolds, BufferLocs, PictureLocs, Kinds
<1>4. NoLeak'
  BY <1>1 DEF CameraInv, TypeOK, NoLeak, PictureLocs
<1>5. LateLoses'
  BY DEF CameraInv, TypeOK, LateLoses
<1>6. FileFits'
  BY DEF CameraInv, TypeOK, FileFits
<1> QED
  BY <1>2, <1>3, <1>4, <1>5, <1>6 DEF CameraInv

\* CreatePicture opens the file; what it had is behind the new picture.
LEMMA CreateStep == ASSUME CameraInv, CreatePicture PROVE CameraInv'
<1> USE DEF CreatePicture, Goes
<1>1. /\ open' \in [Kinds -> 0..MaxFiles]
      /\ InUse' <= MaxFiles
      /\ open'["picture"] = open["picture"] + 1
      /\ open'["video"] = open["video"]
  BY OpensOne DEF CameraInv, Kinds
<1>2. PICK n \in Names :
        LET had == file[n].new + file[n].old
        IN  /\ name' = n
            /\ reused' = (had > 0)
            /\ file' = [file EXCEPT ![n] =
                         [new |-> 0, old |-> IF had < MaxBlocks THEN had ELSE MaxBlocks]]
  OBVIOUS
<1> DEFINE had == file[n].new + file[n].old
<1>3. file[n].new \in 0..MaxBlocks /\ file[n].old \in 0..MaxBlocks
  BY DEF CameraInv, TypeOK
<1>4. file'[n] = [new |-> 0, old |-> IF had < MaxBlocks THEN had ELSE MaxBlocks]
  BY <1>2 DEF CameraInv, TypeOK
<1>5. file' \in [Names -> [new : 0..MaxBlocks, old : 0..MaxBlocks]]
  BY <1>2, <1>3 DEF CameraInv, TypeOK
<1>6. TypeOK'
  BY <1>1, <1>2, <1>5 DEF CameraInv, TypeOK, CallHolds, BufferLocs, Locs
<1>7. CallHolds'
  BY <1>1 DEF CameraInv, TypeOK, CallHolds, BufferLocs, PictureLocs, Kinds
<1>8. NoLeak'
  BY <1>1 DEF CameraInv, TypeOK, NoLeak, PictureLocs
<1>9. LateLoses'
  BY DEF CameraInv, TypeOK, LateLoses
<1>10. FileFits'
  <2>1. (file'[n].old > 0 => had > 0) /\ file'[n].new = 0
    BY <1>3, <1>4
  <2> QED
    BY <1>2, <2>1 DEF FileFits
<1> QED
  BY <1>6, <1>7, <1>8, <1>9, <1>10 DEF CameraInv

\* A write adds to the new picture and covers what is behind it.
LEMMA WriteStep == ASSUME CameraInv, WritePicture PROVE CameraInv'
<1> USE DEF WritePicture
<1> DEFINE f == file[name]
<1>1. /\ f.new \in 0..MaxBlocks
      /\ f.old \in 0..MaxBlocks
      /\ frame \in 0..MaxBlocks
  BY DEF CameraInv, TypeOK
<1>2. PICK k \in 1..(frame - f.new) :
        /\ file' = [file EXCEPT ![name] = [new |-> @.new + k,
                                           old |-> IF @.old > k THEN @.old - k ELSE 0]]
        /\ pc' = IF file'[name].new = frame THEN "close" ELSE "write"
  OBVIOUS
<1>3. file'[name] = [new |-> f.new + k, old |-> IF f.old > k THEN f.old - k ELSE 0]
  BY <1>2 DEF CameraInv, TypeOK
<1>4. f.new + k \in 0..MaxBlocks /\ (IF f.old > k THEN f.old - k ELSE 0) \in 0..MaxBlocks
  BY <1>1, <1>2
<1>5. file' \in [Names -> [new : 0..MaxBlocks, old : 0..MaxBlocks]]
  BY <1>2, <1>4 DEF CameraInv, TypeOK
<1>6. TypeOK'
  BY <1>2, <1>5, OpensNone DEF CameraInv, TypeOK, CallHolds, BufferLocs, Locs
<1>7. CallHolds'
  BY <1>2 DEF CameraInv, TypeOK, CallHolds, BufferLocs, PictureLocs
<1>8. NoLeak'
  BY <1>2 DEF CameraInv, TypeOK, NoLeak, PictureLocs
<1>9. LateLoses'
  BY DEF CameraInv, TypeOK, LateLoses
<1>10. FileFits'
  <2>1. file'[name].old > 0 => f.old > 0
    BY <1>1, <1>2, <1>3
  <2>2. pc' = "close" => file'[name].new = frame
    BY <1>2
  <2>3. pc' \in {"close", "write"}
    BY <1>2
  <2> QED
    BY <2>1, <2>2, <2>3 DEF CameraInv, FileFits
<1> QED
  BY <1>6, <1>7, <1>8, <1>9, <1>10 DEF CameraInv

\* The picture is closed; should that fail, the buffers are lost.
LEMMA CloseStep == ASSUME CameraInv, ClosePicture \/ ClosePictureFails PROVE CameraInv'
<1> USE DEF ClosePicture, ClosePictureFails, Goes
<1>1. /\ open' \in [Kinds -> 0..MaxFiles]
      /\ InUse' <= MaxFiles
      /\ open'["picture"] = open["picture"] - 1
      /\ open'["video"] = open["video"]
  BY ClosesOne DEF CameraInv, CallHolds, PictureLocs, Kinds
<1>2. TypeOK'
  BY <1>1 DEF CameraInv, TypeOK, BufferLocs, Locs
<1>3. CallHolds'
  BY <1>1 DEF CameraInv, TypeOK, CallHolds, BufferLocs, PictureLocs, Kinds
<1>4. NoLeak'
  BY <1>1 DEF CameraInv, TypeOK, NoLeak, PictureLocs
<1>5. LateLoses'
  BY DEF CameraInv, TypeOK, LateLoses
<1>6. FileFits'
  BY DEF CameraInv, TypeOK, FileFits
<1> QED
  BY <1>2, <1>3, <1>4, <1>5, <1>6 DEF CameraInv

\* Connections, lists, transfers and angles leave the camera's descriptors alone.
LEMMA OtherStep ==
    ASSUME CameraInv, Accept \/ EndThread \/ SendList \/ OpenPicture \/ SetAngle
    PROVE  CameraInv'
<1> USE DEF Accept, EndThread, SendList, OpenPicture, SetAngle, call
<1>1. /\ open' \in [Kinds -> 0..MaxFiles]
      /\ InUse' <= MaxFiles
      /\ open'["video"] = open["video"]
      /\ open'["picture"] = open["picture"]
  <2>1. CASE UNCHANGED open
    BY <2>1, OpensNone DEF CameraInv
  <2>2. CASE \E k \in Kinds \ {"video", "picture"} : Opens(k)
    BY <2>2, OpensOne DEF CameraInv, Kinds
  <2>3. CASE open["socket"] > 0 /\ Closes("socket")
    <3>1. open["socket"] >= 1
      BY <2>3 DEF CameraInv, TypeOK, Kinds
    <3> QED
      BY <2>3, <3>1, ClosesOne DEF CameraInv, Kinds
  <2> QED
    BY <2>1, <2>2, <2>3 DEF Kinds
<1>2. TypeOK'
  BY <1>1 DEF CameraInv, TypeOK
<1>3. (CallHolds /\ NoLeak /\ LateLoses /\ FileFits)'
  BY <1>1 DEF CameraInv, CallHolds, NoLeak, LateLoses, FileFits
<1> QED
  BY <1>2, <1>3 DEF CameraInv

LEMMA CameraStep == CameraInv /\ [Next]_vars => CameraInv'
<1> SUFFICES ASSUME CameraInv, [Next]_vars PROVE CameraInv'
  OBVIOUS
<1>1. CASE TakePhoto
  BY <1>1, QuietStep, DeviceStep, CreateStep, WriteStep, CloseStep, FailsStep
     DEF TakePhoto, TakePhotoFails, Fails
<1>2. CASE Setting
  BY <1>2, DeviceStep, FailsStep DEF Setting, ChangeSettingFails, Fails
<1>3. CASE Accept \/ EndThread \/ SendList \/ OpenPicture \/ SetAngle
  BY <1>3, OtherStep
<1>4. CASE UNCHANGED vars
  <2>1. UNCHANGED open
    BY <1>4 DEF vars
  <2>2. TypeOK'
    BY <1>4, <2>1, OpensNone DEF vars, call, CameraInv, TypeOK
  <2> QED
    BY <1>4, <2>2 DEF vars, call, CameraInv, CallHolds, NoLeak, LateLoses, FileFits
<1> QED
  BY <1>1, <1>2, <1>3, <1>4 DEF Next

LEMMA CameraInvariant == Spec => []CameraInv
BY InitCamera, CameraStep, PTL DEF Spec

-----------------------------------------------------------------------------
\* Every variable keeps its type; in particular no more descriptors are open than the
\* process may have, and none is closed twice.
THEOREM TypeCorrect == Spec => []TypeOK
<1>1. CameraInv => TypeOK
  BY DEF CameraInv
<1> QED
  BY CameraInvariant, <1>1, PTL

\* As long as no call has failed, the camera is free and closed whenever nobody uses
\* it (takePhoto.c:215-244, setting.c:21-115).
THEOREM NoLeakWithoutFailure == Spec => []NothingIsKept
<1>1. CameraInv => NothingIsKept
  BY DEF CameraInv, TypeOK, CallHolds, NoLeak, LateLoses, NothingIsKept, BufferLocs,
         PictureLocs
<1> QED
  BY CameraInvariant, <1>1, PTL

\* A picture that was saved without an error has all of its frame in its file, and
\* nothing else unless its name was in use before (takePhoto.c:187-212).
THEOREM SavedPicturesAreWhole == Spec => []SavedIsWhole
<1>1. CameraInv => SavedIsWhole
  BY DEF CameraInv, FileFits, SavedIsWhole
<1> QED
  BY CameraInvariant, <1>1, PTL

\* However many calls have failed, the next takePhoto gets the buffers, unless one of
\* them failed while it had them (takePhoto.c:99-109, 215-244, setting.c:21-115).
THEOREM FailuresDoNotAddUp == Spec => []CameraSurvives
<1>1. CameraInv => CameraSurvives
  BY DEF CameraInv, TypeOK, CallHolds, LateLoses, CameraSurvives, BufferLocs
<1> QED
  BY CameraInvariant, <1>1, PTL
=============================================================================
