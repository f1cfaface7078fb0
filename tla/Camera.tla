------------------------------- MODULE Camera -------------------------------
(***************************************************************************)
(* The descriptors of the server process and the V4L2 camera: takePhoto.c  *)
(* and setting.c call by call, and the lists, transfers and angles that    *)
(* open descriptors besides them.                                          *)
(*                                                                         *)
(* One thread at a time uses the camera, as Rasputin protects it (that is  *)
(* SemaphoreAccounts of Server); lists, transfers and connections take no  *)
(* semaphore for what they open.  Descriptors of one kind are alike, so    *)
(* they are counted.  The buffers of the camera belong to the descriptor   *)
(* that requested them until it is closed; requests of others are refused. *)
(*                                                                         *)
(* An operator named Bug... is a faulty form of the operator behind it; no *)
(* specification uses it.                                                  *)
(***************************************************************************)
EXTENDS Naturals

CONSTANTS
    Names,      \* names of pictures, which are local times
    MaxBlocks,  \* BOUND: write calls a picture may take
    MaxFiles,   \* BOUND: descriptors the process may have (1024 on Linux)
    MaxConns    \* BOUND: connections at the same time

ASSUME CameraAssumption ==
    /\ MaxBlocks \in Nat \ {0}
    /\ MaxFiles \in Nat
    /\ MaxConns \in Nat

VARIABLES
    alive,      \* the process has not ended
    pc,         \* the call of takePhoto or of setting.c that is next
    open,       \* how many descriptors of each kind are open
    owner,      \* who has the camera's buffers: nobody, the call, a lost descriptor
    mapped,     \* the buffer is mapped
    frame,      \* the size of the picture taken
    name,       \* the name it gets
    file,       \* the files in files/: blocks of the last picture, older ones behind
    reused,     \* the name was in use
    failed      \* what has failed: nothing, a call without buffers, one with them

call == <<pc, mapped, frame, name, reused, failed>>
vars == <<alive, call, open, owner, file>>

-----------------------------------------------------------------------------
Kinds == {"socket", "list", "transfer", "gpiomem", "video", "picture"}

\* Where a call of takePhoto has the camera's buffers, and where it is else.
BufferLocs == {"querybuf", "stream", "dequeue", "create", "write", "close", "release"}

Locs == BufferLocs \cup {"idle", "caps", "request", "set"}

InUse == open["socket"] + open["list"] + open["transfer"] + open["gpiomem"]
         + open["video"] + open["picture"]

Full == InUse = MaxFiles

Opens(k)  == ~Full /\ open' = [open EXCEPT ![k] = @ + 1]
Closes(k) == open' = [open EXCEPT ![k] = @ - 1]

TypeOK ==
    /\ alive \in BOOLEAN
    /\ pc \in Locs
    /\ open \in [Kinds -> 0..MaxFiles]
    /\ InUse <= MaxFiles
    /\ owner \in {"nobody", "call", "lost"}
    /\ mapped \in BOOLEAN
    /\ frame \in 0..MaxBlocks
    /\ name \in Names
    /\ file \in [Names -> [new : 0..MaxBlocks, old : 0..MaxBlocks]]
    /\ reused \in BOOLEAN
    /\ failed \in {"nothing", "early", "late"}
    /\ owner = "call" => pc \in BufferLocs

Init ==
    /\ alive = TRUE
    /\ pc = "idle"
    /\ open = [k \in Kinds |-> 0]
    /\ owner = "nobody"
    /\ mapped = FALSE
    /\ frame = 0
    /\ name \in Names
    /\ file = [n \in Names |-> [new |-> 0, old |-> 0]]
    /\ reused = FALSE
    /\ failed = "nothing"

-----------------------------------------------------------------------------
(* takePhoto *)

\* The next call of takePhoto.
Goes(from, to) == alive /\ pc = from /\ pc' = to

\* Every failure behind the open is a plain return: what is open stays open, and
\* nobody knows its descriptor any more.
Fails ==
    /\ pc' = "idle"
    /\ failed' = IF pc \in BufferLocs \/ failed = "late" THEN "late" ELSE "early"
    /\ owner' = IF owner = "call" THEN "lost" ELSE owner
    /\ UNCHANGED <<alive, mapped, frame, name, reused, open, file>>

OpenDevice ==
    /\ Goes("idle", "caps")
    /\ Opens("video")
    /\ UNCHANGED <<alive, owner, mapped, frame, name, reused, failed, file>>

\* Nothing was opened: a second failure changes nothing any more.
OpenDeviceFails ==
    /\ alive /\ pc = "idle"
    /\ failed = "nothing"
    /\ failed' = "early"
    /\ UNCHANGED <<alive, pc, mapped, frame, name, reused, open, owner, file>>

QueryCaps ==
    /\ Goes("caps", "request")
    /\ UNCHANGED <<alive, open, owner, mapped, frame, name, reused, failed, file>>

\* The driver gives buffers to one descriptor at a time.
RequestBuffers ==
    /\ Goes("request", "querybuf")
    /\ owner = "nobody"
    /\ owner' = "call"
    /\ UNCHANGED <<alive, open, mapped, frame, name, reused, failed, file>>

\* The result of mmap is not tested.
QueryBuffer ==
    /\ Goes("querybuf", "stream")
    /\ mapped' \in BOOLEAN
    /\ UNCHANGED <<alive, open, owner, frame, name, reused, failed, file>>

\* The buffer is queued, the stream begins, and select waits for two seconds; that
\* no frame has come by then makes no difference.
StartStream ==
    /\ Goes("stream", "dequeue")
    /\ UNCHANGED <<alive, open, owner, mapped, frame, name, reused, failed, file>>

\* VIDIOC_DQBUF waits for the frame as long as it takes; one the driver could not
\* fill has no bytes.
DequeueFrame ==
    /\ Goes("dequeue", "create")
    /\ frame' \in 0..MaxBlocks
    /\ UNCHANGED <<alive, open, owner, mapped, name, reused, failed, file>>

\* The file is opened without O_TRUNC: what it has stays behind the new picture.  Of
\* no bytes nothing is written.
CreatePicture ==
    /\ Goes("create", IF frame = 0 THEN "close" ELSE "write")
    /\ Opens("picture")
    /\ \E n \in Names :
         LET had == file[n].new + file[n].old
         IN  /\ name' = n
             /\ reused' = (had > 0)
             /\ file' = [file EXCEPT ![n] =
                          [new |-> 0, old |-> IF had < MaxBlocks THEN had ELSE MaxBlocks]]
    /\ UNCHANGED <<alive, owner, mapped, frame, failed>>

\* Faulty: whatever the first write took is all that is written.
BugWritePicture ==
    /\ Goes("write", "close")
    /\ mapped
    /\ \E k \in 1..(frame - file[name].new) :
         file' = [file EXCEPT ![name] = [new |-> @.new + k,
                                         old |-> IF @.old > k THEN @.old - k ELSE 0]]
    /\ UNCHANGED <<alive, open, owner, mapped, frame, name, reused, failed>>

\* A write takes as much as it likes of what is left.
WritePicture ==
    /\ alive /\ pc = "write"
    /\ mapped
    /\ \E k \in 1..(frame - file[name].new) :
         /\ file' = [file EXCEPT ![name] = [new |-> @.new + k,
                                            old |-> IF @.old > k THEN @.old - k ELSE 0]]
         /\ pc' = IF file'[name].new = frame THEN "close" ELSE "write"
    /\ UNCHANGED <<alive, open, owner, mapped, frame, name, reused, failed>>

ClosePicture ==
    /\ Goes("close", "release")
    /\ Closes("picture")
    /\ UNCHANGED <<alive, owner, mapped, frame, name, reused, failed, file>>

\* Faulty: the close is tried again.
BugClosePictureFails ==
    /\ alive /\ pc = "close"
    /\ pc' = "idle"
    /\ failed' = "late"
    /\ owner' = "lost"
    /\ open' = [open EXCEPT !["picture"] = @ - 2]
    /\ UNCHANGED <<alive, mapped, frame, name, reused, file>>

\* A failing close has closed all the same.
ClosePictureFails ==
    /\ alive /\ pc = "close"
    /\ pc' = "idle"
    /\ failed' = "late"
    /\ owner' = "lost"
    /\ Closes("picture")
    /\ UNCHANGED <<alive, mapped, frame, name, reused, file>>

\* Faulty: the device is not closed.
BugRelease ==
    /\ Goes("release", "idle")
    /\ owner' = "lost"
    /\ mapped' = FALSE
    /\ UNCHANGED <<alive, open, frame, name, reused, failed, file>>

\* munmap and close: the driver takes the buffers back.
Release ==
    /\ Goes("release", "idle")
    /\ owner' = "nobody"
    /\ mapped' = FALSE
    /\ Closes("video")
    /\ UNCHANGED <<alive, frame, name, reused, failed, file>>

\* A call between open and munmap fails, as any may.
TakePhotoFails ==
    /\ alive
    /\ pc \in {"caps", "request", "querybuf", "stream", "dequeue", "create", "write"}
    /\ Fails

-----------------------------------------------------------------------------
(* setting.c: four functions of one shape *)

OpenForSetting ==
    /\ Goes("idle", "set")
    /\ Opens("video")
    /\ UNCHANGED <<alive, owner, mapped, frame, name, reused, failed, file>>

ChangeSetting ==
    /\ Goes("set", "idle")
    /\ Closes("video")
    /\ UNCHANGED <<alive, owner, mapped, frame, name, reused, failed, file>>

\* The ioctl is refused: a format while somebody has buffers, or any value the
\* driver does not like.
ChangeSettingFails ==
    /\ alive /\ pc = "set"
    /\ Fails

-----------------------------------------------------------------------------
(* The other users of descriptors *)

Accept ==
    /\ alive
    /\ open["socket"] < MaxConns
    /\ IF Full THEN alive' = FALSE /\ UNCHANGED open
               ELSE Opens("socket") /\ UNCHANGED alive
    /\ UNCHANGED <<call, owner, file>>

\* Every way out of connection_handler closes the socket.
EndThread ==
    /\ alive
    /\ open["socket"] > 0
    /\ Closes("socket")
    /\ UNCHANGED <<alive, call, owner, file>>

\* opendir; there is no closedir, and ERROR_HELPER ends the process.
SendList ==
    /\ alive
    /\ open["socket"] > 0
    /\ IF Full THEN alive' = FALSE /\ UNCHANGED open
               ELSE Opens("list") /\ UNCHANGED alive
    /\ UNCHANGED <<call, owner, file>>

\* fopen, of a picture or of files/ itself; there is no fclose.  When it fails the
\* picture is not found.
OpenPicture ==
    /\ alive
    /\ open["socket"] > 0
    /\ Opens("transfer")
    /\ UNCHANGED <<alive, call, owner, file>>

\* setup() of gpio.c opens and maps /dev/gpiomem at every angle.  When it cannot, it
\* cannot open what it tries instead either; the registers are then those mapped by
\* an earlier angle, and without one the first access is a fault.
SetAngle ==
    /\ alive
    /\ pc = "idle"
    /\ open["socket"] > 0
    /\ \/ Opens("gpiomem") /\ UNCHANGED alive
       \/ Full /\ open["gpiomem"] = 0 /\ alive' = FALSE /\ UNCHANGED open
    /\ UNCHANGED <<call, owner, file>>

-----------------------------------------------------------------------------
TakePhoto == \/ OpenDevice \/ OpenDeviceFails \/ QueryCaps \/ RequestBuffers \/ QueryBuffer
             \/ StartStream \/ DequeueFrame \/ CreatePicture \/ WritePicture
             \/ ClosePicture \/ ClosePictureFails \/ Release \/ TakePhotoFails

Setting == OpenForSetting \/ ChangeSetting \/ ChangeSettingFails

Next == TakePhoto \/ Setting \/ Accept \/ EndThread \/ SendList \/ OpenPicture \/ SetAngle

Spec == Init /\ [][Next]_vars

-----------------------------------------------------------------------------
(* Properties *)

\* What works leaves nothing behind: as long as no call has failed, the camera is
\* free and closed whenever nobody uses it (takePhoto.c:215-244, setting.c:21-115).
NothingIsKept ==
    failed = "nothing" /\ pc = "idle" =>
      owner = "nobody" /\ open["video"] = 0 /\ open["picture"] = 0

\* A picture that was saved without an error has all of its frame in its file, and
\* nothing else unless its name was in use before (takePhoto.c:187-212).
SavedIsWhole ==
    pc = "release" => /\ file[name].new = frame
                      /\ file[name].old > 0 => reused

\* Failures do not add up: however many calls have failed, in takePhoto or in
\* setting.c, the next takePhoto gets the buffers, unless one of them failed while it
\* had them (takePhoto.c:99-109, 215-244, setting.c:21-115).
CameraSurvives == pc = "request" /\ failed # "late" => owner = "nobody"
=============================================================================
