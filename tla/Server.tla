------------------------------- MODULE Server -------------------------------
(***************************************************************************)
(* The surveillance server of cVersion/server: the accept loop of main,    *)
(* one thread per connection (connection_handler) and the polling thread,  *)
(* sharing the camera, the servo and the pictures under files/ through the *)
(* semaphore Rasputin.                                                     *)
(*                                                                         *)
(* A handler's location names the call it is about to make, so that every  *)
(* send, recv, sem_wait and device access of one thread interleaves with   *)
(* those of the others.  Clients are arbitrary: a handler may receive any  *)
(* message at any prompt, and a client in Leavers may close or reset its   *)
(* connection at any moment.  A send to, or a recv from, a connection      *)
(* behaves as Linux does it: after the peer's FIN recv returns 0 and the   *)
(* first send still succeeds; after an RST the next call fails; a send     *)
(* after FIN and RST raises SIGPIPE, which nothing in the server ignores.  *)
(*                                                                         *)
(* An operator named Bug... is a faulty form of the operator behind it; no *)
(* specification uses it.  It stands here to show, in its place, which     *)
(* slip of the code a property catches.                                    *)
(***************************************************************************)
EXTENDS Naturals, FiniteSets

CONSTANTS
    Handlers,     \* connections served at the same time, one thread each
    Poller,       \* the polling thread
    Leavers,      \* the handlers whose client may leave or be cut off
    Photos,       \* names the clock can give to a picture
    NoPhoto,      \* a name that is no picture's
    Directory,    \* the empty name: fopen("files/") opens the directory itself
    Names,        \* what clients ask for
    Options,      \* the settings that clients change
    Blocks,       \* BOUND: write calls in the longest picture
    NullCompare   \* what memcmp(buf, NULL, 1) of server.c:302 may do

Settings == {"resolution", "brightness", "exposure", "contrast"}

ASSUME OptionsAssumption  == Options \subseteq Settings
ASSUME HandlersAssumption == /\ Poller \notin Handlers
                             /\ Leavers \subseteq Handlers
                             /\ {"free", "lost"} \cap (Handlers \cup {Poller}) = {}
ASSUME PhotosAssumption   == /\ NoPhoto \notin Photos
                             /\ Directory \notin Photos
                             /\ NoPhoto # Directory
                             /\ Names \subseteq Photos \cup {NoPhoto, Directory}
ASSUME BlocksAssumption   == Blocks \in Nat \ {0}
ASSUME NullAssumption     == NullCompare \subseteq {"trap", "equal", "differ"}

VARIABLES
    alive,      \* the server process runs
    sem,        \* the value of Rasputin
    lost,       \* history: a thread ended between its sem_wait and its sem_post
    pc,         \* location of every thread
    conn,       \* state of every handler's socket, as the kernel holds it
    control,    \* the local flag of that name
    opt,        \* the setting being changed, "none" when the option was unknown
    target,     \* the picture asked for
    announced,  \* the local size: what ftell returned for the picture
    applied,    \* history: device changes the current request has brought about
    size,       \* blocks in every file of files/, NoFile when it is absent
    shot        \* the picture being saved and the blocks written so far

vars == <<alive, sem, lost, pc, conn, control, opt, target, announced,
          applied, size, shot>>

-----------------------------------------------------------------------------
Threads  == Handlers \cup {Poller}
NoFile   == Blocks + 1

PollLocs == {"poll", "capture", "saving", "sleep"}
SendLocs == {"welcome", "anglePrompt", "angleReply", "list", "found",
             "notFound", "size", "data", "settingsPrompt", "valuePrompt",
             "settingsReply"}
RecvLocs == {"option", "angle", "name", "ready", "settingsOption", "value"}
WaitLocs == {"angleWait", "photoWait", "settingWait", "poll"}
\* Between sem_wait and sem_post.
HeldLocs == {"servo", "ready", "size", "data", "photoPost", "spin", "setting",
             "capture", "saving"}
HandlerLocs == {"none", "quit", "open"} \cup SendLocs \cup RecvLocs
                 \cup (WaitLocs \ {"poll"}) \cup (HeldLocs \ PollLocs)

Holders  == {t \in Threads : pc[t] \in HeldLocs}
Deliver(h) == conn[h] \in {"open", "fin"}

TypeOK ==
    /\ alive \in BOOLEAN
    /\ sem \in {0, 1}
    /\ lost \in BOOLEAN
    /\ pc \in [Threads -> HandlerLocs \cup PollLocs]
    /\ pc[Poller] \in PollLocs
    /\ \A h \in Handlers : pc[h] \in HandlerLocs
    /\ conn \in [Handlers -> {"none", "open", "fin", "reset", "pipe"}]
    /\ control \in [Handlers -> BOOLEAN]
    /\ opt \in [Handlers -> Settings \cup {"none"}]
    /\ target \in [Handlers -> Photos \cup {NoPhoto, Directory}]
    /\ announced \in [Handlers -> 0 .. Blocks]
    /\ applied \in [Handlers -> 0 .. 2]
    /\ size \in [Photos -> 0 .. NoFile]
    /\ shot \in [photo : Photos \cup {NoPhoto}, written : 0 .. Blocks]

\* files/ keeps the pictures of earlier runs of the server.
Init ==
    /\ alive = TRUE
    /\ sem = 1
    /\ lost = FALSE
    /\ pc = [t \in Threads |-> IF t = Poller THEN "poll" ELSE "none"]
    /\ conn = [h \in Handlers |-> "none"]
    /\ control = [h \in Handlers |-> TRUE]
    /\ opt = [h \in Handlers |-> "none"]
    /\ target = [h \in Handlers |-> NoPhoto]
    /\ announced = [h \in Handlers |-> 0]
    /\ applied = [h \in Handlers |-> 0]
    /\ size \in [Photos -> {Blocks, NoFile}]
    /\ shot = [photo |-> NoPhoto, written |-> 0]

Goto(t, loc) == pc' = [pc EXCEPT ![t] = loc]

\* The locals of a request.
request == <<control, opt, target, announced, applied>>
files   == <<size, shot>>
lock    == <<sem, lost>>

\* Outside a request they mean nothing; the loop sets control again (128).
EndRequest(h) ==
    /\ control' = [control EXCEPT ![h] = TRUE]
    /\ opt' = [opt EXCEPT ![h] = "none"]
    /\ target' = [target EXCEPT ![h] = NoPhoto]
    /\ announced' = [announced EXCEPT ![h] = 0]
    /\ applied' = [applied EXCEPT ![h] = 0]

\* close, free and pthread_exit.
EndThread(h) ==
    /\ Goto(h, "none")
    /\ conn' = [conn EXCEPT ![h] = "none"]
    /\ EndRequest(h)

-----------------------------------------------------------------------------
(* main *)

\* accept returned a connection and its thread was created.
Accept(h) ==
    /\ alive
    /\ pc[h] = "none"
    /\ Goto(h, "welcome")
    /\ conn' = [conn EXCEPT ![h] = "open"]
    /\ UNCHANGED <<alive, lock, request, files>>

\* accept or pthread_create failed (no descriptor, no memory, a connection
\* aborted in the queue): ERROR_HELPER ends the whole process.
AcceptFails ==
    /\ alive
    /\ alive' = FALSE
    /\ UNCHANGED <<lock, pc, conn, request, files>>

-----------------------------------------------------------------------------
(* The network *)

PeerCloses(h) ==
    /\ alive
    /\ h \in Leavers
    /\ conn[h] = "open"
    /\ conn' = [conn EXCEPT ![h] = "fin"]
    /\ UNCHANGED <<alive, lock, pc, request, files>>

PeerResets(h) ==
    /\ alive
    /\ h \in Leavers
    /\ \/ /\ conn[h] = "open"
          /\ conn' = [conn EXCEPT ![h] = "reset"]
       \/ /\ conn[h] = "fin"
          /\ conn' = [conn EXCEPT ![h] = "pipe"]
    /\ UNCHANGED <<alive, lock, pc, request, files>>

-----------------------------------------------------------------------------
(* connection_handler: what every send and recv has in common *)

\* Faulty: the error exit posts whether or not it holds the semaphore.
BugCallFails(h) ==
    /\ alive
    /\ pc[h] \in SendLocs \cup RecvLocs
    /\ conn[h] = "reset"
    /\ sem' = sem + 1
    /\ EndThread(h)
    /\ UNCHANGED <<alive, lost, files>>

\* A send or recv that fails closes the socket and ends the thread, wherever
\* it stands: no path posts the semaphore first.
CallFails(h) ==
    /\ alive
    /\ pc[h] \in SendLocs \cup RecvLocs
    /\ conn[h] = "reset"
    /\ lost' = (lost \/ pc[h] \in HeldLocs)
    /\ EndThread(h)
    /\ UNCHANGED <<alive, sem, files>>

\* SIGPIPE keeps its default action: the process ends.
SendRaisesSigpipe(h) ==
    /\ alive
    /\ pc[h] \in SendLocs
    /\ conn[h] = "pipe"
    /\ alive' = FALSE
    /\ UNCHANGED <<lock, pc, conn, request, files>>

AfterSend ==
    [welcome |-> "option", anglePrompt |-> "angle", found |-> "photoWait",
     settingsPrompt |-> "settingsOption", valuePrompt |-> "value"]

\* The sends that only move the dialogue on.
SendPrompt(h) ==
    /\ alive
    /\ pc[h] \in DOMAIN AfterSend
    /\ Deliver(h)
    /\ Goto(h, AfterSend[pc[h]])
    /\ UNCHANGED <<alive, lock, conn, request, files>>

\* "Well Done" or "Invalid input!", by control; then back to the main loop.
SendReply(h) ==
    /\ alive
    /\ pc[h] \in {"angleReply", "settingsReply"}
    /\ Deliver(h)
    /\ Goto(h, "option")
    /\ EndRequest(h)
    /\ UNCHANGED <<alive, lock, conn, files>>

\* recv: a message of the set texts, or "" (0 bytes) when the peer has closed.
Receives(h, texts, m) ==
    \/ conn[h] = "open" /\ m \in texts
    \/ conn[h] \in {"fin", "pipe"} /\ m = ""

\* The main loop.  An option it does not know is dropped without an answer.
AfterOption(m) ==
    CASE m = "setangle"      -> "anglePrompt"
      [] m = "searchphoto"   -> "list"
      [] m = "settings"      -> "settingsPrompt"
      [] m \in {"quit", ""}  -> "quit"
      [] OTHER               -> "option"

RecvOption(h) ==
    /\ alive
    /\ pc[h] = "option"
    /\ \E m \in {"setangle", "searchphoto", "settings", "quit", "other", ""} :
         /\ Receives(h, {"setangle", "searchphoto", "settings", "quit", "other"}, m)
         /\ Goto(h, AfterOption(m))
    /\ UNCHANGED <<alive, lock, conn, request, files>>

\* Leaving the main loop: close the socket and end the thread.
Quit(h) ==
    /\ alive
    /\ pc[h] = "quit"
    /\ EndThread(h)
    /\ UNCHANGED <<alive, lock, files>>

-----------------------------------------------------------------------------
(* The semaphore *)

\* Faulty: sem_trywait with its result ignored.
BugSemWait(t, loc) ==
    /\ sem' = IF sem > 0 THEN sem - 1 ELSE sem
    /\ Goto(t, loc)

\* sem_wait, and the location behind it.
SemWait(t, loc) ==
    /\ sem > 0
    /\ sem' = sem - 1
    /\ Goto(t, loc)

\* sem_post.
SemPost(t, loc) ==
    /\ sem' = sem + 1
    /\ Goto(t, loc)

-----------------------------------------------------------------------------
(* SETANGLE *)

\* controlInput and the range 0..180 sort the texts into valid and invalid;
\* 0 bytes are not a number.
RecvAngle(h) ==
    /\ alive
    /\ pc[h] = "angle"
    /\ \E m \in {"valid", "invalid", ""} :
         /\ Receives(h, {"valid", "invalid"}, m)
         /\ control' = [control EXCEPT ![h] = (m = "valid")]
         /\ Goto(h, IF m = "valid" THEN "angleWait" ELSE "angleReply")
    /\ UNCHANGED <<alive, lock, conn, opt, target, announced, applied, files>>

AngleWait(h) ==
    /\ alive
    /\ pc[h] = "angleWait"
    /\ SemWait(h, "servo")
    /\ UNCHANGED <<alive, lost, conn, request, files>>

\* setAngle moves the servo or fails; its result is ignored.
MoveServo(h) ==
    /\ alive
    /\ pc[h] = "servo"
    /\ \E n \in {0, 1} : applied' = [applied EXCEPT ![h] = @ + n]
    /\ SemPost(h, "angleReply")
    /\ UNCHANGED <<alive, lost, conn, control, opt, target, announced, files>>

\* setup() found no GPIO registers to map and its error is only printed: the
\* first register access of setAngle is a fault.
ServoTraps(h) ==
    /\ alive
    /\ pc[h] = "servo"
    /\ alive' = FALSE
    /\ UNCHANGED <<lock, pc, conn, request, files>>

-----------------------------------------------------------------------------
(* PHOTO *)

\* From the label NF: list files/ and send the list.
SendList(h) ==
    /\ alive
    /\ pc[h] = "list"
    /\ Deliver(h)
    /\ control' = [control EXCEPT ![h] = TRUE]
    /\ Goto(h, "name")
    /\ UNCHANGED <<alive, lock, conn, opt, target, announced, applied, files>>

\* opendir failed: ERROR_HELPER ends the process.
ListFails(h) ==
    /\ alive
    /\ pc[h] = "list"
    /\ alive' = FALSE
    /\ UNCHANGED <<lock, pc, conn, request, files>>

\* The name, then the comparison with the null pointer: equal repeats the list.
\* No name at all, when the peer has closed, is the Directory.
RecvName(h) ==
    /\ alive
    /\ pc[h] = "name"
    /\ \E n \in Names \cup {Directory} :
         /\ \/ conn[h] = "open" /\ n \in Names
            \/ conn[h] \in {"fin", "pipe"} /\ n = Directory
         /\ \/ /\ "equal" \in NullCompare
               /\ Goto(h, "list")
               /\ UNCHANGED target
            \/ /\ "differ" \in NullCompare
               /\ target' = [target EXCEPT ![h] = n]
               /\ Goto(h, "open")
    /\ UNCHANGED <<alive, lock, conn, control, opt, announced, applied, files>>

\* The comparison reads address 0, which is not mapped.
NullCompareTraps(h) ==
    /\ alive
    /\ pc[h] = "name"
    /\ conn[h] \in {"open", "fin", "pipe"}
    /\ "trap" \in NullCompare
    /\ alive' = FALSE
    /\ UNCHANGED <<lock, pc, conn, request, files>>

Exists(n) == n = Directory \/ (n \in Photos /\ size[n] # NoFile)

\* fopen, without the semaphore.  It also fails when no descriptor is left, and
\* then the picture is "not found" too.
OpenPicture(h) ==
    /\ alive
    /\ pc[h] = "open"
    /\ \/ Exists(target[h]) /\ Goto(h, "found")
       \/ Goto(h, "notFound")
    /\ UNCHANGED <<alive, lock, conn, request, files>>

\* "notfound", then back to NF with control cleared.
SendNotFound(h) ==
    /\ alive
    /\ pc[h] = "notFound"
    /\ Deliver(h)
    /\ control' = [control EXCEPT ![h] = FALSE]
    /\ Goto(h, "list")
    /\ UNCHANGED <<alive, lock, conn, opt, target, announced, applied, files>>

PhotoWait(h) ==
    /\ alive
    /\ pc[h] = "photoWait"
    /\ SemWait(h, "ready")
    /\ UNCHANGED <<alive, lost, conn, request, files>>

\* Any message counts as "ready", 0 bytes too; then fseek and ftell.  What a
\* directory's offset is depends on the file system.
RecvReady(h) ==
    /\ alive
    /\ pc[h] = "ready"
    /\ conn[h] \in {"open", "fin", "pipe"}
    /\ announced' = [announced EXCEPT
         ![h] = IF target[h] = Directory THEN 0 ELSE size[target[h]]]
    /\ Goto(h, "size")
    /\ UNCHANGED <<alive, lock, conn, control, opt, target, applied, files>>

\* Faulty: posts as soon as the size is sent.
BugSendSize(h) ==
    /\ alive
    /\ pc[h] = "size"
    /\ Deliver(h)
    /\ SemPost(h, "data")
    /\ UNCHANGED <<alive, lost, conn, request, files>>

\* The size is sent; then fread fills the array.  From a directory it reads
\* nothing: a positive size keeps the loop going for ever.
SendSize(h) ==
    /\ alive
    /\ pc[h] = "size"
    /\ Deliver(h)
    /\ \/ Goto(h, "data")
       \/ target[h] = Directory /\ Goto(h, "spin")
    /\ UNCHANGED <<alive, lock, conn, request, files>>

SendPicture(h) ==
    /\ alive
    /\ pc[h] = "data"
    /\ Deliver(h)
    /\ Goto(h, "photoPost")
    /\ UNCHANGED <<alive, lock, conn, request, files>>

\* A negative directory size makes write fail: the thread ends like any other
\* failed call.
SendDirectoryFails(h) ==
    /\ alive
    /\ pc[h] = "data"
    /\ target[h] = Directory
    /\ lost' = TRUE
    /\ EndThread(h)
    /\ UNCHANGED <<alive, sem, files>>

\* Faulty: a transfer that succeeds does not post.
BugPhotoPost(h) ==
    /\ alive
    /\ pc[h] = "photoPost"
    /\ Goto(h, "option")
    /\ EndRequest(h)
    /\ UNCHANGED <<alive, lock, conn, files>>

PhotoPost(h) ==
    /\ alive
    /\ pc[h] = "photoPost"
    /\ SemPost(h, "option")
    /\ EndRequest(h)
    /\ UNCHANGED <<alive, lost, conn, files>>

-----------------------------------------------------------------------------
(* SETTINGS *)

\* An unknown option falls through to the reply, with control still TRUE.
RecvSettingsOption(h) ==
    /\ alive
    /\ pc[h] = "settingsOption"
    /\ \E m \in Options \cup {"other", ""} :
         /\ Receives(h, Options \cup {"other"}, m)
         /\ IF m \in Settings
              THEN /\ opt' = [opt EXCEPT ![h] = m]
                   /\ Goto(h, "valuePrompt")
              ELSE /\ Goto(h, "settingsReply")
                   /\ UNCHANGED opt
    /\ UNCHANGED <<alive, lock, conn, control, target, announced, applied, files>>

\* Faulty: a value is not tested before the change.
BugRecvValue(h) ==
    /\ alive
    /\ pc[h] = "value"
    /\ \E m \in {"valid", "invalid", ""} :
         /\ Receives(h, {"valid", "invalid"}, m)
         /\ control' = [control EXCEPT ![h] = (m = "valid")]
         /\ Goto(h, "settingWait")
    /\ UNCHANGED <<alive, lock, conn, opt, target, announced, applied, files>>

\* The value, sorted by controlInput and the option's range.  The test for
\* contrast is an if of its own behind the other three: it looks at whatever
\* was received last, so the text "contrast" given as a value for another
\* setting is rejected and then taken for the option.
RecvValue(h) ==
    /\ alive
    /\ pc[h] = "value"
    /\ \E m \in {"valid", "invalid", "contrast", ""} :
         /\ Receives(h, {"valid", "invalid", "contrast"}, m)
         /\ control' = [control EXCEPT ![h] = (m = "valid")]
         /\ IF m = "contrast" /\ opt[h] # "contrast"
              THEN /\ opt' = [opt EXCEPT ![h] = "contrast"]
                   /\ Goto(h, "valuePrompt")
              ELSE /\ Goto(h, IF m = "valid" THEN "settingWait" ELSE "settingsReply")
                   /\ UNCHANGED opt
    /\ UNCHANGED <<alive, lock, conn, target, announced, applied, files>>

SettingWait(h) ==
    /\ alive
    /\ pc[h] = "settingWait"
    /\ SemWait(h, "setting")
    /\ UNCHANGED <<alive, lost, conn, request, files>>

\* Faulty: no sem_post after the change.
BugChangeSetting(h) ==
    /\ alive
    /\ pc[h] = "setting"
    /\ \E n \in {0, 1} : applied' = [applied EXCEPT ![h] = @ + n]
    /\ Goto(h, "settingsReply")
    /\ UNCHANGED <<alive, lock, conn, control, opt, target, announced, files>>

\* changeResolution, changeBrightness, changeExposure or changeContrast: it changes
\* the camera or fails, and its result is ignored.  The exposure never gets there.
ChangeSetting(h) ==
    /\ alive
    /\ pc[h] = "setting"
    /\ \E n \in {0, 1} :
         /\ applied' = [applied EXCEPT ![h] = @ + n]
         /\ n = 1 => opt[h] # "exposure"
    /\ SemPost(h, "settingsReply")
    /\ UNCHANGED <<alive, lost, conn, control, opt, target, announced, files>>

-----------------------------------------------------------------------------
(* Arrays of a fixed size *)

\* The list of the files is written behind the text in buf, however many there are.
ListOverflows(h) == pc[h] = "list"

\* The name received goes into path, which is a quarter as long.
NameOverflows(h) == pc[h] = "name" /\ conn[h] = "open"

\* What is in front of the last x of a resolution goes into eight bytes.
ValueOverflows(h) == pc[h] = "value" /\ opt[h] = "resolution" /\ conn[h] = "open"

\* One of the three runs out of the thread's stack, or a pointer it has overwritten
\* is used: the process ends.
OverflowTraps(h) ==
    /\ alive
    /\ ListOverflows(h) \/ NameOverflows(h) \/ ValueOverflows(h)
    /\ alive' = FALSE
    /\ UNCHANGED <<lock, pc, conn, request, files>>

-----------------------------------------------------------------------------
(* polling and takePhoto *)

\* Faulty: takePhoto without the semaphore.
BugPollWait ==
    /\ alive
    /\ pc[Poller] = "poll"
    /\ Goto(Poller, "capture")
    /\ UNCHANGED <<alive, lock, conn, request, files>>

PollWait ==
    /\ alive
    /\ pc[Poller] = "poll"
    /\ SemWait(Poller, "capture")
    /\ UNCHANGED <<alive, lost, conn, request, files>>

\* takePhoto failed before or after it had a file, or its file is complete:
\* polling posts and sleeps in every case, and no case removes the file.
PollPost ==
    /\ alive
    /\ pc[Poller] \in {"capture", "saving"}
    /\ SemPost(Poller, "sleep")
    /\ shot' = [photo |-> NoPhoto, written |-> 0]
    /\ UNCHANGED <<alive, lost, conn, request, size>>

\* A frame arrived and its file is opened without O_TRUNC.  The Pi keeps no
\* time while it is off, so a name may come back.
CreatePicture ==
    /\ alive
    /\ pc[Poller] = "capture"
    /\ \E p \in Photos :
         /\ size' = [size EXCEPT ![p] = IF @ = NoFile THEN 0 ELSE @]
         /\ shot' = [photo |-> p, written |-> 0]
    /\ Goto(Poller, "saving")
    /\ UNCHANGED <<alive, lock, conn, request>>

SavePicture ==
    /\ alive
    /\ pc[Poller] = "saving"
    /\ shot.written < Blocks
    /\ shot' = [shot EXCEPT !.written = @ + 1]
    /\ size' = [size EXCEPT ![shot.photo] =
                  IF @ < shot.written + 1 THEN shot.written + 1 ELSE @]
    /\ UNCHANGED <<alive, lock, pc, conn, request>>

\* sleep(10) is over.
PollWakes ==
    /\ alive
    /\ pc[Poller] = "sleep"
    /\ Goto(Poller, "poll")
    /\ UNCHANGED <<alive, lock, conn, request, files>>

-----------------------------------------------------------------------------
Network(h)  == PeerCloses(h) \/ PeerResets(h)

Session(h)  == \/ Accept(h) \/ CallFails(h) \/ SendRaisesSigpipe(h)
               \/ SendPrompt(h) \/ SendReply(h) \/ RecvOption(h) \/ Quit(h)
SetAngle(h) == RecvAngle(h) \/ AngleWait(h) \/ MoveServo(h) \/ ServoTraps(h)
Photo(h)    == \/ SendList(h) \/ ListFails(h) \/ RecvName(h)
               \/ NullCompareTraps(h) \/ OpenPicture(h) \/ SendNotFound(h)
               \/ PhotoWait(h) \/ RecvReady(h)
               \/ SendSize(h) \/ SendPicture(h) \/ SendDirectoryFails(h)
               \/ PhotoPost(h)
Setting(h)  == \/ RecvSettingsOption(h) \/ RecvValue(h) \/ SettingWait(h)
               \/ ChangeSetting(h)
Polling     == \/ PollWait \/ CreatePicture \/ SavePicture \/ PollPost
               \/ PollWakes

Next == \/ AcceptFails
        \/ Polling
        \/ \E h \in Handlers :
             \/ Session(h) \/ SetAngle(h) \/ Photo(h) \/ Setting(h)
             \/ OverflowTraps(h) \/ Network(h)

Spec == Init /\ [][Next]_vars

-----------------------------------------------------------------------------
(* Fairness *)

\* What a handler does without its client: every call but a recv on an open
\* connection and a sem_wait.
Runs(h) == \/ CallFails(h) \/ SendRaisesSigpipe(h) \/ Quit(h)
           \/ SendPrompt(h) \/ SendReply(h)
           \/ MoveServo(h) \/ SendList(h) \/ OpenPicture(h) \/ SendNotFound(h)
           \/ SendSize(h) \/ SendPicture(h) \/ PhotoPost(h) \/ ChangeSetting(h)
           \/ /\ conn[h] \in {"fin", "pipe"}
              /\ \/ RecvOption(h) \/ RecvAngle(h) \/ RecvName(h)
                 \/ NullCompareTraps(h) \/ RecvReady(h)
                 \/ RecvSettingsOption(h) \/ RecvValue(h)

\* The scheduler runs every thread that can run; a thread in sem_wait gets the
\* semaphore if it is posted again and again.
ServerFairness ==
    /\ WF_vars(Polling)
    /\ SF_vars(PollWait)
    /\ \A h \in Handlers :
         /\ WF_vars(Runs(h))
         /\ SF_vars(AngleWait(h) \/ PhotoWait(h) \/ SettingWait(h))

\* client.c answers "found" with "ready" at once.  No other prompt need ever
\* be answered.
ClientFairness == \A h \in Handlers : WF_vars(RecvReady(h))

FairSpec == Spec /\ ServerFairness /\ ClientFairness

-----------------------------------------------------------------------------
(* Properties *)

\* The semaphore is either free and nobody is between sem_wait and sem_post, or
\* held by exactly one thread, or lost for good with a thread that ended in
\* between: the camera, the servo and a transfer are never used by two threads
\* (sem_wait and sem_post of server.c and poll.c, and every exit between them).
SemaphoreAccounts ==
    \/ sem = 1 /\ ~lost /\ Holders = {}
    \/ sem = 0 /\ ~lost /\ \E t \in Threads : Holders = {t}
    \/ sem = 0 /\ lost  /\ Holders = {}

\* The size a handler has announced stays the size of the picture until the last
\* byte is read, although fopen came before sem_wait and polling may have been
\* saving that very picture then (server.c:315, 336, 361-408; takePhoto.c:195).
TransferIsStable ==
    \A h \in Handlers :
      pc[h] \in {"size", "data"} /\ target[h] \in Photos
        => announced[h] = size[target[h]]

\* "Invalid input!" means that the device was not touched, also when a rejected
\* value is taken for the option contrast, and no request changes it twice.  "Well
\* Done" promises less: the change may have failed, and for an unknown option there is
\* none (server.c:193-246, 512-745).
RefusalIsHonest ==
    \A h \in Handlers :
      /\ pc[h] = "angleReply" =>
           applied[h] <= IF control[h] THEN 1 ELSE 0
      /\ pc[h] = "settingsReply" =>
           applied[h] <= IF control[h] /\ opt[h] # "none" THEN 1 ELSE 0

\* The rest of the inductive invariant: an open picture stays in files/, and
\* the locals of a request fit the place the handler has reached in it.
PictureIsOpen ==
    /\ \A h \in Handlers :
         pc[h] \in {"found", "photoWait", "ready", "size", "data"}
           => target[h] \in Photos \cup {Directory} /\ Exists(target[h])
    /\ pc[Poller] = "saving" => shot.photo \in Photos /\ Exists(shot.photo)

RequestFits ==
    \A h \in Handlers :
      /\ pc[h] \notin {"angleReply", "settingsReply"} => applied[h] = 0
      /\ pc[h] \in {"angleWait", "servo"} => control[h]
      /\ pc[h] \in {"settingWait", "setting"} => control[h]
      /\ pc[h] \in {"valuePrompt", "value", "settingWait", "setting"}
           => opt[h] # "none"
      /\ pc[h] \in {"none", "welcome", "option", "settingsPrompt", "settingsOption"}
           => opt[h] = "none"

ServerInv == /\ TypeOK
             /\ PictureIsOpen
             /\ RequestFits
             /\ SemaphoreAccounts
             /\ TransferIsStable
             /\ RefusalIsHonest

\* The polling thread gets the camera again and again, as long as the process lives
\* (poll.c:11-22).
PicturesArePeriodic == []<>(pc[Poller] = "capture" \/ ~alive)

\* Nobody will post any more: a thread has ended in a transfer, because its client left
\* or had asked for files/ itself, or it reads files/ for ever.
Stuck == lost \/ \E h \in Handlers : pc[h] = "spin"

\* Until then it does: neither clients that leave nor ones that do not answer keep the
\* camera from polling (poll.c:11-22).
PollingGoesOn == []<>(pc[Poller] = "capture" \/ ~alive \/ Stuck)

\* Until then a handler that waits for the semaphore gets it, whatever other clients
\* leave unanswered outside a transfer (server.c:203, 336, 552).
WaiterIsServed ==
    \A h \in Handlers :
      pc[h] \in WaitLocs ~> (pc[h] \in HeldLocs \/ ~alive \/ Stuck)

\* Who has the camera, the servo and the pictures.
Owner == IF Holders # {} THEN CHOOSE t \in Threads : t \in Holders
         ELSE IF lost THEN "lost" ELSE "free"

Monitor == INSTANCE CameraMonitor WITH owner <- Owner, pictures <- size

\* What the semaphore is for: one owner at a time, pictures change only in the
\* polling thread's tenure and never shrink or vanish, and a handler that ends
\* as the owner leaves everyone without (server.c, poll.c).
ImplementsMonitor == Monitor!Spec
=============================================================================
