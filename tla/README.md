# Verification of the Raspberry Pi surveillance system

The repository holds two systems that drive one Raspberry Pi camera and one
servo.  `cVersion` is a TCP server in C with a text client; `WebVersion` is a set
of PHP pages, a Python script and shell scripts behind a web server, with two
JavaScript programs in the browser.  This directory models both systems in TLA+,
checks them with TLC and proves their safety properties with TLAPS.

## 1. Inventory

| Part | State it keeps | Operations | Talks to |
| --- | --- | --- | --- |
| Accept loop (`server.c` main) | listening socket | `accept`, create a handler thread; any failure ends the process (`ERROR_HELPER`) | handlers |
| Connection handler (`server.c` connection_handler), one thread per client | place in the dialogue, `control`, the setting, the open picture, `size` | SETANGLE, PHOTO, SETTINGS, QUIT; every failing `send` or `recv` ends the thread | client by TCP, camera, servo, `files/`, semaphore |
| Semaphore `Rasputin` | 0 or 1 | `sem_wait`, `sem_post` | handlers, polling |
| Polling (`poll.c`) | none | for ever: wait, `takePhoto`, post, sleep 10 s | camera, `files/` |
| Client (`client.c`) | place in the menu, the picture being received | the same four dialogues from the other side | user, handler |
| Camera (`takePhoto.c`, `setting.c`) | V4L2 device, mapped buffer | capture a frame into a file named by the time; set a control | kernel driver, `files/` |
| Servo (`setangle.c`, `soft_pwm.c`) | list of PWM structures, one thread for each running one | frequency, duty cycle, start, stop | GPIO registers |
| GPIO events (`event_gpio.c`) | lists of exported and watched channels | export, set edge, callbacks, clean up | `/sys/class/gpio`, epoll |
| GPIO registers and board (`gpio.c`, `common.c`, `cpuinfo.c`) | register map | set up, read, write; decode `/proc/cpuinfo` | `/dev/gpiomem` |
| Stream page (`utils.js`) | slider, text field, the stream shown | slide, type, Enter, let go, the photo button | `move.php`, `photo.php`, the motion service |
| Servo by CGI (`move.php`, `setAngle.py`), one process for each request | the pin's mode, its PWM | set up the pin, drive it for a second, clean up | GPIO, web server |
| Picture by CGI (`photo.php`, `takePhoto.sh`), one process for each request | none | stop the motion service, `raspistill`, start the service | motion service, camera |
| File browser (`scan.php`, `script.js`) | the scanned tree; the hash of the address, its history and events; `currentPath`, `breadcrumbsUrls`, the arrays `folders` and `files`, the class `searching` | render what the address names, click a folder or a breadcrumb, search, go back | browser |
| Films, downloads (`record.sh`, `prova.php`, `download.php`) | none | record for some seconds, send one file | not modelled, section 6 |

The parts of the C system share state in three ways: the handlers and polling
share the camera, the servo and `files/` under `Rasputin`; a handler and its
client share two byte streams; `setAngle` and its PWM thread share a list and its
structures without any lock.  In the web version each request is a process of its
own; they share the pin, the camera and the motion service, and no lock at all.  The
handlers of a page run one at a time, but each leaves work to an event that comes
later.

### What is hard here

* **One semaphore for everything.**  A handler holds it while it waits for its
  client (`server.c:340`), and three error exits between `sem_wait` and `sem_post`
  (346, 369, 393) end the thread without posting.
* **Two threads and one picture.**  `fopen` (315) comes before `sem_wait` (336);
  polling may be saving that very picture.
* **Clients that leave.**  A FIN is a `recv` of 0 bytes, which some prompts take
  for an answer; an RST fails the next call; a `send` after both is a SIGPIPE.
* **No framing.**  Messages carry no length and no kind; the two programs stay
  together only because each `send` is followed by a `recv`, except in one place
  (`notfound` and the list), and because each `recv` happens to return one message.
  A list longer than the 1024 bytes of the client's buffer does not come in one.
* **Arrays of a fixed size.**  The list grows by a name every 10 s and is written
  into 1024 bytes (`server.c:268`), a name into 256 (310), a width into 8 (531-544).
* **Threads that outlive their call.**  `pwm_stop` clears a flag; the PWM thread
  frees its structure some time later.
* **Descriptors that nobody closes.**  A list leaves its directory open, a transfer
  its picture, an angle `/dev/gpiomem`; a failure inside `takePhoto` leaves the
  device, and from `VIDIOC_REQBUFS` on its buffers with it.
* **State kept beside the address.**  The file browser shows what the hash says,
  but only when the event of the hash is handled; by then the address may be
  another one, and `currentPath`, `breadcrumbsUrls` and `searching` are what other
  handlers have made of them.
* **Scripts without locks.**  Two requests for a picture stop and start one
  service; two requests for an angle drive one pin, and the first to end makes it
  an input.  Requests and answers may be lost, and the pages handle neither.

The complete list, at its lines and with the properties that cover each, is in
`PROJECT.json` under `hazards`.

### What makes each part correct

* Server: one thread at a time uses camera, servo and pictures; an announced size
  is the size sent; what is refused has changed nothing; polling gets the camera again
  and again; a handler that waits is served.
* Session: the user is asked what the handler waits for; a picture arrives whole;
  no `recv` of the client waits for ever.
* Servo: one PWM thread at a time drives the pin; a structure is not used after
  it is freed; every PWM thread ends.
* Camera: what works leaves nothing open; a picture that was saved is whole; failures
  do not add up.
* Servo by CGI: the two inputs agree; the angle asked for is the angle set; the pin
  is released.
* Picture by CGI: who stops the motion service has it started again; a script that
  nobody disturbs finds the camera free.
* File browser: the folder shown is the one named in the address, the breadcrumbs
  lead where they say, and a search finds what matches, once.

## 2. Modules

| Module | Models | Runs |
| --- | --- | --- |
| `Server` | accept loop, handlers, semaphore, polling | with `MCServer`: `ServerSafety`, `ServerLive`, `ServerLeak` |
| `CameraMonitor` | abstract: one owner of the camera at a time, pictures only grow | implemented by `Server` |
| `ServerProofs` | theorems about `Server` | TLAPS |
| `Session` | one client program, its user, its handler, two byte streams | with `MCSession`: `SessionInStep`, `SessionNotFound` |
| `SoftPwm` | `setAngle`, the list of PWM structures on the heap, the PWM threads | `SoftPwmCalls`, `SoftPwmBackToBack` |
| `ServoMonitor` | abstract: one train of pulses after the other, each from rest to rest | implemented by `SoftPwm` |
| `Camera` | `takePhoto` and the settings call by call, and all descriptors of the server | `CameraDescriptors` |
| `FileBrowser` | `script.js`, the browser's history and events, the tree of `scan.php` | with `MCFileBrowser`: `FileBrowserPages`, `FileBrowserResults` |
| `Viewer` | abstract: a list that only a rendering changes, and that fits the address then | implemented by `FileBrowser` |
| `WebServo` | slider and text of `utils.js`, `move.php`, `setAngle.py` | with `MCWebServo`: `WebServoFollows` |
| `WebPhoto` | the photo button, `photo.php`, `takePhoto.sh`, the motion service | `WebPhotoScripts` |
| `SessionProofs`, `SoftPwmProofs`, `CameraProofs`, `FileBrowserProofs`, `WebServoProofs`, `WebPhotoProofs` | theorems about the module of that name | TLAPS |

Operators named `Bug...` are faulty forms of the operator that follows them.  No
specification uses them: they document which slip of the code a property catches
(`mutants` in `PROJECT.json`).

### Server

`pc` holds the call each thread is about to make, so each `send`, `recv`,
`sem_wait` and device access is one step, and those of different threads
interleave.  Locations are named for the call: `name` is the `recv` at
`server.c:290`, `photoWait` the `sem_wait` at 336, `ready` the `recv` at 342, and
so on.  The sets `SendLocs`, `RecvLocs` and `WaitLocs` say which kind of call it
is; `HeldLocs` are those between `sem_wait` and `sem_post`.

| Code | Actions |
| --- | --- |
| `accept`, `pthread_create` (808-839) | `Accept`, `AcceptFails` |
| main loop (127-175, 756-767) | `SendPrompt`, `RecvOption`, `Quit`, `CallFails`, `SendRaisesSigpipe` |
| SETANGLE (176-241) | `RecvAngle`, `AngleWait`, `MoveServo`, `ServoTraps`, `SendReply` |
| PHOTO (243-435) | `SendList`, `ListFails`, `RecvName`, `NullCompareTraps`, `OpenPicture`, `SendNotFound`, `PhotoWait`, `RecvReady`, `SendSize`, `SendPicture`, `SendDirectoryFails`, `PhotoPost` |
| SETTINGS (437-755) | `RecvSettingsOption`, `RecvValue`, `SettingWait`, `ChangeSetting`, `SendReply` |
| `poll.c`, `capture_image` of `takePhoto.c` | `PollWait`, `CreatePicture`, `SavePicture`, `PollPost`, `PollWakes` |
| TCP | `PeerCloses`, `PeerResets` |

Texts are sorted into the classes the code tells apart: a value is valid or
not, a name is a picture's, nobody's, or empty.  An empty name is what `recv`
leaves when the peer has closed; `fopen("files/")` then opens the directory
itself, and the code goes on to measure and send it.

`memcmp(buf, '\0', 1)` (302) compares with the null pointer.  What that does is
undefined; the constant `NullCompare` lists the outcomes, and the runs allow all
of them: trap, equal, different.

A call that uses a device changes it or fails, and the handler looks at no result:
`applied` counts the changes, and `MoveServo` and `ChangeSetting` may leave it as it
is.  `changeExposure` always does, as the value never reaches the camera
(`setting.c:108`).

Three arrays of the handler take texts of any length: the list (`server.c:268`), the
name (310) and the width of a resolution (531-544).  What is overwritten when the text
is longer is up to the build.  `OverflowTraps` has the outcome in which the process
ends, at each of the three places; an overwritten local or neighbour with which the
process goes on is not modelled.

Sizes are counted in `write` calls.  `SavePicture` never shrinks a file, as
`open` is called without `O_TRUNC`; a name may come back because the Pi has no
clock while it is off.

### Session

A stream is a sequence of messages.  A `recv` returns the first (`Whole`), several in
one (`Merged`, with `Coalesce`), or a piece (`Pieces`, with `Split`), of which `"rest"`
is left for the next `recv`; the run has both.  So a list that is longer than the 1024
bytes of the client's buffer (`client.c:133`), or that TCP delivers in parts, leaves a
rest that is read as the verdict (`client.c:171`).  What is left of a message is not
divided again: one rest puts the programs out of step as well as two.  A text that was
merged or cut equals none of the words the programs compare with, but a piece of a
number or of a name may be a good one (`Passes`).

The user may type anything the client lets pass, an empty line (a message of no bytes,
never sent), a setting that only starts like `resolution`, and `contrast` as a value
among it.  Each action of the handler is one `recv` and everything sent before the
next; each action of the client is one `recv` or one line typed by the user.  The size
is read by its four bytes; when they are not those of the size, the client expects any
number of blocks.  `write` takes all it is given, as it does on a blocking socket, so
the handler's loop (392-404) goes round once; `send_bytes` is never advanced there (393),
and after a short write the picture would be sent from its start.

The handler's semaphore is in `Server`.  Here it may delay an answer, or never come
(`SemaphoreNeverComes`, after which `served` is FALSE and the handler takes no further
step).

`orderly` is a history variable: every `recv` of the session has returned exactly one
message, and every text typed was one the programs can carry.  The properties say what
holds as long as it is TRUE, so they say at the same time that nothing else brings the
programs out of step.

### SoftPwm

`setAngle` is one thread at a time (that is `Server`'s `SemaphoreAccounts`), so it
is a program counter, `stage`.  Each call of `soft_pwm.c` is two steps: `FindPwm`
searches the list and makes a structure when there is none, then the structure is
used (`SetFrequency`, `SetDutyCycle`, `StartThread` or `StartFails`, `Stop`).
Between the two a PWM thread may do anything.  A PWM thread is asleep with the pin
low or high, or inside `remove_pwm`; `Cycle`, `EndPulse`, `LeaveLoop` and
`RemovePwm` are what it does between sleeps.  Memory is a set of cells with a flag
`live`; every access requires it, so the model stops where the code would use
freed memory, and `NoUseAfterFree` says that it never gets there.  `malloc` may
return a freed cell again.  Mapping the registers is assumed to work; `Server` has
the fault when it does not (`ServoTraps`).

Calls may follow each other at any distance.  A PWM thread sees the cleared flag within
a period, 20 ms; a call that comes earlier may be given its structure, which `FindPwm`
notes in `clash`, a history variable: `find_pwm` has returned, before `pwm_start` of
the call, the structure of a thread that has not ended.  From there on two threads may
drive the pin and freed memory may be used.  An earlier thread that has not been met in
this way frees its structure under the call and does no harm.

### Camera

`pc` is the call of `takePhoto` or of a function of `setting.c` that is next; one
thread at a time is there (`SemaphoreAccounts` again).  `open` counts the
descriptors of each kind, as those of one kind are alike, and `owner` says who has
the camera's buffers: the driver gives them to one descriptor, until it is closed.

| Code | Actions |
| --- | --- |
| `takePhoto` (215-244) and what it calls | `OpenDevice`, `QueryCaps`, `RequestBuffers`, `QueryBuffer`, `StartStream`, `DequeueFrame`, `CreatePicture`, `WritePicture`, `ClosePicture`, `Release` |
| its failures | `OpenDeviceFails`, `TakePhotoFails`, `ClosePictureFails` |
| the four functions of `setting.c`, of one shape | `OpenForSetting`, `ChangeSetting`, `ChangeSettingFails` |
| `accept`, `opendir`, `fopen`, the end of a thread (`server.c`) | `Accept`, `SendList`, `OpenPicture`, `EndThread` |
| `setup` (`gpio.c:60-134`) | `SetAngle` |

The result of `mmap` is not tested (`QueryBuffer`), nor is `select`'s 0
(`StartStream`).  A frame may have no bytes, and its file is then opened and closed
empty (`DequeueFrame`, `CreatePicture`).  `write` may take a part, and the loop goes on
(`WritePicture`).  A file has the blocks of the last picture and, behind them, those of
an older one that was longer.

### FileBrowser

A node of the tree is its path, a sequence of names.  `history`, `at` and `events`
are the browser's: its entries, the present one, and the `hashchange` events it has
queued.  Assigning `location.hash` (`SetHash`) adds an entry and an event; the
handler of an event, `goto`, reads the address there is by then.  The other
variables are the program's own, the class `searching` included.  `found` and
`shown` count how often a node is in the arrays `folders` and `files` and on the
screen.

| Code (`script.js`) | Actions and operators |
| --- | --- |
| answer of `scan.php`, first `goto` (7-28) | `ScanReturns`; when it throws, no other handler is registered: `stage = "crippled"` |
| event and `goto` (18-28, 139-194) | `HashChange`: `GotoSearch`, `GotoPath`, `GotoRoot` or `GotoThrows` |
| search box (31-96) | `OpenSearch`, `InputTerm`, `InputNothing`, `FocusOut` |
| clicks (99-136) | `ClickFolder`, `ClickCrumb` |
| `searchByPath` (207-226) | `Descend`, `Walk`, `SearchByPath` |
| `searchData` (229-249), `render` (252-376) | `SearchData`; `Render`, with `Link` and `Drawn` for the `forEach` over the breadcrumbs |
| Back, Forward, an address typed by the user | `Navigate`, `EnterAddress` |

`searchByPath` skips a name that is not there, and a file has no items: both are in
`Descend`, and what follows from them in `Throws`.  A click may look up a breadcrumb
that was cut off by the click before; `Hole` and `Undefined` are what JavaScript
makes of it.

### WebServo

| Code | Actions |
| --- | --- |
| slider and text (`utils.js` 8-34) | `Slide`, `MouseUp`, `Type`, `Enter`, which may `Refuse` |
| `move()`, `move.php` | `Post`, `MovePhp`, `MoveIsLost` |
| `setAngle.py` | `SetupPin`, `Drive`, `HoldEnds`, `CleanUp` |

Each request is a process (`move`); the pin's mode, `output`, is shared.  `clear` says
that nobody else has used the pin since the process set it up: only then is it
known where its pulses leave the servo.  The division of Python 2 is modelled by what
it does.

A text of the field is a form and a number.  It is compared by JavaScript (`InScale`)
and then taken by the range input by other rules (`Taken`): a whole number is one to
both; a fraction is one to both, but the input has steps of 1 and rounds it; `+45`,
` 45` or `0x2d` are numbers to JavaScript and nothing to the input, which goes to its
middle, 0; blanks are 0 to JavaScript and again nothing to the input; any other text is
refused.  What was accepted stays in the field as it was typed, so for the middle three
the field and the slider differ, and `PageAgrees` says how.

### WebPhoto

| Code | Actions |
| --- | --- |
| photo button (`utils.js` 36-40), `photo.php` | `ClickPhoto`, `PhotoIsLost`, `Refresh`, `AnswerIsLost` |
| `takePhoto.sh`, line by line | `StopMotion`, `StillStarts`, `StillFails`, `StillEnds`, `StartMotion` |
| the motion service | `MotionReady` |

The camera has one owner: the service or one `raspistill`.  The service starts when
the camera is free, some time after `service motion start`.  `raspistill` may fail
whoever has the camera, before it takes it (`StillFails`) or while it has it
(`StillEnds`), and the script goes on in either case; so no picture is promised, only
that the camera is free for a script that is alone (`CameraIsThere`).

## 3. Runs

| Run | Instance | What it shows |
| --- | --- | --- |
| `server_safety` | 2 connections, the client of one may leave or be cut off at any call; 1 picture name, 2 blocks; all outcomes of `NullCompare`; 746 thousand states | `TypeOK`, `SemaphoreAccounts`, `TransferIsStable`, `RefusalIsHonest`, `ImplementsMonitor` |
| `server_live` | 2 connections, the client of one may leave; all names; 2 of the 4 settings, 1 block; 337 thousand states | until a thread ends in a transfer or reads `files/` for ever, polling gets the camera again and again (`PollingGoesOn`) and a waiting handler is served (`WaiterIsServed`) |
| `server_leak` | 1 connection, whose client may leave; no empty name | **violated** (`PicturesArePeriodic`): a client that leaves during its transfer keeps the camera from polling for ever |
| `session_in_step` | messages merged and cut; every text; a semaphore that may never come; pictures of up to 2 blocks; 58 thousand states | until something but one message is received or a text is typed that cannot be carried: `TypeOK` (always), `InStep`, `PictureIsWhole`, `MessagesAreUnderstood`, `OrderlyRecvsAreAnswered` |
| `session_not_found` | messages merged but not cut; only texts that can be carried; pictures of up to 3 blocks | **violated** (`EveryRecvIsAnswered`): `notfound` read together with the list leaves client and handler waiting for each other |
| `soft_pwm_calls` | 4 cells, 2 threads; calls at any distance; thread creation may fail; 16 thousand states | `TypeOK` and `ListIsExact`; until a call is given the structure of a thread that is ending: `NoUseAfterFree`, `DrivenUntilClash`, `ThreadsEnd`, `PulsesEnd`, `ImplementsMonitor` |
| `soft_pwm_back_to_back` | 2 cells, 2 threads; the same calls, nothing excepted | **violated** (`ServoIsDriven`): two threads drive the servo |
| `camera_descriptors` | 5 descriptors, 2 names, 2 blocks, 1 connection; any call may fail; 675 thousand states | `TypeOK`, `NothingIsKept`, `SavedIsWhole`, `CameraSurvives` |
| `file_browser_pages` | a tree of depth 3; opened at no hash, a folder, a file, a search, a malformed search; 3 entries of history, 2 events; 403 thousand states | `TypeOK`, `FolderIsShown`, `NothingIsMissing`, `CrumbsLead`, `FolderAppears`, `ImplementsViewer` |
| `file_browser_results` | the same, one event at a time, no address entered | **violated** (`ResultsAreExact`): Back to a search lists its matches again |
| `web_servo_follows` | the ends, the middle and the edges of the steps of the scale; texts of every form in and around the scale; 2 requests at a time; 593 thousand states | `TypeOK`, `PageAgrees`, `ServoFollows`, `PinIsReleased` |
| `web_photo_scripts` | 3 requests at a time from 2 pages, requests and answers may be lost, `raspistill` may fail; 6 thousand states | `TypeOK`, `MotionIsOwed`, `CameraIsThere`, `MotionComesBack` |

**The abstract specifications.**  `CameraMonitor` sees of `Server` who is between
`sem_wait` and `sem_post`, and the pictures: a picture grows by blocks, in the polling
thread's tenure only.  `ServoMonitor` sees of the list, the heap and the threads of
`SoftPwm` only whether there are pulses and how wide.  A train of pulses that is on is
disturbed by nobody, and while one has not ended no other begins; a call that catches
one while it is ending (`Catch`) is the only way to lose that, and what
`soft_pwm_back_to_back` goes on to show.  `Viewer` sees of the file browser its address,
its list, the place the next click builds on, and whether an event is to come: a handler
may move the place ahead of the list only if it leaves an event, and a rendering that
fails changes neither.

**Why the bounds are enough.**  Handlers share nothing but the semaphore and `files/`;
two handlers and the poller give every pair of contenders, and three threads are enough
for one to wait while another waits behind it.  One picture name is enough to have the
picture being sent be the picture being saved, and a second name (`NoPhoto`) stands for
every name that is absent.  Two blocks let a transfer start with a file that is partly
written.  `server_live` has one block and two settings: liveness does not depend on how
long a picture is, and brightness and exposure take the same steps as contrast, while
resolution has the array of its own; names and clients are as in
`server_safety`.  `server_leak` leaves the empty name out, which would lose the
semaphore without anybody leaving; the run is to show the client.  The safety theorems
hold for all values of these constants.  For the servo, two threads are the old one and
the new one, and four cells let every call up to the sleep of `setAngle` make a
structure of its own, should the list lose them.

A session is sequential on both sides.  Two blocks are enough for one to be read with
the other and without it, and for a first and a last one; the theorems have any
number.  `MaxUnread` stops the user from typing on while more than one message is unread
in either direction; it matters only when the programs are out of step already, since
before that nothing is unread when the user is asked (`InStep`), and keeps the streams
finite there.  For `Camera`, five descriptors let a picture (two of them) meet a
connection and what two lists, transfers or angles have left, so that each call can be
the one that finds none; two names give one that comes back and one that does not.  For
`FileBrowser`, depth 3 is the least with a breadcrumb that is neither the first nor the
last; three entries of history let one be cut off by a click after Back; with two events
one can be about an address that was left; one term matches at two depths, one only the
root, one is no regular expression.  The positions of `WebServo` are those where the
division changes its value; the texts have, for each form, a number of the scale and the
first one off each end.  Three scripts of `WebPhoto` are one that stops the service, one
that takes its picture and one that starts the service.  The safety properties of all
seven modules are proved for any of these constants.

**What is promised until when.**  Three groups of properties hold up to an event that
the code does not prevent, and each module records the event in its state, so that the
runs and the theorems have every behaviour in them, those after the event too: `lost`
or a handler that spins in `Server` (`Stuck`), `orderly` in `Session`, `clash` in
`SoftPwm`.  The runs `server_leak`, `session_not_found` and `soft_pwm_back_to_back`
show that the events come.  `PollingGoesOn` is weaker than "pictures are taken":
a call of `takePhoto` may fail, and a failure while it has the buffers fails all that
follow (`Camera`).

**Fairness.**  `ServerFairness` says that Linux runs a thread that can run (weak
fairness of each thread's own steps; nothing is assumed of a `recv` on an open
connection), and that a thread in `sem_wait` gets the semaphore when it is posted again
and again (strong fairness).  The latter is an assumption: glibc wakes a waiter at each
post but lets a newcomer overtake it.  It is what the code relies on, as it never yields
on purpose except in polling, which sleeps 10 s.  `ClientFairness` says that a client
answers `found` with `ready`, as `client.c:179-186` does without asking its user; it is
needed because the handler holds the semaphore meanwhile.  No other prompt is ever
assumed to be answered. Both liveness properties allow for the end of the process, which
the code takes in many places, and for `Stuck`.  In `Session`, the client runs when it
can, and so does the handler until the semaphore never comes (`served`), which may be at
any place where it waits for it; the user need not type anything.  In `SoftPwm`, sleeps
end and every thread runs; nobody need ask for an angle.  In `FileBrowser`, the browser
handles the events it has queued; users need not do anything.  In `WebPhoto`, a script
that began runs to its end, its answer arrives or is lost, and a service that starts
gets the camera when it is free; nothing is assumed of clicks, and `MotionComesBack`
speaks of runs in which pictures are asked for no more.  `Camera` and `WebServo` have
only safety properties.

**Deadlock** is not checked in most runs: the server may end (`alive` is FALSE), a
session may be over or waiting for its user, and a page whose handlers were never
registered may have no history to go back to.  It is checked in `web_photo_scripts` and
`web_servo_follows`.

## 4. Proofs

`ServerProofs` proves, for any set of connections, pictures and names, any number
of blocks and any subset of the outcomes of `NullCompare`:

| Theorem | States |
| --- | --- |
| `TypeCorrect` | `Spec => []TypeOK` |
| `MutualExclusion` | `Spec => []SemaphoreAccounts` |
| `StableTransfers` | `Spec => []TransferIsStable` |
| `HonestRefusals` | `Spec => []RefusalIsHonest` |
| `Implementation` | `Spec => ImplementsMonitor` |

`SoftPwmProofs` proves, for any heap and any number of threads:

| Theorem | States |
| --- | --- |
| `TypeCorrect` | `Spec => []TypeOK` |
| `NothingIsLost` | `Spec => []ListIsExact` |
| `NothingFreedIsUsed` | `Spec => []NoUseAfterFree` |
| `TheServoIsDriven` | `Spec => []DrivenUntilClash` |
| `ServoImplementsMonitor` | `Spec => ImplementsMonitor` |

All five are about calls at any distance.  The first two hold behind a clash too, but
only as far as the model goes: it stops at the first use of freed memory.

`SessionProofs` proves, for pictures of any number of blocks, any texts, and streams
that are merged, cut, both or neither:

| Theorem | States |
| --- | --- |
| `TypeCorrect` | `Spec => []TypeOK` |
| `ProgramsAgree` | `Spec => []InStep` |
| `PicturesAreWhole` | `Spec => []PictureIsWhole` |
| `RecvsUnderstand` | `Spec => MessagesAreUnderstood`, an action property |

`CameraProofs`, for any number of descriptors, connections, names and blocks:

| Theorem | States |
| --- | --- |
| `TypeCorrect` | `Spec => []TypeOK` |
| `NoLeakWithoutFailure` | `Spec => []NothingIsKept` |
| `SavedPicturesAreWhole` | `Spec => []SavedIsWhole` |
| `FailuresDoNotAddUp` | `Spec => []CameraSurvives` |

`FileBrowserProofs`, for trees of any depth, any terms and addresses, and any bounds
on history, events and breadcrumbs:

| Theorem | States |
| --- | --- |
| `TypeCorrect` | `Spec => []TypeOK` |
| `TheFolderIsShown` | `Spec => []FolderIsShown` |
| `NoMatchIsMissing` | `Spec => []NothingIsMissing` |
| `BreadcrumbsLead` | `Spec => []CrumbsLead` |
| `PageImplementsViewer` | `Spec => ImplementsViewer` |

`WebServoProofs`, for all positions and texts and any number of requests:

| Theorem | States |
| --- | --- |
| `TypeCorrect` | `Spec => []TypeOK` |
| `InputsAgree` | `Spec => []PageAgrees` |
| `ThePinIsReleased` | `Spec => []PinIsReleased` |
| `TheServoFollows` | `Spec => []ServoFollows` |

`WebPhotoProofs`, for any number of pages and requests:

| Theorem | States |
| --- | --- |
| `TypeCorrect` | `Spec => []TypeOK` |
| `ServiceIsOwed` | `Spec => []MotionIsOwed` |
| `AloneFindsCamera` | `Spec => []CameraIsThere` |

These are all the invariants the passing runs check, their one action property and their
three refinements.

**Assumptions.**  Only those the modules state by name: in `Server` the poller is not a
handler, the picture names, the name of nothing and the empty name differ, the settings
are some of the four, and there is at least one block; in `SoftPwm` `Null` is no cell;
in `FileBrowser` the nodes form a tree, and an address has at least one name; in
`WebServo` positions are on the scale, and blanks and texts that are no numbers are
written with the number 0; in `WebPhoto` owners differ; elsewhere, bounds are numbers
and switches are Booleans.  No theorem has a premise besides.

The argument for `Server` is one inductive invariant, `ServerInv`.  The wanted
properties are not inductive alone.  `TransferIsStable` needs `SemaphoreAccounts` (while
a handler is in its transfer the poller is not saving), and it needs `PictureIsOpen` (a
picture that was found is still there when it is measured: `size` would otherwise be
`NoFile`, and `announced` out of its type). `RefusalIsHonest` needs `RequestFits`:
nothing has been done before the device is reached, and only a valid value reaches it.

The step is split by what an action does, not only by which action it is.  For
the semaphore every action is one of five moves of a thread: it stays on its
side of `sem_wait` (`Stays`), passes `sem_wait` (`Enters`), passes `sem_post`
(`Leaves`), ends in between (`Dies`), or leaves every `pc` alone (`Grows`).
`LockSteps` sorts the actions; `AccountsStep` follows from the sorting alone, and
the same sorting proves each step a step of `CameraMonitor` (`MonitorStep`), where
`ChooseOnly` identifies `Owner` with the one holder.

For `SoftPwm` there are two invariants.  `HeapInv`, the types and the list, holds
however the calls come: a structure that is used is live, so it is the one of the
list, and whoever frees it unlinks it in the same step (`UseStep`, `ThreadHeap`).  Until
a clash, `PwmInv` adds that there is one PWM thread at most and that it and `setAngle`
use the structure of the list (`OneUser`); that no thread is left from the first
`find_pwm` of a call to its `pwm_start`, for an earlier one would have been found, which
is a clash, or has ended and taken its structure with it; and that the thread leaves its
loop only when `setAngle` has finished with the structure (`CallFits`: the flag is up
from `pwm_start` to `pwm_stop`).  A thread of an earlier call may still free its
structure while the call is before that first `find_pwm`, and `FindPwmStep` is where
the two cases part.  `NoUseAfterFree` and `ServoIsDriven` follow.  For the refinement,
`PulsesKnown` says that there are pulses exactly from `pwm_start` to `pwm_stop` of a call
that could create its thread, `DutyFits` that they are at rest at both ends, and
`ClashPulses` that a clash happens only to a train that is ending.

For `Session` the invariant is `SessionInv`.  Of an orderly session it is the dialogue
itself: for every place of the client, where the handler may be and what is on its way
(`Dialogue`), and how much of the picture has come (`Account`).  Of any session it is
the types, and that no more is read of a picture than was asked for (`Reading`); the
types of streams that may hold anything are most of the work (`RecvType`, `ClientTypes`,
`HandlerTypes`).  `WasOrderly` says that a step which ends orderly began so, and
`OneMessage` and `TwoMessages` what a whole message is that a `recv` returns; nothing
else of the dialogue's proof knows of streams.  `RecvsUnderstand` follows from the
dialogue: what is on its way to the client is always for the `recv` it waits in
(`MeantFor`).

For `Camera` it is `CameraInv`: a call has the device open behind its first step, the
file while it writes, the buffers from `VIDIOC_REQBUFS` on (`CallHolds`); without a
failure there is nothing else (`NoLeak`); the buffers are lost by a call that failed
while it had them and by no other (`LateLoses`), which is what `CameraSurvives` takes;
`FileFits` says how far the picture has got.  `OpensOne` and `ClosesOne` keep the sum of
the descriptors in its limit.

For `WebServo` it is `ServoInv`.  `ServoFollows` is about the last request posted; what
makes it inductive is what a request that is alone has achieved at each of its steps
(`AloneDrives`), with the arithmetic of the duty cycle in `DutyStands`.  `TakenFits` says
what the range input makes of a text that JavaScript accepts, of each form.  For
`WebPhoto` it is `PhotoInv`: `MotionIsOwed` is inductive with the types, and
`CameraIsThere` takes that a script that is alone has no other beside it and finds the
service off, not starting (`AloneFits`).

The proof for `FileBrowser` has three parts.  The loops of `searchByPath` and `forEach`
are recursive functions, and induction over data is out of the prover's reach as a
theorem of its library; so each fact about them is proved by its least counterexample,
which `Smallest` gives from the well-foundedness of `<` on `Nat`.  First that the loop
has a value at all (`LoopExists`), then that after `i` rounds it holds the items of the
folder of the first `i` names: `FoldersAreFound`.  The second part is `BrowserInv`: the
types and `PageFits`, which says that once no event waits, list, `currentPath`,
breadcrumbs and results are what `goto` makes of the address.  While an event waits they
may be anything; an assignment of the hash either queues an event or finds the hash
unchanged (`SetsHash`), and the second is the case with the work.  A click there would
leave `currentPath` or `breadcrumbsUrls` changed with no event to come; it cannot
happen, because a folder is not in its own list (`FolderLeadsAway`) and a breadcrumb
that is a link has fewer names than the address (`CrumbLeadsAway`).  The third part is
the refinement.  It needs the same of addresses at which `goto` throws, where
`BrowserInv` says nothing: no breadcrumb leads to one of them (`LinksAreOpen`), since
whatever is on the way to a path that has a list has one itself (`ListedGoUp`: once the
loop of `searchByPath` has left the lists it does not come back).

Only model-checked, as liveness is beyond the prover: `PollingGoesOn`,
`WaiterIsServed`, `OrderlyRecvsAreAnswered`, `ThreadsEnd`, `PulsesEnd`, `FolderAppears`,
`MotionComesBack`.

## 5. Disagreements between the code and its documents

1. A client that leaves during a transfer stops polling and every other client
   (`server.c:346-354`, `369-377`, `393-402`; run `server_leak`).
2. `notfound` and the list may be received as one message; client and handler
   then wait for each other (`server.c:421`, `client.c:171`; run `session_not_found`).
3. `memcmp` with the null pointer (`server.c:302`).
4. `pwm_stop` returns before the PWM thread has stopped; angles asked for back to
   back give the servo two threads (`soft_pwm.c:213`; run `soft_pwm_back_to_back`).
5. The check marked `//not RESOLUTION` compares 4 bytes (`client.c:266`).
6. The exposure value never reaches the camera: the second `ioctl` is given the mode
   again (`setting.c:108`).
7. `empty("0")` holds in PHP: the middle of the slider is never sent to the servo
   (`move.php:3`).  `ServoFollows` leaves the angle 0 out.
8. The results of a search are emptied only by typing: Back to a search lists them
   once more (`script.js:153`; run `file_browser_results`).
9. The address of a folder that is gone shows the last folder on its way that
   exists, under the breadcrumbs of the missing one; the address of a file throws
   (`script.js:215`).
10. At an address without a hash the root is pushed to breadcrumbs that are never
    emptied (`script.js:190`).  `CrumbsLead` is about addresses with a path.
11. Back from a search to a folder leaves the class `searching`: the folder appears
    as search results without breadcrumbs (`script.js:167`).
12. "Well Done" is said of every good value, whether the device changed or not: the
    results of `setAngle` and of the settings are ignored (`server.c:212`, 559, 617, 674,
    730), and an unknown setting gets it too.  `RefusalIsHonest` claims only what
    "Invalid input!" means.
13. The prompts offer brightness and contrast from 1 to 100 and exposure from 1 to 1000
    (`server.h:57-59`); the handler takes 1 to 255 for all three (`server.c:606`, 663,
    719).
14. The rest of a list that is longer than the client's buffer, or that arrives in
    pieces, is taken for the verdict on the next name (`client.c:133`, 171).
15. A failure of `takePhoto` from `VIDIOC_REQBUFS` on keeps the buffers, and no picture
    follows, although polling is to take them for ever (`takePhoto.c:231`, `poll.c:10`).
16. `+45`, `0x2d` or blanks pass the page's check of the angle and stay in the field
    while the slider, and the angle posted, are 0; a fraction is rounded
    (`utils.js:23`).

## 6. Not modelled

* A device or file system call that never returns, and memory that runs out
  inside a handler.
* What follows when one of the handler's arrays is written over its end and the process
  does not end (`server.c:268`, 310, 531-544).
* The handling of SIGINT by either program.  A client that disappears this way
  is a client that leaves, which `Server` has.
* The text of lists and prompts, the log file of the client, the startup of
  the server before its accept loop (an error there ends the process).
* `event_gpio.c`: the server calls only `event_cleanup`, on lists to which nothing
  ever adds, so none of its operations can happen in either program.  `cpuinfo.c`:
  nothing calls it.
* The arithmetic of the GPIO registers: it changes no state of the programs.
* `record.sh` and `prova.php`, which no page and no script calls, and `download.php`,
  which reads one file and keeps no state.
* Names with `=` in the file browser, which `split('=')` would cut; sizes, icons,
  escaping and animation of its list.
* The static pages, the styles and the vendored jQuery, of which only the order of
  events is used.

## 7. Plan

Done: `Server`, `Session`, `SoftPwm`, `Camera`, `FileBrowser`, `WebServo`, `WebPhoto`,
each with its runs, and proofs of all their invariants; `CameraMonitor`,
`ServoMonitor` and `Viewer`, with proofs that the detailed modules implement them.

Left, in this order:

1. An abstract dialogue for `Session` to implement, of requests and answers without
   streams, and a camera that is lent and given back for `WebPhoto`.
2. In `Session`, pieces of pieces, and what each program does with them once they are
   out of step, to see which of these sessions can still come to an end.
3. `EventGpio`, should a program come to use edges and callbacks.
