---------------------------- MODULE CameraMonitor ----------------------------
(***************************************************************************)
(* What the semaphore Rasputin promises, without threads' programs: the    *)
(* camera, the servo and the pictures have one owner at a time.  Only the  *)
(* polling thread, while it is the owner, changes pictures; a picture only *)
(* grows and none is removed.  A handler may also die as the owner, and    *)
(* then nobody owns the camera again.                                      *)
(***************************************************************************)
EXTENDS Naturals

CONSTANTS Handlers, Poller, Photos, Blocks

VARIABLES owner,      \* a thread, "free", or "lost"
          pictures    \* blocks of every picture, Blocks + 1 when absent

Threads == Handlers \cup {Poller}
Absent  == Blocks + 1

Init == /\ owner = "free"
        /\ pictures \in [Photos -> {Blocks, Absent}]

Acquire == /\ owner = "free"
           /\ owner' \in Threads
           /\ UNCHANGED pictures

Release == /\ owner \in Threads
           /\ owner' = "free"
           /\ UNCHANGED pictures

Lose == /\ owner \in Handlers
        /\ owner' = "lost"
        /\ UNCHANGED pictures

Capture == /\ owner = Poller
           /\ \E p \in Photos, n \in 0 .. Blocks :
                /\ pictures[p] = Absent \/ pictures[p] <= n
                /\ pictures' = [pictures EXCEPT ![p] = n]
           /\ UNCHANGED owner

Next == Acquire \/ Release \/ Lose \/ Capture

Spec == Init /\ [][Next]_<<owner, pictures>>
=============================================================================
