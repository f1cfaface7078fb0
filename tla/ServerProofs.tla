---------------------------- MODULE ServerProofs ----------------------------
(***************************************************************************)
(* Proofs about Server for any number of connections, any set of picture   *)
(* names, any length of a picture and any behaviour of the clients.        *)
(*                                                                         *)
(* ServerInv is inductive.  Its parts are proved one after the other, one  *)
(* step per action.  How a step treats the semaphore is classified once,   *)
(* in LockSteps; the accounts of the semaphore and the implementation of   *)
(* CameraMonitor follow from that classification alone.                    *)
(***************************************************************************)
EXTENDS Server, TLAPS

USE DEF PollLocs, SendLocs, RecvLocs, WaitLocs, HeldLocs, HandlerLocs

-----------------------------------------------------------------------------
(* Actions that receive *)

\* The main loop goes to one of five places, and a recv changes no local.
LEMMA RecvOptionStep ==
  ASSUME NEW h \in Handlers, RecvOption(h)
  PROVE  /\ alive /\ pc[h] = "option"
         /\ \E loc \in {"anglePrompt", "list", "settingsPrompt", "quit", "option"} :
              pc' = [pc EXCEPT ![h] = loc]
         /\ UNCHANGED <<alive, lock, conn, request, files>>
  <1>1. PICK m : pc' = [pc EXCEPT ![h] = AfterOption(m)]
    BY DEF RecvOption, Goto
  <1>2. AfterOption(m) \in {"anglePrompt", "list", "settingsPrompt", "quit", "option"}
    BY DEF AfterOption
  <1> QED
    BY <1>1, <1>2 DEF RecvOption

\* An angle is accepted and the handler waits, or it is refused.
LEMMA RecvAngleStep ==
  ASSUME NEW h \in Handlers, RecvAngle(h)
  PROVE  /\ alive /\ pc[h] = "angle"
         /\ \/ /\ control' = [control EXCEPT ![h] = TRUE]
               /\ pc' = [pc EXCEPT ![h] = "angleWait"]
            \/ /\ control' = [control EXCEPT ![h] = FALSE]
               /\ pc' = [pc EXCEPT ![h] = "angleReply"]
         /\ UNCHANGED <<alive, lock, conn, opt, target, announced, applied, files>>
  <1>1. PICK m : /\ control' = [control EXCEPT ![h] = (m = "valid")]
                 /\ Goto(h, IF m = "valid" THEN "angleWait" ELSE "angleReply")
    BY DEF RecvAngle
  <1>2. CASE m = "valid"
    <2>1. (m = "valid") = TRUE
      BY <1>2
    <2> QED
      BY <1>1, <1>2, <2>1 DEF RecvAngle, Goto
  <1>3. CASE m # "valid"
    <2>1. (m = "valid") = FALSE
      BY <1>3
    <2> QED
      BY <1>1, <1>3, <2>1 DEF RecvAngle, Goto
  <1> QED
    BY <1>2, <1>3

\* A setting is chosen, or the option is unknown and goes straight to the reply.
LEMMA RecvSettingsOptionStep ==
  ASSUME NEW h \in Handlers, RecvSettingsOption(h)
  PROVE  /\ alive /\ pc[h] = "settingsOption"
         /\ \/ /\ \E s \in Settings : opt' = [opt EXCEPT ![h] = s]
               /\ pc' = [pc EXCEPT ![h] = "valuePrompt"]
            \/ /\ opt' = opt
               /\ pc' = [pc EXCEPT ![h] = "settingsReply"]
         /\ UNCHANGED <<alive, lock, conn, control, target, announced, applied, files>>
  <1>1. PICK m : IF m \in Settings
                   THEN opt' = [opt EXCEPT ![h] = m] /\ Goto(h, "valuePrompt")
                   ELSE Goto(h, "settingsReply") /\ UNCHANGED opt
    BY DEF RecvSettingsOption
  <1> QED
    BY <1>1 DEF RecvSettingsOption, Goto

\* A value is accepted, refused, or refused and taken for the option contrast.
LEMMA RecvValueStep ==
  ASSUME NEW h \in Handlers, RecvValue(h)
  PROVE  /\ alive /\ pc[h] = "value"
         /\ \/ /\ control' = [control EXCEPT ![h] = TRUE]
               /\ pc' = [pc EXCEPT ![h] = "settingWait"]
               /\ opt' = opt
            \/ /\ control' = [control EXCEPT ![h] = FALSE]
               /\ pc' = [pc EXCEPT ![h] = "settingsReply"]
               /\ opt' = opt
            \/ /\ control' = [control EXCEPT ![h] = FALSE]
               /\ pc' = [pc EXCEPT ![h] = "valuePrompt"]
               /\ opt' = [opt EXCEPT ![h] = "contrast"]
         /\ UNCHANGED <<alive, lock, conn, target, announced, applied, files>>
  <1>1. PICK m : /\ control' = [control EXCEPT ![h] = (m = "valid")]
                 /\ IF m = "contrast" /\ opt[h] # "contrast"
                      THEN opt' = [opt EXCEPT ![h] = "contrast"] /\ Goto(h, "valuePrompt")
                      ELSE /\ Goto(h, IF m = "valid" THEN "settingWait" ELSE "settingsReply")
                           /\ UNCHANGED opt
    BY DEF RecvValue
  <1>2. CASE m = "valid"
    <2>1. (m = "valid") = TRUE
      BY <1>2
    <2> QED
      BY <1>1, <1>2, <2>1 DEF RecvValue, Goto
  <1>3. CASE m # "valid"
    <2>1. (m = "valid") = FALSE
      BY <1>3
    <2> QED
      BY <1>1, <1>3, <2>1 DEF RecvValue, Goto
  <1> QED
    BY <1>2, <1>3

-----------------------------------------------------------------------------
(* The semaphore *)

\* A step with respect to the semaphore and the pictures: it lets the holders be,
\* and then at most the polling thread changes a picture; or one thread enters,
\* leaves, or ends in between.
Grows == /\ Poller \in Holders
         /\ \E p \in Photos, n \in 0 .. Blocks :
              /\ size[p] = NoFile \/ size[p] <= n
              /\ size' = [size EXCEPT ![p] = n]
Stays     == /\ Holders' = Holders /\ sem' = sem /\ lost' = lost
             /\ size' = size \/ Grows
Enters(t) == /\ t \notin Holders /\ Holders' = Holders \cup {t}
             /\ sem > 0 /\ sem' = sem - 1 /\ lost' = lost /\ size' = size
Leaves(t) == /\ t \in Holders /\ Holders' = Holders \ {t}
             /\ sem' = sem + 1 /\ lost' = lost /\ size' = size
Dies(t)   == /\ t \in Holders \cap Handlers /\ Holders' = Holders \ {t}
             /\ sem' = sem /\ lost' = TRUE /\ size' = size
LockStep  == Stays \/ \E t \in Threads : Enters(t) \/ Leaves(t) \/ Dies(t)

\* A jump makes the thread a holder or not, by where it lands.
LEMMA Moves ==
  ASSUME TypeOK, NEW t \in Threads, NEW loc, pc' = [pc EXCEPT ![t] = loc]
  PROVE  /\ loc \in HeldLocs => Holders' = Holders \cup {t}
         /\ loc \notin HeldLocs => Holders' = Holders \ {t}
  BY DEF TypeOK, Holders

\* Every step of the server is one of the four (sem_wait and sem_post of server.c
\* and poll.c, and the exits in server.c:346-402 that do not post).
LEMMA LockSteps ==
  ASSUME ServerInv, [Next]_vars
  PROVE  LockStep
  <1> USE Moves, HandlersAssumption, PhotosAssumption, BlocksAssumption
      DEF ServerInv, TypeOK, PictureIsOpen, Exists, NoFile, LockStep, Stays, Enters, Leaves,
          Dies, Holders, Goto, lock, request, files, Threads
  <1>1. ASSUME NEW h \in Handlers, Accept(h) PROVE LockStep
    BY <1>1 DEF Accept
  <1>2. ASSUME NEW h \in Handlers, CallFails(h) PROVE LockStep
    <2>1. /\ h \in Threads /\ pc' = [pc EXCEPT ![h] = "none"]
          /\ sem' = sem /\ size' = size
      BY <1>2 DEF CallFails, EndThread
    <2>2. Holders' = Holders \ {h}
      BY <2>1
    <2>3. CASE pc[h] \in HeldLocs
      <3>1. lost' = TRUE /\ h \in Holders
        BY <1>2, <2>1, <2>3 DEF CallFails
      <3> QED
        BY <2>1, <2>2, <3>1
    <2>4. CASE pc[h] \notin HeldLocs
      <3>1. lost' = lost /\ h \notin Holders
        BY <1>2, <2>4 DEF CallFails
      <3> QED
        BY <2>1, <2>2, <3>1
    <2> QED
      BY <2>3, <2>4
  <1>3. ASSUME NEW h \in Handlers, SendRaisesSigpipe(h) PROVE LockStep
    BY <1>3 DEF SendRaisesSigpipe
  <1>4. ASSUME NEW h \in Handlers, SendPrompt(h) PROVE LockStep
    BY <1>4 DEF SendPrompt, AfterSend
  <1>5. ASSUME NEW h \in Handlers, SendReply(h) PROVE LockStep
    BY <1>5 DEF SendReply, EndRequest
  <1>6. ASSUME NEW h \in Handlers, RecvOption(h) PROVE LockStep
    BY <1>6, RecvOptionStep
  <1>7. ASSUME NEW h \in Handlers, Quit(h) PROVE LockStep
    BY <1>7 DEF Quit, EndThread, EndRequest
  <1>8. ASSUME NEW h \in Handlers, RecvAngle(h) PROVE LockStep
    BY <1>8, RecvAngleStep
  <1>9. ASSUME NEW h \in Handlers, AngleWait(h) PROVE LockStep
    BY <1>9 DEF AngleWait, SemWait
  <1>10. ASSUME NEW h \in Handlers, MoveServo(h) PROVE LockStep
    BY <1>10 DEF MoveServo, SemPost
  <1>11. ASSUME NEW h \in Handlers, ServoTraps(h) PROVE LockStep
    BY <1>11 DEF ServoTraps
  <1>12. ASSUME NEW h \in Handlers, SendList(h) PROVE LockStep
    BY <1>12 DEF SendList
  <1>13. ASSUME NEW h \in Handlers, ListFails(h) PROVE LockStep
    BY <1>13 DEF ListFails
  <1>14. ASSUME NEW h \in Handlers, RecvName(h) PROVE LockStep
    BY <1>14 DEF RecvName
  <1>15. ASSUME NEW h \in Handlers, NullCompareTraps(h) PROVE LockStep
    BY <1>15 DEF NullCompareTraps
  <1>16. ASSUME NEW h \in Handlers, OpenPicture(h) PROVE LockStep
    BY <1>16 DEF OpenPicture
  <1>17. ASSUME NEW h \in Handlers, SendNotFound(h) PROVE LockStep
    BY <1>17 DEF SendNotFound
  <1>18. ASSUME NEW h \in Handlers, PhotoWait(h) PROVE LockStep
    BY <1>18 DEF PhotoWait, SemWait
  <1>19. ASSUME NEW h \in Handlers, RecvReady(h) PROVE LockStep
    BY <1>19 DEF RecvReady
  <1>20. ASSUME NEW h \in Handlers, SendSize(h) PROVE LockStep
    BY <1>20 DEF SendSize
  <1>21. ASSUME NEW h \in Handlers, SendPicture(h) PROVE LockStep
    BY <1>21 DEF SendPicture
  <1>22. ASSUME NEW h \in Handlers, SendDirectoryFails(h) PROVE LockStep
    <2>1. /\ h \in Threads /\ pc' = [pc EXCEPT ![h] = "none"]
          /\ sem' = sem /\ size' = size /\ lost' = TRUE /\ pc[h] = "data"
      BY <1>22 DEF SendDirectoryFails, EndThread
    <2>2. Holders' = Holders \ {h} /\ h \in Holders
      BY <2>1
    <2> QED
      BY <2>1, <2>2
  <1>23. ASSUME NEW h \in Handlers, PhotoPost(h) PROVE LockStep
    BY <1>23 DEF PhotoPost, SemPost, EndRequest
  <1>24. ASSUME NEW h \in Handlers, RecvSettingsOption(h) PROVE LockStep
    BY <1>24, RecvSettingsOptionStep
  <1>25. ASSUME NEW h \in Handlers, RecvValue(h) PROVE LockStep
    BY <1>25, RecvValueStep
  <1>26. ASSUME NEW h \in Handlers, SettingWait(h) PROVE LockStep
    BY <1>26 DEF SettingWait, SemWait
  <1>27. ASSUME NEW h \in Handlers, ChangeSetting(h) PROVE LockStep
    BY <1>27 DEF ChangeSetting, SemPost
  <1>28. ASSUME NEW h \in Handlers, PeerCloses(h) PROVE LockStep
    BY <1>28 DEF PeerCloses
  <1>29. ASSUME NEW h \in Handlers, PeerResets(h) PROVE LockStep
    BY <1>29 DEF PeerResets
  <1>30. CASE AcceptFails
    BY <1>30 DEF AcceptFails
  <1>31. CASE PollWait
    BY <1>31 DEF PollWait, SemWait
  <1>32. CASE CreatePicture
    <2>1. Poller \in Holders /\ Holders' = Holders
      BY <1>32 DEF CreatePicture
    <2>2. PICK p \in Photos : size' = [size EXCEPT ![p] = IF @ = NoFile THEN 0 ELSE @]
      BY <1>32 DEF CreatePicture
    <2>3. CASE size[p] = NoFile
      <3>1. size' = [size EXCEPT ![p] = 0] /\ 0 \in 0 .. Blocks
        BY <2>2, <2>3
      <3>2. Grows
        BY <2>1, <2>3, <3>1 DEF Grows
      <3> QED
        BY <1>32, <2>1, <3>2 DEF CreatePicture
    <2>4. CASE size[p] # NoFile
      <3>1. size' = size
        BY <2>2, <2>4
      <3> QED
        BY <1>32, <2>1, <3>1 DEF CreatePicture
    <2> QED
      BY <2>3, <2>4
  <1>33. CASE SavePicture
    <2> DEFINE p == shot.photo
               n == shot.written + 1
    <2>1. Poller \in Holders /\ Holders' = Holders
      BY <1>33 DEF SavePicture
    <2>2. /\ p \in Photos /\ size[p] \in 0 .. Blocks /\ n \in 0 .. Blocks
          /\ size' = [size EXCEPT ![p] = IF @ < n THEN n ELSE @]
      BY <1>33 DEF SavePicture
    <2>3. CASE size[p] < n
      <3>1. size' = [size EXCEPT ![p] = n] /\ size[p] <= n
        BY <2>2, <2>3
      <3>2. Grows
        BY <2>1, <2>2, <3>1 DEF Grows
      <3> QED
        BY <1>33, <2>1, <3>2 DEF SavePicture
    <2>4. CASE ~(size[p] < n)
      <3>1. size' = size
        BY <2>2, <2>4
      <3> QED
        BY <1>33, <2>1, <3>1 DEF SavePicture
    <2> QED
      BY <2>3, <2>4
  <1>34. CASE PollPost
    BY <1>34 DEF PollPost, SemPost
  <1>35. CASE PollWakes
    BY <1>35 DEF PollWakes
  <1>36. CASE UNCHANGED vars
    BY <1>36 DEF vars
  <1>37. ASSUME NEW h \in Handlers, OverflowTraps(h) PROVE LockStep
    BY <1>37 DEF OverflowTraps
  <1> QED
    BY <1>1, <1>2, <1>3, <1>4, <1>5, <1>6, <1>7, <1>8, <1>9, <1>10, <1>11,
       <1>12, <1>13, <1>14, <1>15, <1>16, <1>17, <1>18, <1>19, <1>20, <1>21,
       <1>22, <1>23, <1>24, <1>25, <1>26, <1>27, <1>28, <1>29, <1>30, <1>31,
       <1>32, <1>33, <1>34, <1>35, <1>36, <1>37
    DEF Next, Polling, Session, SetAngle, Photo, Setting, Network

\* The accounts of the semaphore follow from the classification.
LEMMA AccountsStep ==
  ASSUME ServerInv, LockStep
  PROVE  SemaphoreAccounts'
  <1>1. CASE Stays
    BY <1>1 DEF ServerInv, SemaphoreAccounts, Stays
  <1>2. ASSUME NEW t \in Threads, Enters(t) PROVE SemaphoreAccounts'
    BY <1>2 DEF ServerInv, SemaphoreAccounts, Enters
  <1>3. ASSUME NEW t \in Threads, Leaves(t) PROVE SemaphoreAccounts'
    BY <1>3 DEF ServerInv, SemaphoreAccounts, Leaves
  <1>4. ASSUME NEW t \in Threads, Dies(t) PROVE SemaphoreAccounts'
    BY <1>4 DEF ServerInv, SemaphoreAccounts, Dies
  <1> QED
    BY <1>1, <1>2, <1>3, <1>4 DEF LockStep

-----------------------------------------------------------------------------
(* The other parts of the invariant *)

\* Setting a handler's flag keeps the type of control.
LEMMA FlagType ==
  ASSUME TypeOK, NEW h \in Handlers,
         \/ control' = [control EXCEPT ![h] = TRUE]
         \/ control' = [control EXCEPT ![h] = FALSE]
  PROVE  control' \in [Handlers -> BOOLEAN]
  <1>1. CASE control' = [control EXCEPT ![h] = TRUE]
    BY <1>1 DEF TypeOK
  <1>2. CASE control' = [control EXCEPT ![h] = FALSE]
    BY <1>2 DEF TypeOK
  <1> QED
    BY <1>1, <1>2

\* Types are preserved; a post finds the semaphore at 0 because its thread holds
\* it, and ftell finds a file because open pictures stay.
LEMMA TypeStep ==
  ASSUME ServerInv, [Next]_vars
  PROVE  TypeOK'
  <1> USE HandlersAssumption, PhotosAssumption, BlocksAssumption
      DEF ServerInv, TypeOK, SemaphoreAccounts, Holders, PictureIsOpen, Exists,
          RequestFits, NoFile, Settings, Goto, lock, request, files, Threads
  <1>1. ASSUME NEW h \in Handlers, Accept(h) PROVE TypeOK'
    BY <1>1 DEF Accept
  <1>2. ASSUME NEW h \in Handlers, CallFails(h) PROVE TypeOK'
    BY <1>2 DEF CallFails, EndThread, EndRequest
  <1>3. ASSUME NEW h \in Handlers, SendRaisesSigpipe(h) PROVE TypeOK'
    BY <1>3 DEF SendRaisesSigpipe
  <1>4. ASSUME NEW h \in Handlers, SendPrompt(h) PROVE TypeOK'
    BY <1>4 DEF SendPrompt, AfterSend
  <1>5. ASSUME NEW h \in Handlers, SendReply(h) PROVE TypeOK'
    BY <1>5 DEF SendReply, EndRequest
  <1>6. ASSUME NEW h \in Handlers, RecvOption(h) PROVE TypeOK'
    BY <1>6, RecvOptionStep
  <1>7. ASSUME NEW h \in Handlers, Quit(h) PROVE TypeOK'
    BY <1>7 DEF Quit, EndThread, EndRequest
  <1>8. ASSUME NEW h \in Handlers, RecvAngle(h) PROVE TypeOK'
    <2>1. control' \in [Handlers -> BOOLEAN]
      <3>1. \/ control' = [control EXCEPT ![h] = TRUE]
            \/ control' = [control EXCEPT ![h] = FALSE]
        BY <1>8, RecvAngleStep, Zenon
      <3> QED
        BY <3>1, FlagType
    <2> QED
      BY <1>8, <2>1, RecvAngleStep
  <1>9. ASSUME NEW h \in Handlers, AngleWait(h) PROVE TypeOK'
    BY <1>9 DEF AngleWait, SemWait
  <1>10. ASSUME NEW h \in Handlers, MoveServo(h) PROVE TypeOK'
    BY <1>10 DEF MoveServo, SemPost
  <1>11. ASSUME NEW h \in Handlers, ServoTraps(h) PROVE TypeOK'
    BY <1>11 DEF ServoTraps
  <1>12. ASSUME NEW h \in Handlers, SendList(h) PROVE TypeOK'
    BY <1>12 DEF SendList
  <1>13. ASSUME NEW h \in Handlers, ListFails(h) PROVE TypeOK'
    BY <1>13 DEF ListFails
  <1>14. ASSUME NEW h \in Handlers, RecvName(h) PROVE TypeOK'
    BY <1>14 DEF RecvName
  <1>15. ASSUME NEW h \in Handlers, NullCompareTraps(h) PROVE TypeOK'
    BY <1>15 DEF NullCompareTraps
  <1>16. ASSUME NEW h \in Handlers, OpenPicture(h) PROVE TypeOK'
    BY <1>16 DEF OpenPicture
  <1>17. ASSUME NEW h \in Handlers, SendNotFound(h) PROVE TypeOK'
    BY <1>17 DEF SendNotFound
  <1>18. ASSUME NEW h \in Handlers, PhotoWait(h) PROVE TypeOK'
    BY <1>18 DEF PhotoWait, SemWait
  <1>19. ASSUME NEW h \in Handlers, RecvReady(h) PROVE TypeOK'
    BY <1>19 DEF RecvReady
  <1>20. ASSUME NEW h \in Handlers, SendSize(h) PROVE TypeOK'
    BY <1>20 DEF SendSize
  <1>21. ASSUME NEW h \in Handlers, SendPicture(h) PROVE TypeOK'
    BY <1>21 DEF SendPicture
  <1>22. ASSUME NEW h \in Handlers, SendDirectoryFails(h) PROVE TypeOK'
    BY <1>22 DEF SendDirectoryFails, EndThread, EndRequest
  <1>23. ASSUME NEW h \in Handlers, PhotoPost(h) PROVE TypeOK'
    BY <1>23 DEF PhotoPost, SemPost, EndRequest
  <1>24. ASSUME NEW h \in Handlers, RecvSettingsOption(h) PROVE TypeOK'
    BY <1>24, RecvSettingsOptionStep
  <1>25. ASSUME NEW h \in Handlers, RecvValue(h) PROVE TypeOK'
    <2>1. control' \in [Handlers -> BOOLEAN]
      <3>1. \/ control' = [control EXCEPT ![h] = TRUE]
            \/ control' = [control EXCEPT ![h] = FALSE]
        BY <1>25, RecvValueStep, Zenon
      <3> QED
        BY <3>1, FlagType
    <2>2. opt' \in [Handlers -> Settings \cup {"none"}]
      BY <1>25, RecvValueStep
    <2>3. \E loc \in HandlerLocs : pc' = [pc EXCEPT ![h] = loc]
      BY <1>25, RecvValueStep
    <2>4. UNCHANGED <<alive, sem, lost, conn, target, announced, applied, size, shot>>
      BY <1>25, RecvValueStep
    <2>5. alive' \in BOOLEAN /\ lost' \in BOOLEAN
      BY <2>4
    <2>6. /\ pc' \in [Threads -> HandlerLocs \cup PollLocs]
          /\ pc'[Poller] \in PollLocs
          /\ \A g \in Handlers : pc'[g] \in HandlerLocs
      BY <2>3
    <2> QED
      BY <2>1, <2>2, <2>4, <2>5, <2>6
  <1>26. ASSUME NEW h \in Handlers, SettingWait(h) PROVE TypeOK'
    BY <1>26 DEF SettingWait, SemWait
  <1>27. ASSUME NEW h \in Handlers, ChangeSetting(h) PROVE TypeOK'
    BY <1>27 DEF ChangeSetting, SemPost
  <1>28. ASSUME NEW h \in Handlers, PeerCloses(h) PROVE TypeOK'
    BY <1>28 DEF PeerCloses
  <1>29. ASSUME NEW h \in Handlers, PeerResets(h) PROVE TypeOK'
    BY <1>29 DEF PeerResets
  <1>30. CASE AcceptFails
    BY <1>30 DEF AcceptFails
  <1>31. CASE PollWait
    BY <1>31 DEF PollWait, SemWait
  <1>32. CASE CreatePicture
    BY <1>32 DEF CreatePicture
  <1>33. CASE SavePicture
    BY <1>33 DEF SavePicture
  <1>34. CASE PollPost
    BY <1>34 DEF PollPost, SemPost
  <1>35. CASE PollWakes
    BY <1>35 DEF PollWakes
  <1>36. CASE UNCHANGED vars
    BY <1>36 DEF vars
  <1>37. ASSUME NEW h \in Handlers, OverflowTraps(h) PROVE TypeOK'
    BY <1>37 DEF OverflowTraps
  <1> QED
    BY <1>1, <1>2, <1>3, <1>4, <1>5, <1>6, <1>7, <1>8, <1>9, <1>10, <1>11,
       <1>12, <1>13, <1>14, <1>15, <1>16, <1>17, <1>18, <1>19, <1>20, <1>21,
       <1>22, <1>23, <1>24, <1>25, <1>26, <1>27, <1>28, <1>29, <1>30, <1>31,
       <1>32, <1>33, <1>34, <1>35, <1>36, <1>37
    DEF Next, Polling, Session, SetAngle, Photo, Setting, Network

\* An open picture stays, and its announced size stays its size, because only the
\* polling thread changes sizes and it is not a holder while a handler is one.
LEMMA PicturesStep ==
  ASSUME ServerInv, [Next]_vars
  PROVE  PictureIsOpen' /\ TransferIsStable'
  <1> USE HandlersAssumption, PhotosAssumption, BlocksAssumption
      DEF ServerInv, TypeOK, SemaphoreAccounts, Holders, PictureIsOpen,
          TransferIsStable, Exists, NoFile, Goto, lock, request, files, Threads
  <1>1. ASSUME NEW h \in Handlers, Accept(h) PROVE PictureIsOpen' /\ TransferIsStable'
    BY <1>1 DEF Accept
  <1>2. ASSUME NEW h \in Handlers, CallFails(h) PROVE PictureIsOpen' /\ TransferIsStable'
    BY <1>2 DEF CallFails, EndThread, EndRequest
  <1>3. ASSUME NEW h \in Handlers, SendRaisesSigpipe(h) PROVE PictureIsOpen' /\ TransferIsStable'
    BY <1>3 DEF SendRaisesSigpipe
  <1>4. ASSUME NEW h \in Handlers, SendPrompt(h) PROVE PictureIsOpen' /\ TransferIsStable'
    BY <1>4 DEF SendPrompt, AfterSend
  <1>5. ASSUME NEW h \in Handlers, SendReply(h) PROVE PictureIsOpen' /\ TransferIsStable'
    BY <1>5 DEF SendReply, EndRequest
  <1>6. ASSUME NEW h \in Handlers, RecvOption(h) PROVE PictureIsOpen' /\ TransferIsStable'
    BY <1>6, RecvOptionStep
  <1>7. ASSUME NEW h \in Handlers, Quit(h) PROVE PictureIsOpen' /\ TransferIsStable'
    BY <1>7 DEF Quit, EndThread, EndRequest
  <1>8. ASSUME NEW h \in Handlers, RecvAngle(h) PROVE PictureIsOpen' /\ TransferIsStable'
    BY <1>8, RecvAngleStep
  <1>9. ASSUME NEW h \in Handlers, AngleWait(h) PROVE PictureIsOpen' /\ TransferIsStable'
    BY <1>9 DEF AngleWait, SemWait
  <1>10. ASSUME NEW h \in Handlers, MoveServo(h) PROVE PictureIsOpen' /\ TransferIsStable'
    BY <1>10 DEF MoveServo, SemPost
  <1>11. ASSUME NEW h \in Handlers, ServoTraps(h) PROVE PictureIsOpen' /\ TransferIsStable'
    BY <1>11 DEF ServoTraps
  <1>12. ASSUME NEW h \in Handlers, SendList(h) PROVE PictureIsOpen' /\ TransferIsStable'
    BY <1>12 DEF SendList
  <1>13. ASSUME NEW h \in Handlers, ListFails(h) PROVE PictureIsOpen' /\ TransferIsStable'
    BY <1>13 DEF ListFails
  <1>14. ASSUME NEW h \in Handlers, RecvName(h) PROVE PictureIsOpen' /\ TransferIsStable'
    BY <1>14 DEF RecvName
  <1>15. ASSUME NEW h \in Handlers, NullCompareTraps(h) PROVE PictureIsOpen' /\ TransferIsStable'
    BY <1>15 DEF NullCompareTraps
  <1>16. ASSUME NEW h \in Handlers, OpenPicture(h) PROVE PictureIsOpen' /\ TransferIsStable'
    BY <1>16 DEF OpenPicture
  <1>17. ASSUME NEW h \in Handlers, SendNotFound(h) PROVE PictureIsOpen' /\ TransferIsStable'
    BY <1>17 DEF SendNotFound
  <1>18. ASSUME NEW h \in Handlers, PhotoWait(h) PROVE PictureIsOpen' /\ TransferIsStable'
    BY <1>18 DEF PhotoWait, SemWait
  <1>19. ASSUME NEW h \in Handlers, RecvReady(h) PROVE PictureIsOpen' /\ TransferIsStable'
    BY <1>19 DEF RecvReady
  <1>20. ASSUME NEW h \in Handlers, SendSize(h) PROVE PictureIsOpen' /\ TransferIsStable'
    BY <1>20 DEF SendSize
  <1>21. ASSUME NEW h \in Handlers, SendPicture(h) PROVE PictureIsOpen' /\ TransferIsStable'
    BY <1>21 DEF SendPicture
  <1>22. ASSUME NEW h \in Handlers, SendDirectoryFails(h) PROVE PictureIsOpen' /\ TransferIsStable'
    BY <1>22 DEF SendDirectoryFails, EndThread, EndRequest
  <1>23. ASSUME NEW h \in Handlers, PhotoPost(h) PROVE PictureIsOpen' /\ TransferIsStable'
    BY <1>23 DEF PhotoPost, SemPost, EndRequest
  <1>24. ASSUME NEW h \in Handlers, RecvSettingsOption(h) PROVE PictureIsOpen' /\ TransferIsStable'
    BY <1>24, RecvSettingsOptionStep
  <1>25. ASSUME NEW h \in Handlers, RecvValue(h) PROVE PictureIsOpen' /\ TransferIsStable'
    BY <1>25, RecvValueStep
  <1>26. ASSUME NEW h \in Handlers, SettingWait(h) PROVE PictureIsOpen' /\ TransferIsStable'
    BY <1>26 DEF SettingWait, SemWait
  <1>27. ASSUME NEW h \in Handlers, ChangeSetting(h) PROVE PictureIsOpen' /\ TransferIsStable'
    BY <1>27 DEF ChangeSetting, SemPost
  <1>28. ASSUME NEW h \in Handlers, PeerCloses(h) PROVE PictureIsOpen' /\ TransferIsStable'
    BY <1>28 DEF PeerCloses
  <1>29. ASSUME NEW h \in Handlers, PeerResets(h) PROVE PictureIsOpen' /\ TransferIsStable'
    BY <1>29 DEF PeerResets
  <1>30. CASE AcceptFails
    BY <1>30 DEF AcceptFails
  <1>31. CASE PollWait
    BY <1>31 DEF PollWait, SemWait
  <1>32. CASE CreatePicture
    BY <1>32 DEF CreatePicture
  <1>33. CASE SavePicture
    BY <1>33 DEF SavePicture
  <1>34. CASE PollPost
    BY <1>34 DEF PollPost, SemPost
  <1>35. CASE PollWakes
    BY <1>35 DEF PollWakes
  <1>36. CASE UNCHANGED vars
    BY <1>36 DEF vars
  <1>37. ASSUME NEW h \in Handlers, OverflowTraps(h) PROVE PictureIsOpen' /\ TransferIsStable'
    BY <1>37 DEF OverflowTraps
  <1> QED
    BY <1>1, <1>2, <1>3, <1>4, <1>5, <1>6, <1>7, <1>8, <1>9, <1>10, <1>11,
       <1>12, <1>13, <1>14, <1>15, <1>16, <1>17, <1>18, <1>19, <1>20, <1>21,
       <1>22, <1>23, <1>24, <1>25, <1>26, <1>27, <1>28, <1>29, <1>30, <1>31,
       <1>32, <1>33, <1>34, <1>35, <1>36, <1>37
    DEF Next, Polling, Session, SetAngle, Photo, Setting, Network

\* The locals of a request fit its place, and the reply fits what was done.
LEMMA RequestsStep ==
  ASSUME ServerInv, [Next]_vars
  PROVE  RequestFits' /\ RefusalIsHonest'
  <1> USE HandlersAssumption, PhotosAssumption, BlocksAssumption
      DEF ServerInv, TypeOK, RequestFits, RefusalIsHonest, Settings, Goto, lock, request, files, Threads
  <1>1. ASSUME NEW h \in Handlers, Accept(h) PROVE RequestFits' /\ RefusalIsHonest'
    BY <1>1 DEF Accept
  <1>2. ASSUME NEW h \in Handlers, CallFails(h) PROVE RequestFits' /\ RefusalIsHonest'
    BY <1>2 DEF CallFails, EndThread, EndRequest
  <1>3. ASSUME NEW h \in Handlers, SendRaisesSigpipe(h) PROVE RequestFits' /\ RefusalIsHonest'
    BY <1>3 DEF SendRaisesSigpipe
  <1>4. ASSUME NEW h \in Handlers, SendPrompt(h) PROVE RequestFits' /\ RefusalIsHonest'
    BY <1>4 DEF SendPrompt, AfterSend
  <1>5. ASSUME NEW h \in Handlers, SendReply(h) PROVE RequestFits' /\ RefusalIsHonest'
    BY <1>5 DEF SendReply, EndRequest
  <1>6. ASSUME NEW h \in Handlers, RecvOption(h) PROVE RequestFits' /\ RefusalIsHonest'
    BY <1>6, RecvOptionStep
  <1>7. ASSUME NEW h \in Handlers, Quit(h) PROVE RequestFits' /\ RefusalIsHonest'
    BY <1>7 DEF Quit, EndThread, EndRequest
  <1>8. ASSUME NEW h \in Handlers, RecvAngle(h) PROVE RequestFits' /\ RefusalIsHonest'
    BY <1>8, RecvAngleStep
  <1>9. ASSUME NEW h \in Handlers, AngleWait(h) PROVE RequestFits' /\ RefusalIsHonest'
    BY <1>9 DEF AngleWait, SemWait
  <1>10. ASSUME NEW h \in Handlers, MoveServo(h) PROVE RequestFits' /\ RefusalIsHonest'
    BY <1>10 DEF MoveServo, SemPost
  <1>11. ASSUME NEW h \in Handlers, ServoTraps(h) PROVE RequestFits' /\ RefusalIsHonest'
    BY <1>11 DEF ServoTraps
  <1>12. ASSUME NEW h \in Handlers, SendList(h) PROVE RequestFits' /\ RefusalIsHonest'
    BY <1>12 DEF SendList
  <1>13. ASSUME NEW h \in Handlers, ListFails(h) PROVE RequestFits' /\ RefusalIsHonest'
    BY <1>13 DEF ListFails
  <1>14. ASSUME NEW h \in Handlers, RecvName(h) PROVE RequestFits' /\ RefusalIsHonest'
    BY <1>14 DEF RecvName
  <1>15. ASSUME NEW h \in Handlers, NullCompareTraps(h) PROVE RequestFits' /\ RefusalIsHonest'
    BY <1>15 DEF NullCompareTraps
  <1>16. ASSUME NEW h \in Handlers, OpenPicture(h) PROVE RequestFits' /\ RefusalIsHonest'
    BY <1>16 DEF OpenPicture
  <1>17. ASSUME NEW h \in Handlers, SendNotFound(h) PROVE RequestFits' /\ RefusalIsHonest'
    BY <1>17 DEF SendNotFound
  <1>18. ASSUME NEW h \in Handlers, PhotoWait(h) PROVE RequestFits' /\ RefusalIsHonest'
    BY <1>18 DEF PhotoWait, SemWait
  <1>19. ASSUME NEW h \in Handlers, RecvReady(h) PROVE RequestFits' /\ RefusalIsHonest'
    BY <1>19 DEF RecvReady
  <1>20. ASSUME NEW h \in Handlers, SendSize(h) PROVE RequestFits' /\ RefusalIsHonest'
    BY <1>20 DEF SendSize
  <1>21. ASSUME NEW h \in Handlers, SendPicture(h) PROVE RequestFits' /\ RefusalIsHonest'
    BY <1>21 DEF SendPicture
  <1>22. ASSUME NEW h \in Handlers, SendDirectoryFails(h) PROVE RequestFits' /\ RefusalIsHonest'
    BY <1>22 DEF SendDirectoryFails, EndThread, EndRequest
  <1>23. ASSUME NEW h \in Handlers, PhotoPost(h) PROVE RequestFits' /\ RefusalIsHonest'
    BY <1>23 DEF PhotoPost, SemPost, EndRequest
  <1>24. ASSUME NEW h \in Handlers, RecvSettingsOption(h) PROVE RequestFits' /\ RefusalIsHonest'
    BY <1>24, RecvSettingsOptionStep
  <1>25. ASSUME NEW h \in Handlers, RecvValue(h) PROVE RequestFits' /\ RefusalIsHonest'
    <2>1. /\ pc[h] = "value" /\ applied[h] = 0 /\ applied' = applied
          /\ opt[h] # "none"
      BY <1>25, RecvValueStep
    <2>2. CASE /\ control' = [control EXCEPT ![h] = TRUE]
               /\ pc' = [pc EXCEPT ![h] = "settingWait"]
               /\ opt' = opt
      BY <2>1, <2>2
    <2>3. CASE /\ control' = [control EXCEPT ![h] = FALSE]
               /\ pc' = [pc EXCEPT ![h] = "settingsReply"]
               /\ opt' = opt
      BY <2>1, <2>3
    <2>4. CASE /\ control' = [control EXCEPT ![h] = FALSE]
               /\ pc' = [pc EXCEPT ![h] = "valuePrompt"]
               /\ opt' = [opt EXCEPT ![h] = "contrast"]
      BY <2>1, <2>4
    <2> QED
      BY <1>25, <2>2, <2>3, <2>4, RecvValueStep
  <1>26. ASSUME NEW h \in Handlers, SettingWait(h) PROVE RequestFits' /\ RefusalIsHonest'
    BY <1>26 DEF SettingWait, SemWait
  <1>27. ASSUME NEW h \in Handlers, ChangeSetting(h) PROVE RequestFits' /\ RefusalIsHonest'
    BY <1>27 DEF ChangeSetting, SemPost
  <1>28. ASSUME NEW h \in Handlers, PeerCloses(h) PROVE RequestFits' /\ RefusalIsHonest'
    BY <1>28 DEF PeerCloses
  <1>29. ASSUME NEW h \in Handlers, PeerResets(h) PROVE RequestFits' /\ RefusalIsHonest'
    BY <1>29 DEF PeerResets
  <1>30. CASE AcceptFails
    BY <1>30 DEF AcceptFails
  <1>31. CASE PollWait
    BY <1>31 DEF PollWait, SemWait
  <1>32. CASE CreatePicture
    BY <1>32 DEF CreatePicture
  <1>33. CASE SavePicture
    BY <1>33 DEF SavePicture
  <1>34. CASE PollPost
    BY <1>34 DEF PollPost, SemPost
  <1>35. CASE PollWakes
    BY <1>35 DEF PollWakes
  <1>36. CASE UNCHANGED vars
    BY <1>36 DEF vars
  <1>37. ASSUME NEW h \in Handlers, OverflowTraps(h) PROVE RequestFits' /\ RefusalIsHonest'
    BY <1>37 DEF OverflowTraps
  <1> QED
    BY <1>1, <1>2, <1>3, <1>4, <1>5, <1>6, <1>7, <1>8, <1>9, <1>10, <1>11,
       <1>12, <1>13, <1>14, <1>15, <1>16, <1>17, <1>18, <1>19, <1>20, <1>21,
       <1>22, <1>23, <1>24, <1>25, <1>26, <1>27, <1>28, <1>29, <1>30, <1>31,
       <1>32, <1>33, <1>34, <1>35, <1>36, <1>37
    DEF Next, Polling, Session, SetAngle, Photo, Setting, Network

-----------------------------------------------------------------------------
(* Theorems *)

\* The initial states satisfy the invariant.
LEMMA InitInv == Init => ServerInv
  <1> SUFFICES ASSUME Init PROVE ServerInv
    OBVIOUS
  <1> USE HandlersAssumption, PhotosAssumption, BlocksAssumption DEF Init, Threads
  <1>1. TypeOK
    <2>1. alive \in BOOLEAN /\ lost \in BOOLEAN /\ sem \in {0, 1}
      OBVIOUS
    <2>2. /\ pc \in [Threads -> HandlerLocs \cup PollLocs]
          /\ pc[Poller] \in PollLocs /\ \A h \in Handlers : pc[h] \in HandlerLocs
      OBVIOUS
    <2>3. control \in [Handlers -> BOOLEAN]
      OBVIOUS
    <2>4. /\ conn \in [Handlers -> {"none", "open", "fin", "reset", "pipe"}]
          /\ opt \in [Handlers -> Settings \cup {"none"}]
          /\ target \in [Handlers -> Photos \cup {NoPhoto, Directory}]
      OBVIOUS
    <2>5. /\ announced \in [Handlers -> 0 .. Blocks]
          /\ applied \in [Handlers -> 0 .. 2]
      OBVIOUS
    <2>6. /\ size \in [Photos -> 0 .. NoFile]
          /\ shot \in [photo : Photos \cup {NoPhoto}, written : 0 .. Blocks]
      BY DEF NoFile
    <2> QED
      BY <2>1, <2>2, <2>3, <2>4, <2>5, <2>6 DEF TypeOK
  <1>2. Holders = {}
    BY DEF Holders
  <1>3. SemaphoreAccounts
    BY <1>2 DEF SemaphoreAccounts
  <1>4. PictureIsOpen /\ TransferIsStable
    BY DEF PictureIsOpen, TransferIsStable
  <1>5. RequestFits /\ RefusalIsHonest
    BY DEF RequestFits, RefusalIsHonest
  <1> QED
    BY <1>1, <1>3, <1>4, <1>5 DEF ServerInv

\* ServerInv is an inductive invariant of the server.
THEOREM Invariance == Spec => []ServerInv
  <1>1. Init => ServerInv
    BY InitInv
  <1>2. ServerInv /\ [Next]_vars => ServerInv'
    <2> SUFFICES ASSUME ServerInv, [Next]_vars PROVE ServerInv'
      OBVIOUS
    <2>1. SemaphoreAccounts'
      BY LockSteps, AccountsStep
    <2>2. TypeOK'
      BY TypeStep
    <2>3. PictureIsOpen' /\ TransferIsStable'
      BY PicturesStep
    <2>4. RequestFits' /\ RefusalIsHonest'
      BY RequestsStep
    <2> QED
      BY <2>1, <2>2, <2>3, <2>4 DEF ServerInv
  <1> QED
    BY <1>1, <1>2, PTL DEF Spec

\* Every variable of the server keeps its type; the value of the semaphore is
\* never above 1, whichever way threads end.
THEOREM TypeCorrect == Spec => []TypeOK
  BY Invariance, PTL DEF ServerInv

\* The camera, the servo and a transfer have at most one thread between sem_wait
\* and sem_post, and the semaphore is at 1 only when there is none.
THEOREM MutualExclusion == Spec => []SemaphoreAccounts
  BY Invariance, PTL DEF ServerInv

\* A picture does not change between the announcement of its size and its last
\* byte.
THEOREM StableTransfers == Spec => []TransferIsStable
  BY Invariance, PTL DEF ServerInv

\* "Invalid input!" means that the device was not touched, and no request changes it
\* twice (server.c:193-246, 512-745).
THEOREM HonestRefusals == Spec => []RefusalIsHonest
  BY Invariance, PTL DEF ServerInv

-----------------------------------------------------------------------------
(* The server implements CameraMonitor *)

\* Choosing from a set of one.
LEMMA ChooseOnly ==
  ASSUME NEW T, NEW S, NEW t \in T, S = {t}
  PROVE  (CHOOSE x \in T : x \in S) = t
  OBVIOUS

\* With the invariant before and after it, a step of the server is a step of the
\* monitor or leaves owner and pictures alone.
LEMMA MonitorStep ==
  ASSUME ServerInv, ServerInv', LockStep
  PROVE  [Monitor!Next]_<<Owner, size>>
  <1> USE DEF Monitor!Next, Monitor!Acquire, Monitor!Release, Monitor!Lose,
              Monitor!Capture, Monitor!Threads, Monitor!Absent, Threads
  <1>1. /\ \A t \in Threads : Holders = {t} => Owner = t
        /\ Holders = {} => Owner = IF lost THEN "lost" ELSE "free"
    BY ChooseOnly DEF Owner
  <1>2. /\ \A t \in Threads : Holders' = {t} => Owner' = t
        /\ Holders' = {} => Owner' = IF lost' THEN "lost" ELSE "free"
    BY ChooseOnly DEF Owner
  <1>3. CASE Stays /\ size' = size
    BY <1>3 DEF Owner, Stays
  <1>4. CASE Stays /\ Grows
    <2>1. Holders = {Poller}
      BY <1>4 DEF Grows, ServerInv, SemaphoreAccounts
    <2>2. Owner = Poller /\ Owner' = Poller
      BY <1>1, <1>2, <1>4, <2>1 DEF Stays
    <2> QED
      BY <2>2, <1>4 DEF Grows, NoFile
  <1>5. ASSUME NEW t \in Threads, Enters(t) PROVE Monitor!Acquire
    <2>1. Holders = {} /\ ~lost /\ Holders' = {t}
      BY <1>5 DEF Enters, ServerInv, SemaphoreAccounts
    <2> QED
      BY <1>1, <1>2, <1>5, <2>1 DEF Enters
  <1>6. ASSUME NEW t \in Threads, Leaves(t) PROVE Monitor!Release
    <2>1. Holders = {t} /\ Holders' = {} /\ ~lost /\ ~lost'
      BY <1>6 DEF Leaves, ServerInv, SemaphoreAccounts
    <2> QED
      BY <1>1, <1>2, <1>6, <2>1 DEF Leaves
  <1>7. ASSUME NEW t \in Threads, Dies(t) PROVE Monitor!Lose
    <2>1. Holders = {t} /\ t \in Handlers /\ Holders' = {} /\ lost'
      BY <1>7 DEF Dies, ServerInv, SemaphoreAccounts
    <2> QED
      BY <1>1, <1>2, <1>7, <2>1 DEF Dies
  <1> QED
    BY <1>3, <1>4, <1>5, <1>6, <1>7 DEF LockStep, Stays

\* The server implements the monitor: one owner at a time, pictures change only
\* while the polling thread is the owner, and only grow.
THEOREM Implementation == Spec => ImplementsMonitor
  <1>1. Init => Monitor!Init
    BY HandlersAssumption DEF Init, Monitor!Init, Monitor!Absent, NoFile, Owner, Holders, Threads
  <1>2. ServerInv /\ ServerInv' /\ [Next]_vars => [Monitor!Next]_<<Owner, size>>
    BY LockSteps, MonitorStep
  <1> QED
    BY <1>1, <1>2, Invariance, PTL DEF Spec, ImplementsMonitor, Monitor!Spec
=============================================================================
