---------------------------- MODULE SoftPwmProofs ---------------------------
(***************************************************************************)
(* Theorems about SoftPwm, for any heap and any number of threads.         *)
(*                                                                         *)
(* However the calls of setAngle come, no structure is lost, as long as no *)
(* freed memory is used (HeapInv).  Until a call is given the structure of *)
(* an earlier thread, none is used after it was freed, and the servo is    *)
(* driven while setAngle sleeps (PwmInv, which adds to HeapInv that there  *)
(* is one user).  setAngle and its threads implement ServoMonitor          *)
(* throughout (DutyFits, PulsesFit).                                       *)
(***************************************************************************)
EXTENDS SoftPwm, TLAPS

-----------------------------------------------------------------------------
(* The heap and the list, however the calls come *)

HeapInv == TypeOK /\ ListIsExact

LEMMA FreedStruct == Freed \in Struct /\ ~Freed.live /\ ~Freed.running
BY DEF Freed, NewStruct, Struct

LEMMA InitHeap == Init => HeapInv
<1> SUFFICES ASSUME Init PROVE HeapInv
  OBVIOUS
<1>1. TypeOK
  BY FreedStruct DEF Init, TypeOK, Stages, Locs
<1>2. ListIsExact
  BY FreedStruct, NullAssumption DEF Init, ListIsExact
<1> QED BY <1>1, <1>2 DEF HeapInv

\* find_pwm links what it allocates.
LEMMA FindPwmHeap ==
  ASSUME HeapInv, FindPwm  PROVE HeapInv'
<1> USE DEF HeapInv
<1>1. CASE pwm_list = Null
  <2>1. PICK c \in Cells : /\ ~heap[c].live
                           /\ heap' = [heap EXCEPT ![c] = NewStruct]
                           /\ pwm_list' = c /\ found' = c /\ clash' = clash
    BY <1>1 DEF FindPwm
  <2>2. NewStruct \in Struct /\ NewStruct.live
    BY DEF NewStruct, Struct
  <2>3. TypeOK'
    BY <2>1, <2>2 DEF TypeOK, FindPwm, pwm, pin
  <2>4. ListIsExact'
    <3> SUFFICES ASSUME NEW d \in Cells
                 PROVE  heap'[d].live <=> d = c
      BY <2>1 DEF ListIsExact
    <3>1. CASE d = c
      BY <3>1, <2>1, <2>2 DEF TypeOK
    <3>2. CASE d # c
      BY <3>2, <2>1, <1>1, NullAssumption DEF TypeOK, ListIsExact
    <3> QED BY <3>1, <3>2
  <2> QED BY <2>3, <2>4
<1>2. CASE pwm_list # Null
  <2>1. found' = pwm_list /\ UNCHANGED <<heap, pwm_list, stage, created, pwm, pin>>
    BY <1>2 DEF FindPwm
  <2>2. clash' \in BOOLEAN
    BY <1>2 DEF FindPwm
  <2> QED BY <2>1, <2>2 DEF TypeOK, ListIsExact, pwm, pin
<1> QED BY <1>1, <1>2

\* A pwm_ function that returns has used the structure of the list, as it is live, and
\* left a live one.
LEMMA UseStep ==
  ASSUME HeapInv, Returns, stage \in DOMAIN After, NEW s \in Struct, s.live,
         heap' = [heap EXCEPT ![found] = s], UNCHANGED pwm_list
  PROVE  /\ found = pwm_list /\ pwm_list \in Cells
         /\ heap' \in [Cells -> Struct]
         /\ heap'[pwm_list] = s
         /\ stage' \in Stages /\ stage' = After[stage]
         /\ found' = Null
         /\ ListIsExact'
<1>1. found = pwm_list /\ pwm_list \in Cells
  BY DEF HeapInv, TypeOK, ListIsExact, Returns
<1>2. heap' \in [Cells -> Struct] /\ heap'[pwm_list] = s
  BY <1>1 DEF HeapInv, TypeOK
<1>3. stage' \in Stages /\ stage' = After[stage] /\ found' = Null
  BY DEF Returns, Stages, After
<1>4. ListIsExact'
  BY <1>1, <1>2 DEF HeapInv, TypeOK, ListIsExact, Returns
<1> QED BY <1>1, <1>2, <1>3, <1>4

\* The same with the field that each function sets.
LEMMA SetsField ==
  ASSUME HeapInv, SetFrequency \/ SetDutyCycle \/ Stop \/ StartThread
  PROVE  /\ found = pwm_list /\ pwm_list \in Cells /\ pwm_list' = pwm_list
         /\ heap[pwm_list] \in Struct /\ heap' \in [Cells -> Struct]
         /\ stage' \in Stages /\ stage' = After[stage] /\ found' = Null
         /\ SetFrequency => heap'[pwm_list] = [heap[pwm_list] EXCEPT !.freq = "servo"]
         /\ SetDutyCycle => heap'[pwm_list] = [heap[pwm_list] EXCEPT !.duty =
                                 IF stage = "angle" THEN "angle" ELSE "zero"]
         /\ Stop => heap'[pwm_list] = [heap[pwm_list] EXCEPT !.running = FALSE]
         /\ StartThread => heap'[pwm_list] = [heap[pwm_list] EXCEPT !.running = TRUE]
         /\ ListIsExact'
<1>1. Returns /\ stage \in DOMAIN After /\ pwm_list' = pwm_list
  BY DEF SetFrequency, SetDutyCycle, Stop, StartThread, After
<1>2. found \in Cells /\ heap[found] \in Struct /\ heap[found].live
  BY <1>1 DEF HeapInv, TypeOK, Returns
<1>3. CASE SetFrequency
  <2> DEFINE s == [heap[found] EXCEPT !.freq = "servo"]
  <2>1. s \in Struct /\ s.live
    BY <1>2 DEF Struct
  <2>2. heap' = [heap EXCEPT ![found] = s] /\ stage = "frequency"
    BY <1>2, <1>3 DEF SetFrequency, HeapInv, TypeOK
  <2> QED BY <1>1, <1>2, <1>3, <2>1, <2>2, UseStep
             DEF SetFrequency, SetDutyCycle, Stop, StartThread
<1>4. CASE SetDutyCycle
  <2> DEFINE s == [heap[found] EXCEPT !.duty = IF stage = "angle" THEN "angle" ELSE "zero"]
  <2>1. s \in Struct /\ s.live
    BY <1>2 DEF Struct
  <2>2. heap' = [heap EXCEPT ![found] = s] /\ stage \in {"zero", "angle", "rest"}
    BY <1>2, <1>4 DEF SetDutyCycle, HeapInv, TypeOK
  <2> QED BY <1>1, <1>2, <1>4, <2>1, <2>2, UseStep
             DEF SetFrequency, SetDutyCycle, Stop, StartThread
<1>5. CASE Stop
  <2> DEFINE s == [heap[found] EXCEPT !.running = FALSE]
  <2>1. s \in Struct /\ s.live
    BY <1>2 DEF Struct
  <2>2. heap' = [heap EXCEPT ![found] = s] /\ stage = "stop"
    BY <1>2, <1>5 DEF Stop, HeapInv, TypeOK
  <2> QED BY <1>1, <1>2, <1>5, <2>1, <2>2, UseStep
             DEF SetFrequency, SetDutyCycle, Stop, StartThread
<1>6. CASE StartThread
  <2> DEFINE s == [heap[found] EXCEPT !.running = TRUE]
  <2>1. s \in Struct /\ s.live
    BY <1>2 DEF Struct
  <2>2. heap' = [heap EXCEPT ![found] = s] /\ stage = "start"
    BY <1>2, <1>6 DEF StartThread, HeapInv, TypeOK
  <2> QED BY <1>1, <1>2, <1>6, <2>1, <2>2, UseStep
             DEF SetFrequency, SetDutyCycle, Stop, StartThread
<1> QED BY <1>3, <1>4, <1>5, <1>6

LEMMA CallHeap ==
  ASSUME HeapInv, Setup \/ Call  PROVE HeapInv'
<1> USE DEF HeapInv
<1>1. CASE Setup \/ Raise \/ HoldEnds \/ Cleanup \/ StartFails
  <2>1. UNCHANGED <<clash, pwm_list, heap, thread, ptr>> /\ stage' \in Stages
    BY <1>1 DEF Setup, Raise, HoldEnds, Cleanup, StartFails, Returns, Stages, After, pwm
  <2>2. found' \in Cells \cup {Null} /\ created' \in BOOLEAN
          /\ high' \in BOOLEAN /\ output' \in BOOLEAN
    BY <1>1 DEF TypeOK, Setup, Raise, HoldEnds, Cleanup, StartFails, Returns, pin
  <2> QED BY <2>1, <2>2 DEF TypeOK, ListIsExact
<1>2. CASE SetFrequency \/ SetDutyCycle \/ Stop
  <2>1. UNCHANGED <<created, clash, pwm_list, thread, ptr, high, output>>
    BY <1>2 DEF SetFrequency, SetDutyCycle, Stop, pwm, pin
  <2> QED BY <1>2, <2>1, SetsField DEF TypeOK
<1>3. CASE StartThread
  <2>1. found = pwm_list /\ pwm_list \in Cells /\ created' = TRUE
        /\ UNCHANGED <<clash, pin>>
    BY <1>3, SetsField DEF StartThread
  <2>2. PICK t \in Threads : /\ thread[t] = "none"
                             /\ thread' = [thread EXCEPT ![t] = "low"]
                             /\ ptr' = [ptr EXCEPT ![t] = found]
    BY <1>3 DEF StartThread
  <2>3. /\ thread' \in [Threads -> Locs] /\ ptr' \in [Threads -> Cells \cup {Null}]
        /\ \A u \in Threads : thread'[u] = "none" <=> ptr'[u] = Null
    BY <2>1, <2>2, NullAssumption DEF TypeOK, Locs
  <2> QED BY <1>3, <2>1, <2>3, SetsField DEF TypeOK, pin
<1>4. CASE FindPwm
  BY <1>4, FindPwmHeap
<1> QED BY <1>1, <1>2, <1>3, <1>4 DEF Call

\* A thread that frees a structure frees that of the list, as it is live.
LEMMA ThreadHeap ==
  ASSUME HeapInv, NEW t \in Threads, Pwm(t)  PROVE HeapInv'
<1> USE DEF HeapInv
<1>1. CASE Cycle(t) \/ EndPulse(t)
  <2>1. /\ UNCHANGED <<setAngle, pwm_list, heap, ptr, output>> /\ high' \in BOOLEAN
        /\ thread[t] # "none"
        /\ \E loc \in {"low", "pulse"} : thread' = [thread EXCEPT ![t] = loc]
    BY <1>1 DEF Cycle, EndPulse
  <2>2. /\ thread' \in [Threads -> Locs]
        /\ \A u \in Threads : thread'[u] = "none" <=> thread[u] = "none"
    BY <2>1 DEF TypeOK, Locs
  <2>3. TypeOK'
    BY <2>1, <2>2 DEF TypeOK, setAngle
  <2>4. ListIsExact'
    BY <2>1 DEF ListIsExact
  <2> QED BY <2>3, <2>4
<1>2. CASE LeaveLoop(t)
  <2>1. /\ UNCHANGED <<setAngle, pwm_list, heap, output>> /\ high' = FALSE
        /\ thread[t] # "none"
        /\ \/ pwm_list = Null /\ EndThread(t)
           \/ /\ pwm_list # Null
              /\ thread' = [thread EXCEPT ![t] = "unlink"]
              /\ ptr' = [ptr EXCEPT ![t] = pwm_list]
    BY <1>2 DEF LeaveLoop
  <2>2. /\ thread' \in [Threads -> Locs] /\ ptr' \in [Threads -> Cells \cup {Null}]
        /\ \A u \in Threads : thread'[u] = "none" <=> ptr'[u] = Null
    BY <2>1 DEF TypeOK, EndThread, Locs
  <2>3. TypeOK'
    BY <2>1, <2>2 DEF TypeOK, setAngle
  <2>4. ListIsExact'
    BY <2>1 DEF ListIsExact
  <2> QED BY <2>3, <2>4
<1>3. CASE RemovePwm(t)
  <2>1. /\ thread[t] = "unlink" /\ heap[ptr[t]].live /\ pwm_list' = Null
        /\ heap' = [heap EXCEPT ![ptr[t]] = Freed]
        /\ EndThread(t) /\ UNCHANGED <<setAngle, pin>>
    BY <1>3 DEF RemovePwm
  <2>2. ptr[t] \in Cells /\ ptr[t] = pwm_list
    BY <2>1 DEF TypeOK, ListIsExact
  <2>3. heap' \in [Cells -> Struct] /\ \A c \in Cells : ~heap'[c].live
    BY <2>1, <2>2, FreedStruct DEF TypeOK, ListIsExact
  <2>4. ListIsExact'
    BY <2>1, <2>3, NullAssumption DEF ListIsExact
  <2>5. /\ thread' \in [Threads -> Locs] /\ ptr' \in [Threads -> Cells \cup {Null}]
        /\ \A u \in Threads : thread'[u] = "none" <=> ptr'[u] = Null
    BY <2>1 DEF TypeOK, EndThread, Locs
  <2>6. TypeOK'
    BY <2>1, <2>3, <2>5 DEF TypeOK, setAngle, pin
  <2> QED BY <2>4, <2>6
<1> QED BY <1>1, <1>2, <1>3 DEF Pwm

LEMMA HeapStep ==
  ASSUME HeapInv, [Next]_vars  PROVE HeapInv'
<1>1. CASE UNCHANGED vars
  BY <1>1 DEF HeapInv, TypeOK, ListIsExact, vars, setAngle, pwm, pin
<1> QED BY <1>1, CallHeap, ThreadHeap DEF Next

-----------------------------------------------------------------------------
(* Until a call is given the structure of an earlier thread *)

\* What has happened stays so.
LEMMA NoClashYet ==
  ASSUME [Next]_vars, ~clash'  PROVE ~clash
BY DEF Next, Call, Pwm, Setup, FindPwm, SetFrequency, SetDutyCycle, StartThread, StartFails,
       Raise, HoldEnds, Stop, Cleanup, Cycle, EndPulse, LeaveLoop, RemovePwm, vars, setAngle

LEMMA InitInv == Init => PwmInv
<1> SUFFICES ASSUME Init PROVE PwmInv
  OBVIOUS
<1>1. OneUser /\ CallFits
  BY DEF Init, OneUser, CallFits, Early, Late
<1> QED BY <1>1, InitHeap DEF PwmInv, HeapInv

\* PwmInv alone gives what the heap looks like to a thread.
LEMMA ThreadFacts ==
  ASSUME PwmInv, NEW t \in Threads, thread[t] # "none"
  PROVE  /\ ptr[t] = pwm_list
         /\ pwm_list \in Cells
         /\ heap[pwm_list].live
         /\ \A u \in Threads : u # t => thread[u] = "none"
BY DEF PwmInv, TypeOK, OneUser, ListIsExact, Locs

\* What is left to prove of a step.
LEMMA Rest ==
  ASSUME PwmInv, [Next]_vars, OneUser', CallFits'  PROVE PwmInv'
BY HeapStep DEF PwmInv, HeapInv

(* setAngle *)

LEMMA SetupStep ==
  ASSUME PwmInv, Setup  PROVE OneUser' /\ CallFits'
BY DEF PwmInv, OneUser, CallFits, Setup, Early, Late, pwm

LEMMA FindPwmStep ==
  ASSUME PwmInv, FindPwm, ~clash'  PROVE OneUser' /\ CallFits'
<1> USE DEF PwmInv
<1>0. stage \notin {"idle", "high", "hold", "cleanup"}
  BY DEF FindPwm, After
<1>1. CASE pwm_list = Null
  <2>1. PICK c \in Cells : /\ ~heap[c].live
                           /\ heap' = [heap EXCEPT ![c] = NewStruct]
                           /\ pwm_list' = c /\ found' = c
    BY <1>1 DEF FindPwm
  <2>2. \A t \in Threads : thread[t] = "none"
    BY <1>1, NullAssumption, ThreadFacts
  <2>3. heap'[c] = NewStruct
    BY <2>1 DEF TypeOK
  <2>4. OneUser'
    BY <2>1, <2>2 DEF OneUser, FindPwm, pwm
  <2>5. CallFits'
    BY <1>0, <1>1, <2>1, <2>2, <2>3 DEF CallFits, FindPwm, pwm, pin, NewStruct, Early, Late
  <2> QED BY <2>4, <2>5
<1>2. CASE pwm_list # Null
  <2>1. found' = pwm_list /\ UNCHANGED <<heap, pwm_list, stage, created, pwm, pin>>
    BY <1>2 DEF FindPwm
  <2>2. stage \in Early => \A t \in Threads : thread[t] = "none"
    BY <1>2 DEF FindPwm, Driven
  <2> QED BY <1>0, <2>1, <2>2 DEF OneUser, CallFits, pwm, pin, Early
<1> QED BY <1>1, <1>2

LEMMA SetFrequencyStep ==
  ASSUME PwmInv, SetFrequency  PROVE OneUser' /\ CallFits'
<1>1. /\ found = pwm_list /\ pwm_list \in Cells /\ pwm_list' = pwm_list
      /\ heap[pwm_list] \in Struct
      /\ heap'[pwm_list] = [heap[pwm_list] EXCEPT !.freq = "servo"]
      /\ stage' = After[stage] /\ found' = Null
  BY SetsField DEF PwmInv, HeapInv
<1>2. heap'[pwm_list].freq = "servo" /\ heap'[pwm_list].running = heap[pwm_list].running
  BY <1>1 DEF Struct
<1>3. stage = "frequency" /\ stage' = "zero"
  BY <1>1 DEF SetFrequency, After
<1>4. OneUser'
  BY <1>1 DEF PwmInv, OneUser, SetFrequency, pwm
<1>5. CallFits'
  BY <1>1, <1>2, <1>3, NullAssumption
     DEF PwmInv, CallFits, SetFrequency, pwm, pin, Early, Late
<1> QED BY <1>4, <1>5

LEMMA SetDutyCycleStep ==
  ASSUME PwmInv, SetDutyCycle  PROVE OneUser' /\ CallFits'
<1>1. /\ found = pwm_list /\ pwm_list \in Cells /\ pwm_list' = pwm_list
      /\ heap[pwm_list] \in Struct
      /\ heap'[pwm_list] = [heap[pwm_list] EXCEPT !.duty =
                               IF stage = "angle" THEN "angle" ELSE "zero"]
      /\ stage' = After[stage] /\ found' = Null
  BY SetsField DEF PwmInv, HeapInv
<1>2. /\ heap'[pwm_list].freq = heap[pwm_list].freq
      /\ heap'[pwm_list].running = heap[pwm_list].running
      /\ stage = "angle" => heap'[pwm_list].duty = "angle"
  BY <1>1 DEF Struct
<1>3. \/ stage = "zero"  /\ stage' = "start"
      \/ stage = "angle" /\ stage' = "hold"
      \/ stage = "rest"  /\ stage' = "stop"
  BY <1>1 DEF SetDutyCycle, After
<1>4. OneUser'
  BY <1>1 DEF PwmInv, OneUser, SetDutyCycle, pwm
<1>5. CallFits'
  BY <1>1, <1>2, <1>3, NullAssumption
     DEF PwmInv, CallFits, SetDutyCycle, pwm, pin, Early, Late
<1> QED BY <1>4, <1>5

LEMMA StartThreadStep ==
  ASSUME PwmInv, StartThread  PROVE OneUser' /\ CallFits'
<1>1. /\ found = pwm_list /\ pwm_list \in Cells /\ pwm_list' = pwm_list
      /\ heap[pwm_list] \in Struct
      /\ heap'[pwm_list] = [heap[pwm_list] EXCEPT !.running = TRUE]
      /\ stage' = After[stage] /\ found' = Null
  BY SetsField DEF PwmInv, HeapInv
<1>2. stage = "start" /\ stage' = "high" /\ created' /\ UNCHANGED pin
  BY <1>1 DEF StartThread, After
<1>3. heap[pwm_list].freq = "servo" /\ (\A t \in Threads : thread[t] = "none")
  BY <1>2 DEF PwmInv, CallFits, Early
<1>4. heap'[pwm_list].freq = "servo" /\ heap'[pwm_list].running
  BY <1>1, <1>3 DEF Struct
<1>5. PICK t \in Threads : /\ thread' = [thread EXCEPT ![t] = "low"]
                           /\ ptr' = [ptr EXCEPT ![t] = found]
  BY DEF StartThread
<1>6. /\ thread'[t] = "low" /\ ptr'[t] = pwm_list
      /\ \A u \in Threads : u # t => thread'[u] = "none" /\ ptr'[u] = ptr[u]
  BY <1>1, <1>3, <1>5 DEF PwmInv, TypeOK
<1>7. OneUser'
  BY <1>1, <1>6 DEF PwmInv, OneUser
<1>8. CallFits'
  BY <1>1, <1>2, <1>4, <1>6, NullAssumption DEF PwmInv, CallFits, pin, Early, Late
<1> QED BY <1>7, <1>8

LEMMA StartFailsStep ==
  ASSUME PwmInv, StartFails  PROVE OneUser' /\ CallFits'
<1>1. stage = "start" /\ stage' = "high" /\ found' = Null
  BY DEF StartFails, Returns, After
<1>2. OneUser'
  BY <1>1 DEF PwmInv, OneUser, StartFails, pwm
<1>3. CallFits'
  BY <1>1 DEF PwmInv, CallFits, StartFails, pwm, pin, Early, Late
<1> QED BY <1>2, <1>3

\* Raise, HoldEnds and Cleanup touch neither the heap nor the threads.
LEMMA PinStep ==
  ASSUME PwmInv, Raise \/ HoldEnds \/ Cleanup  PROVE OneUser' /\ CallFits'
<1>1. /\ UNCHANGED <<found, created, pwm_list, heap, thread, ptr>>
      /\ \/ stage = "high" /\ stage' = "angle" /\ output' = output
         \/ stage = "hold" /\ stage' = "rest" /\ output' = output
         \/ stage = "cleanup" /\ stage' = "idle"
  BY DEF Raise, HoldEnds, Cleanup, pwm, pin
<1>2. OneUser'
  BY <1>1 DEF PwmInv, OneUser
<1>3. CallFits'
  BY <1>1 DEF PwmInv, CallFits, Early, Late
<1> QED BY <1>2, <1>3

LEMMA StopStep ==
  ASSUME PwmInv, Stop  PROVE OneUser' /\ CallFits'
<1>1. /\ found = pwm_list /\ pwm_list \in Cells /\ pwm_list' = pwm_list
      /\ heap[pwm_list] \in Struct
      /\ heap'[pwm_list] = [heap[pwm_list] EXCEPT !.running = FALSE]
      /\ stage' = After[stage] /\ found' = Null
  BY SetsField DEF PwmInv, HeapInv
<1>2. ~heap'[pwm_list].running
  BY <1>1 DEF Struct
<1>3. stage = "stop" /\ stage' = "cleanup"
  BY <1>1 DEF Stop, After
<1>4. OneUser'
  BY <1>1 DEF PwmInv, OneUser, Stop, pwm
<1>5. CallFits'
  BY <1>1, <1>2, <1>3, NullAssumption DEF PwmInv, CallFits, Stop, pwm, pin, Early, Late
<1> QED BY <1>4, <1>5

LEMMA CallStep ==
  ASSUME PwmInv, Call, ~clash'  PROVE OneUser' /\ CallFits'
BY FindPwmStep, SetFrequencyStep, SetDutyCycleStep, StartThreadStep, StartFailsStep,
   PinStep, StopStep DEF Call

(* pwm_thread *)

\* A thread in its loop only changes its own place and the pin.
LEMMA LoopStep ==
  ASSUME PwmInv, NEW t \in Threads, Cycle(t) \/ EndPulse(t)  PROVE OneUser' /\ CallFits'
<1>1. /\ UNCHANGED <<setAngle, pwm_list, heap, ptr, output>>
      /\ thread[t] \in {"low", "pulse"}
      /\ \E loc \in {"low", "pulse"} : thread' = [thread EXCEPT ![t] = loc]
  BY DEF Cycle, EndPulse
<1>2. PICK loc \in {"low", "pulse"} : thread' = [thread EXCEPT ![t] = loc]
  BY <1>1
<1>3. /\ thread'[t] = loc
      /\ \A u \in Threads : u # t => thread'[u] = thread[u]
  BY <1>2 DEF PwmInv, TypeOK
<1>4. OneUser'
  BY <1>1, <1>3 DEF PwmInv, OneUser, setAngle
<1>5. CallFits'
  BY <1>1, <1>3 DEF PwmInv, CallFits, setAngle, Early, Late
<1> QED BY <1>4, <1>5

\* The flag is down only outside Late; a call that has begun has found nothing yet.
LEMMA LeaveLoopStep ==
  ASSUME PwmInv, NEW t \in Threads, LeaveLoop(t)  PROVE OneUser' /\ CallFits'
<1>1. /\ thread[t] # "none" /\ ~heap[ptr[t]].running
      /\ UNCHANGED <<setAngle, pwm_list, heap, output>>
  BY DEF LeaveLoop
<1>2. ptr[t] = pwm_list /\ pwm_list \in Cells /\ pwm_list # Null
  BY <1>1, ThreadFacts, NullAssumption
<1>3. thread' = [thread EXCEPT ![t] = "unlink"] /\ ptr' = [ptr EXCEPT ![t] = pwm_list]
  BY <1>2 DEF LeaveLoop
<1>4. /\ thread'[t] = "unlink" /\ ptr' = ptr
      /\ \A u \in Threads : u # t => thread'[u] = thread[u]
  BY <1>2, <1>3 DEF PwmInv, TypeOK
<1>5. OneUser'
  BY <1>1, <1>4 DEF PwmInv, OneUser, setAngle
<1>6. stage \notin Late /\ stage \notin {"zero", "start"} /\ (stage = "frequency" => found = Null)
  BY <1>1, <1>2 DEF PwmInv, CallFits
<1>7. CallFits'
  BY <1>1, <1>4, <1>6 DEF PwmInv, CallFits, setAngle, Early, Late
<1> QED BY <1>5, <1>7

LEMMA RemovePwmStep ==
  ASSUME PwmInv, NEW t \in Threads, RemovePwm(t)  PROVE OneUser' /\ CallFits'
<1>1. /\ thread[t] = "unlink" /\ pwm_list' = Null
      /\ thread' = [thread EXCEPT ![t] = "none"]
      /\ UNCHANGED <<setAngle, pin>>
  BY DEF RemovePwm, EndThread
<1>2. /\ ptr[t] = pwm_list /\ pwm_list \in Cells
      /\ \A u \in Threads : u # t => thread[u] = "none"
  BY <1>1, ThreadFacts
<1>3. \A u \in Threads : thread'[u] = "none"
  BY <1>1, <1>2 DEF PwmInv, TypeOK
<1>4. stage \in {"idle", "cleanup", "frequency"} /\ found = Null
  <2>1. stage \notin Late /\ stage \notin {"zero", "start"}
          /\ (stage = "frequency" => found = Null)
    BY <1>1, <1>2 DEF PwmInv, CallFits
  <2> QED BY <2>1 DEF PwmInv, TypeOK, Stages, After, Late, CallFits
<1> QED BY <1>1, <1>3, <1>4 DEF PwmInv, OneUser, CallFits, setAngle, pin, Early, Late

LEMMA Step ==
  ASSUME PwmInv, [Next]_vars, ~clash'  PROVE PwmInv'
<1>1. CASE Setup \/ Call
  BY <1>1, SetupStep, CallStep, Rest
<1>2. ASSUME NEW t \in Threads, Pwm(t)  PROVE PwmInv'
  BY <1>2, LoopStep, LeaveLoopStep, RemovePwmStep, Rest DEF Pwm
<1>3. CASE UNCHANGED vars
  <2>1. OneUser' /\ CallFits'
    BY <1>3 DEF PwmInv, OneUser, CallFits, vars, setAngle, pwm, pin
  <2> QED BY <2>1, Rest
<1> QED BY <1>1, <1>2, <1>3 DEF Next

-----------------------------------------------------------------------------
(* The pulses *)

LEMMA InitDuty == Init => DutyFits
BY DEF Init, DutyFits

\* The structure is at rest when pwm_start is called, and again at pwm_stop.
LEMMA DutyStep ==
  ASSUME PwmInv, DutyFits, [Next]_vars  PROVE DutyFits'
<1>1. CASE Setup \/ SetFrequency \/ Cleanup \/ Stop
  <2>1. stage' \in {"frequency", "zero", "idle", "cleanup"}
    BY <1>1 DEF Setup, SetFrequency, Cleanup, Stop, Returns, After
  <2> QED BY <2>1 DEF DutyFits
<1>2. CASE FindPwm
  <2>1. UNCHANGED <<stage, created>>
    BY <1>2 DEF FindPwm
  <2>2. pwm_list # Null => UNCHANGED <<heap, pwm_list>>
    BY <1>2 DEF FindPwm
  <2>3. stage = "start" \/ (stage \in Late /\ created) => pwm_list # Null
    BY DEF PwmInv, CallFits
  <2> QED BY <2>1, <2>2, <2>3 DEF DutyFits, Late
<1>3. CASE SetDutyCycle
  <2>1. /\ pwm_list' = pwm_list /\ created' = created /\ heap[pwm_list] \in Struct
        /\ heap'[pwm_list] = [heap[pwm_list] EXCEPT !.duty =
                                 IF stage = "angle" THEN "angle" ELSE "zero"]
    BY <1>3, SetsField DEF PwmInv, HeapInv, SetDutyCycle
  <2>2. \/ stage = "zero"  /\ stage' = "start"
        \/ stage = "angle" /\ stage' = "hold"
        \/ stage = "rest"  /\ stage' = "stop"
    BY <1>3 DEF SetDutyCycle, Returns, After
  <2>3. heap'[pwm_list].duty = IF stage = "angle" THEN "angle" ELSE "zero"
    BY <2>1 DEF Struct
  <2> QED BY <2>1, <2>2, <2>3 DEF DutyFits
<1>4. CASE StartThread
  <2>1. /\ pwm_list' = pwm_list /\ heap[pwm_list] \in Struct
        /\ heap'[pwm_list] = [heap[pwm_list] EXCEPT !.running = TRUE]
    BY <1>4, SetsField DEF PwmInv, HeapInv
  <2>2. stage = "start" /\ stage' = "high"
    BY <1>4 DEF StartThread, Returns, After
  <2>3. heap'[pwm_list].duty = heap[pwm_list].duty
    BY <2>1 DEF Struct
  <2> QED BY <2>1, <2>2, <2>3 DEF DutyFits
<1>5. CASE StartFails
  <2>1. stage = "start" /\ stage' = "high" /\ created' = created
    BY <1>5 DEF StartFails, Returns, After
  <2> QED BY <2>1 DEF DutyFits, PwmInv, CallFits, Early
<1>6. CASE Raise \/ HoldEnds
  <2>1. /\ UNCHANGED <<created, heap, pwm_list>>
        /\ \/ stage = "high" /\ stage' = "angle"
           \/ stage = "hold" /\ stage' = "rest"
    BY <1>6 DEF Raise, HoldEnds
  <2> QED BY <2>1 DEF DutyFits, PwmInv, CallFits, Late
<1>7. CASE UNCHANGED vars \/ \E t \in Threads : Cycle(t) \/ EndPulse(t) \/ LeaveLoop(t)
  BY <1>7 DEF DutyFits, vars, setAngle, Cycle, EndPulse, LeaveLoop
<1>8. ASSUME NEW t \in Threads, RemovePwm(t) PROVE DutyFits'
  <2>1. thread[t] = "unlink" /\ UNCHANGED <<stage, created>>
    BY <1>8 DEF RemovePwm, setAngle
  <2>2. stage # "start" /\ ~ (stage \in Late /\ created)
    BY <2>1, ThreadFacts DEF PwmInv, CallFits
  <2> QED BY <2>1, <2>2 DEF DutyFits, Late
<1> QED BY <1>1, <1>2, <1>3, <1>4, <1>5, <1>6, <1>7, <1>8 DEF Next, Call, Pwm

\* There are pulses exactly while a call that could create its thread is between
\* pwm_start and pwm_stop, and no thread is there between its first find_pwm and
\* pwm_start.
PulsesFit ==
  /\ stage \in Late /\ created => Pulses = "on" /\ Duty = heap[pwm_list].duty
  /\ ~ (stage \in Late /\ created) =>
       Pulses = (IF Driven THEN "ending" ELSE "off") /\ Duty = "zero"
  /\ \/ stage \in {"zero", "start"}
     \/ stage = "frequency" /\ found # Null
     \/ stage \in Late /\ ~created
     => ~Driven

LEMMA PulsesKnown ==
  ASSUME PwmInv, ~clash  PROVE PulsesFit
<1>1. stage \in Late /\ created => Driven /\ heap[pwm_list].running
  BY DEF PwmInv, CallFits, Driven
<1>2. Driven => pwm_list # Null
  BY ThreadFacts, NullAssumption DEF Driven
<1>3. ~ (stage \in Late /\ created) /\ Driven => ~heap[pwm_list].running
  BY <1>2 DEF PwmInv, CallFits
<1>4. \/ stage \in {"zero", "start"}
      \/ stage = "frequency" /\ found # Null
      \/ stage \in Late /\ ~created
      => ~Driven
  BY DEF PwmInv, CallFits, Driven
<1>5. IsOn <=> stage \in Late /\ created
  BY <1>1, <1>3 DEF IsOn
<1> QED BY <1>4, <1>5 DEF PulsesFit, Pulses, Duty

\* A step of setAngle.
LEMMA CallPulses ==
  ASSUME PwmInv, DutyFits, Setup \/ Call, PulsesFit, PulsesFit'
  PROVE  [Monitor!Next]_Monitor!vars
<1> USE DEF PulsesFit
<1>1. CASE Setup
  <2>1. Driven' = Driven /\ stage = "idle" /\ stage' = "frequency"
    BY <1>1 DEF Setup, Driven, pwm
  <2> QED BY <2>1 DEF Monitor!vars, Late
<1>2. CASE FindPwm
  <2>1. UNCHANGED <<stage, created, thread>>
    BY <1>2 DEF FindPwm, pwm
  <2>2. Driven' = Driven
    BY <2>1 DEF Driven
  <2>3. CASE stage \in Late /\ created
    <3>1. UNCHANGED <<heap, pwm_list>>
      BY <1>2, <2>3 DEF FindPwm, PwmInv, CallFits
    <3> QED BY <2>1, <2>3, <3>1 DEF Monitor!vars
  <2>4. CASE ~ (stage \in Late /\ created)
    BY <2>1, <2>2, <2>4 DEF Monitor!vars
  <2> QED BY <2>3, <2>4
<1>3. CASE SetFrequency \/ StartFails
  <2>1. /\ UNCHANGED <<created, thread>>
        /\ \/ stage = "frequency" /\ stage' = "zero"
           \/ stage = "start" /\ stage' = "high"
    BY <1>3 DEF SetFrequency, StartFails, Returns, After, pwm
  <2>2. ~created
    BY <2>1 DEF PwmInv, CallFits, Early
  <2>3. ~Driven /\ ~Driven'
    BY <1>3, <2>1 DEF Driven, SetFrequency, StartFails, Returns
  <2> QED BY <2>1, <2>2, <2>3 DEF Monitor!vars
<1>4. CASE SetDutyCycle
  <2>1. /\ pwm_list' = pwm_list /\ UNCHANGED <<created, thread>>
        /\ heap[pwm_list] \in Struct
        /\ heap'[pwm_list] = [heap[pwm_list] EXCEPT !.duty =
                                 IF stage = "angle" THEN "angle" ELSE "zero"]
    BY <1>4, SetsField DEF PwmInv, HeapInv, SetDutyCycle, pwm
  <2>2. heap'[pwm_list].duty = IF stage = "angle" THEN "angle" ELSE "zero"
    BY <2>1 DEF Struct
  <2>3. Driven' = Driven
    BY <2>1 DEF Driven
  <2>4. \/ stage = "zero"  /\ stage' = "start"
        \/ stage = "angle" /\ stage' = "hold"
        \/ stage = "rest"  /\ stage' = "stop"
    BY <1>4 DEF SetDutyCycle, Returns, After
  <2>5. CASE stage = "zero" \/ ~created
    BY <2>1, <2>3, <2>4, <2>5 DEF Monitor!vars, Late
  <2>6. CASE stage = "angle" /\ created
    <3>1. heap[pwm_list].duty = "zero"
      BY <2>6 DEF DutyFits
    <3> QED BY <2>1, <2>2, <2>4, <2>6, <3>1 DEF Monitor!Next, Monitor!Aim, Late
  <2>7. CASE stage = "rest" /\ created
    <3>1. heap[pwm_list].duty = "angle"
      BY <2>7 DEF DutyFits
    <3> QED BY <2>1, <2>2, <2>4, <2>7, <3>1 DEF Monitor!Next, Monitor!Rest, Late
  <2> QED BY <2>4, <2>5, <2>6, <2>7
<1>5. CASE StartThread
  <2>1. /\ pwm_list' = pwm_list /\ created' /\ heap[pwm_list] \in Struct
        /\ heap'[pwm_list] = [heap[pwm_list] EXCEPT !.running = TRUE]
    BY <1>5, SetsField DEF PwmInv, HeapInv, StartThread
  <2>2. stage = "start" /\ stage' = "high"
    BY <1>5 DEF StartThread, Returns, After
  <2>3. heap'[pwm_list].duty = "zero"
    BY <2>1, <2>2 DEF Struct, DutyFits
  <2>4. Pulses = "off" /\ Duty = "zero"
    BY <2>2 DEF Late
  <2>5. Pulses' = "on" /\ Duty' = "zero"
    BY <2>1, <2>2, <2>3 DEF Late
  <2> QED BY <2>4, <2>5 DEF Monitor!Next, Monitor!Begin
<1>6. CASE Raise \/ HoldEnds \/ Cleanup
  <2>1. /\ UNCHANGED <<created, pwm_list, heap, thread>>
        /\ stage' \in Late <=> stage \in Late
    BY <1>6 DEF Raise, HoldEnds, Cleanup, Late, pwm
  <2>2. Driven' = Driven
    BY <2>1 DEF Driven
  <2> QED BY <2>1, <2>2 DEF Monitor!vars
<1>7. CASE Stop
  <2>1. stage = "stop" /\ stage' = "cleanup" /\ UNCHANGED <<created, thread>>
    BY <1>7 DEF Stop, Returns, After, pwm
  <2>2. Driven' = Driven
    BY <2>1 DEF Driven
  <2>3. CASE created
    <3>1. Pulses = "on" /\ Duty = "zero" /\ Driven
      BY <2>1, <2>3 DEF Late, DutyFits, PwmInv, CallFits, Driven
    <3>2. Pulses' = "ending" /\ Duty' = "zero"
      BY <2>1, <2>2, <3>1 DEF Late
    <3> QED BY <3>1, <3>2 DEF Monitor!Next, Monitor!Stop
  <2>4. CASE ~created
    BY <2>1, <2>2, <2>4 DEF Monitor!vars
  <2> QED BY <2>3, <2>4
<1> QED BY <1>1, <1>2, <1>3, <1>4, <1>5, <1>6, <1>7 DEF Call

\* A step of a PWM thread: only the last one matters.
LEMMA ThreadPulses ==
  ASSUME PwmInv, NEW t \in Threads, Pwm(t), PulsesFit, PulsesFit'
  PROVE  [Monitor!Next]_Monitor!vars
<1> USE DEF PulsesFit
<1>1. CASE Cycle(t) \/ EndPulse(t) \/ LeaveLoop(t)
  <2>1. /\ UNCHANGED <<stage, created, pwm_list, heap>> /\ thread[t] # "none"
        /\ thread'[t] # "none"
    <3>1. thread[t] # "none" /\ UNCHANGED <<stage, created, pwm_list, heap>>
      BY <1>1 DEF Cycle, EndPulse, LeaveLoop, setAngle
    <3>2. pwm_list # Null
      BY <3>1, ThreadFacts, NullAssumption
    <3>3. \E loc \in {"low", "pulse", "unlink"} : thread' = [thread EXCEPT ![t] = loc]
      BY <1>1, <3>2 DEF Cycle, EndPulse, LeaveLoop
    <3> QED BY <3>1, <3>3 DEF PwmInv, TypeOK
  <2>2. Driven /\ Driven'
    BY <2>1 DEF Driven
  <2> QED BY <2>1, <2>2 DEF Monitor!vars
<1>2. CASE RemovePwm(t)
  <2>1. /\ thread[t] = "unlink" /\ thread' = [thread EXCEPT ![t] = "none"]
        /\ UNCHANGED <<stage, created>>
    BY <1>2 DEF RemovePwm, EndThread, setAngle
  <2>2. Driven /\ ~Driven'
    BY <2>1, ThreadFacts DEF Driven, PwmInv, TypeOK
  <2>3. ~ (stage \in Late /\ created)
    BY <2>1, ThreadFacts DEF PwmInv, CallFits
  <2>4. Pulses = "ending" /\ Pulses' = "off" /\ Duty = "zero" /\ Duty' = "zero"
    BY <2>1, <2>2, <2>3
  <2> QED BY <2>4 DEF Monitor!Next, Monitor!End
<1> QED BY <1>1, <1>2 DEF Pwm

\* A call that is given the structure of an earlier thread catches it while its pulses
\* are ending.
LEMMA ClashPulses ==
  ASSUME PulsesFit, [Next]_vars, ~clash, clash'  PROVE Monitor!Catch
<1>1. FindPwm /\ stage \in Early /\ Driven
  BY DEF Next, Call, Pwm, Setup, FindPwm, SetFrequency, SetDutyCycle, StartThread,
         StartFails, Raise, HoldEnds, Stop, Cleanup, Cycle, EndPulse, LeaveLoop, RemovePwm,
         vars, setAngle
<1>2. Pulses = "ending" /\ Duty = "zero"
  BY <1>1 DEF PulsesFit, Early, Late
<1>3. Pulses' = "unknown" /\ Duty' = "zero"
  BY DEF Pulses, Duty
<1> QED BY <1>2, <1>3 DEF Monitor!Catch

LEMMA PulsesStep ==
  ASSUME ~clash => PwmInv /\ DutyFits, (~clash => PwmInv)', [Next]_vars
  PROVE  [Monitor!Next]_Monitor!vars
<1>1. CASE UNCHANGED vars
  BY <1>1 DEF vars, setAngle, pwm, pin, Monitor!vars, Pulses, Duty, IsOn, Driven
<1>2. CASE ~clash' /\ Next
  <2>1. ~clash /\ PwmInv /\ DutyFits /\ PwmInv'
    BY <1>2, NoClashYet
  <2>2. PulsesFit
    BY <2>1, PulsesKnown
  <2>3. PulsesFit'
    BY <1>2, <2>1, PulsesKnown, PTL
  <2> QED BY <1>2, <2>1, <2>2, <2>3, CallPulses, ThreadPulses DEF Next
<1>3. CASE clash' /\ ~clash
  BY <1>3, PulsesKnown, ClashPulses DEF Monitor!Next
<1>4. CASE clash' /\ clash
  BY <1>4 DEF Monitor!vars, Pulses, Duty
<1> QED BY <1>1, <1>2, <1>3, <1>4

-----------------------------------------------------------------------------
(* The theorems *)

PwmUntilClash == HeapInv /\ (~clash => PwmInv /\ DutyFits)

LEMMA UntilClash == Spec => []PwmUntilClash
<1>1. Init => PwmUntilClash
  BY InitHeap, InitInv, InitDuty DEF PwmUntilClash
<1>2. PwmUntilClash /\ [Next]_vars => PwmUntilClash'
  <2> SUFFICES ASSUME PwmUntilClash, [Next]_vars PROVE PwmUntilClash'
    OBVIOUS
  <2>1. HeapInv'
    BY HeapStep DEF PwmUntilClash
  <2>2. ASSUME ~clash' PROVE PwmInv' /\ DutyFits'
    BY <2>2, NoClashYet, Step, DutyStep DEF PwmUntilClash
  <2> QED BY <2>1, <2>2 DEF PwmUntilClash
<1> QED BY <1>1, <1>2, PTL DEF Spec

\* However the calls come, every variable keeps its type until freed memory is used; a
\* PWM thread has a structure from its start to its end (soft_pwm.c:90-114, 192-206).
THEOREM TypeCorrect == Spec => []TypeOK
<1>1. PwmUntilClash => TypeOK
  BY DEF PwmUntilClash, HeapInv
<1> QED BY <1>1, UntilClash, PTL

\* However the calls come, the structures allocated are those of the list until freed
\* memory is used: two calls that overlap never lose one (soft_pwm.c:43-65, 116-155).
THEOREM NothingIsLost == Spec => []ListIsExact
<1>1. PwmUntilClash => ListIsExact
  BY DEF PwmUntilClash, HeapInv
<1> QED BY <1>1, UntilClash, PTL

\* However close the calls are, no structure of the PWM is used after it was freed
\* before a call has been given the structure of an earlier thread (soft_pwm.c:43-65,
\* 90-114, 133-155).
THEOREM NothingFreedIsUsed == Spec => []NoUseAfterFree
<1>1. ASSUME PwmInv
      PROVE  /\ found # Null => heap[found].live
             /\ \A t \in Threads : thread[t] # "none" => heap[ptr[t]].live
  BY <1>1, ThreadFacts DEF PwmInv, TypeOK, ListIsExact, OneUser
<1>2. PwmUntilClash => NoUseAfterFree
  BY <1>1 DEF PwmUntilClash, NoUseAfterFree
<1> QED BY <1>2, UntilClash, PTL

\* ... and exactly one thread drives the servo, with the angle asked for, while
\* setAngle sleeps (setangle.c:30-44, soft_pwm.c:192-214).
THEOREM TheServoIsDriven == Spec => []DrivenUntilClash
<1>1. ASSUME PwmInv, stage = "hold", created
      PROVE  /\ output
             /\ \E t \in Threads :
                  /\ \A u \in Threads : thread[u] # "none" <=> u = t
                  /\ thread[t] \in {"low", "pulse"}
                  /\ heap[ptr[t]] = [live |-> TRUE, running |-> TRUE,
                                    freq |-> "servo", duty |-> "angle"]
  <2>1. output /\ heap[pwm_list].running /\ heap[pwm_list].freq = "servo"
        /\ heap[pwm_list].duty = "angle"
    BY <1>1 DEF PwmInv, CallFits, Late
  <2>2. PICK t \in Threads : thread[t] \in {"low", "pulse"}
    BY <1>1 DEF PwmInv, CallFits, Late
  <2>3. /\ ptr[t] = pwm_list /\ pwm_list \in Cells /\ heap[pwm_list].live
        /\ \A u \in Threads : u # t => thread[u] = "none"
    BY <1>1, <2>2, ThreadFacts
  <2>4. heap[pwm_list] = [live |-> TRUE, running |-> TRUE,
                          freq |-> "servo", duty |-> "angle"]
    BY <1>1, <2>1, <2>3 DEF PwmInv, TypeOK, Struct
  <2> QED BY <2>1, <2>2, <2>3, <2>4
<1>2. PwmUntilClash => DrivenUntilClash
  BY <1>1 DEF PwmUntilClash, DrivenUntilClash, ServoIsDriven
<1> QED BY <1>2, UntilClash, PTL

\* The servo gets one train of pulses after the other, each from rest to rest, and none
\* ends before pwm_stop; the one way out is a call that is given the structure of a
\* train that is ending (setangle.c:30-49, soft_pwm.c:90-114, 133-155, 192-214).
THEOREM ServoImplementsMonitor == Spec => ImplementsMonitor
<1>1. Init => Monitor!Init
  BY DEF Init, Monitor!Init, Pulses, Duty, IsOn, Driven
<1>2. PwmUntilClash /\ PwmUntilClash' /\ [Next]_vars => [Monitor!Next]_Monitor!vars
  BY PulsesStep DEF PwmUntilClash
<1> QED BY <1>1, <1>2, UntilClash, PTL DEF Spec, Monitor!Spec, ImplementsMonitor
=============================================================================
