------------------------------- MODULE SoftPwm ------------------------------
(***************************************************************************)
(* The servo: setAngle (setangle.c) and the software PWM it drives         *)
(* (utility_servo/soft_pwm.c).                                             *)
(*                                                                         *)
(* setAngle is called by one thread at a time, as Rasputin protects it.    *)
(* It reaches the PWM of the pin through pwm_list: every pwm_ function     *)
(* first finds the pin's structure, making it when there is none, and then *)
(* uses it.  pwm_start creates a thread that repeats the pulse; pwm_stop   *)
(* only clears the flag running.  The thread looks at the flag once a      *)
(* period, and then unlinks and frees the structure by itself, with no     *)
(* lock, whatever setAngle is doing by then.                               *)
(*                                                                         *)
(* The server uses one pin, so the list has at most one structure.  Memory *)
(* is a set of cells; a cell that was freed may be allocated again.  What  *)
(* follows a use of a freed cell is undefined, and the model stops there.  *)
(*                                                                         *)
(* An operator named Bug... is a faulty form of the operator behind it; no *)
(* specification uses it.                                                  *)
(***************************************************************************)

CONSTANTS
    Cells,      \* addresses malloc may return
    Threads,    \* BOUND: threads of pwm_thread at the same time
    Null        \* the null pointer

ASSUME NullAssumption == Null \notin Cells

VARIABLES
    stage,      \* where setAngle is
    found,      \* the local p of a pwm_ function, Null until it has searched
    created,    \* pthread_create succeeded in this call
    clash,      \* history: a call was given the structure of a thread of an earlier one
    pwm_list,   \* the one structure of the list, or Null
    heap,       \* every cell
    thread,     \* location of every PWM thread
    ptr,        \* the structure a PWM thread is about to read
    high,       \* the level of the pin
    output      \* the pin's direction

setAngle == <<stage, found, created, clash>>
pwm      == <<thread, ptr>>
pin      == <<high, output>>
vars     == <<setAngle, pwm_list, heap, pwm, pin>>

-----------------------------------------------------------------------------
\* setAngle in the order of its calls; those of soft_pwm.c search first.
After == [frequency |-> "zero", zero |-> "start", start |-> "high",
          angle |-> "hold", rest |-> "stop", stop |-> "cleanup"]
Early  == {"frequency", "zero", "start"}
Late   == {"high", "angle", "hold", "rest", "stop"}
Stages == {"idle", "high", "hold", "cleanup"} \cup DOMAIN After

\* low and pulse: asleep with the pin at that level; unlink: inside remove_pwm.
Locs == {"none", "low", "pulse", "unlink"}

Struct == [live : BOOLEAN, running : BOOLEAN, freq : {"default", "servo"},
           duty : {"zero", "angle"}]

\* What add_new_pwm makes of an allocated cell; the cell of a freed one.
NewStruct == [live |-> TRUE, running |-> FALSE, freq |-> "default", duty |-> "zero"]
Freed     == [NewStruct EXCEPT !.live = FALSE]

TypeOK ==
    /\ stage \in Stages
    /\ found \in Cells \cup {Null}
    /\ created \in BOOLEAN
    /\ clash \in BOOLEAN
    /\ pwm_list \in Cells \cup {Null}
    /\ heap \in [Cells -> Struct]
    /\ thread \in [Threads -> Locs]
    /\ ptr \in [Threads -> Cells \cup {Null}]
    /\ \A t \in Threads : thread[t] = "none" <=> ptr[t] = Null
    /\ high \in BOOLEAN
    /\ output \in BOOLEAN

Driven == \E t \in Threads : thread[t] # "none"

Init ==
    /\ stage = "idle"
    /\ found = Null
    /\ created = FALSE
    /\ clash = FALSE
    /\ pwm_list = Null
    /\ heap = [c \in Cells |-> Freed]
    /\ thread = [t \in Threads |-> "none"]
    /\ ptr = [t \in Threads |-> Null]
    /\ high = FALSE
    /\ output = FALSE

-----------------------------------------------------------------------------
(* setAngle *)

\* setupPWM: the registers are mapped, the pin is an output and low.
Setup ==
    /\ stage = "idle"
    /\ stage' = "frequency"
    /\ created' = FALSE
    /\ high' = FALSE
    /\ output' = TRUE
    /\ UNCHANGED <<found, clash, pwm_list, heap, pwm>>

\* Faulty: a new structure is not linked into the list.
BugFindPwm ==
    /\ stage \in DOMAIN After
    /\ found = Null
    /\ IF pwm_list = Null
         THEN \E c \in Cells : /\ ~heap[c].live
                               /\ heap' = [heap EXCEPT ![c] = NewStruct]
                               /\ found' = c
         ELSE found' = pwm_list /\ UNCHANGED heap
    /\ UNCHANGED <<stage, created, clash, pwm_list, pwm, pin>>

\* find_pwm, with add_new_pwm for an empty list.  A call that has not started its own
\* thread may be given the structure of an earlier thread, which was told to end and
\* will free it.
FindPwm ==
    /\ stage \in DOMAIN After
    /\ found = Null
    /\ IF pwm_list = Null
         THEN /\ \E c \in Cells : /\ ~heap[c].live
                                  /\ heap' = [heap EXCEPT ![c] = NewStruct]
                                  /\ pwm_list' = c
                                  /\ found' = c
              /\ UNCHANGED clash
         ELSE /\ found' = pwm_list
              /\ clash' = (clash \/ (stage \in Early /\ Driven))
              /\ UNCHANGED <<heap, pwm_list>>
    /\ UNCHANGED <<stage, created, pwm, pin>>

\* The structure found is used, and the pwm_ function returns.
Returns ==
    /\ found # Null
    /\ heap[found].live
    /\ stage' = After[stage]
    /\ found' = Null

SetFrequency ==
    /\ stage = "frequency"
    /\ Returns
    /\ heap' = [heap EXCEPT ![found].freq = "servo"]
    /\ UNCHANGED <<created, clash, pwm_list, pwm, pin>>

\* Faulty: the duty cycle stays at the angle after the sleep.
BugSetDutyCycle ==
    /\ stage \in {"zero", "angle", "rest"}
    /\ Returns
    /\ heap' = [heap EXCEPT ![found].duty = IF stage = "zero" THEN "zero" ELSE "angle"]
    /\ UNCHANGED <<created, clash, pwm_list, pwm, pin>>

\* pwm_set_duty_cycle, with 0 or with angle/18 + 2.
SetDutyCycle ==
    /\ stage \in {"zero", "angle", "rest"}
    /\ Returns
    /\ heap' = [heap EXCEPT ![found].duty = IF stage = "angle" THEN "angle" ELSE "zero"]
    /\ UNCHANGED <<created, clash, pwm_list, pwm, pin>>

\* Faulty: the new thread is not given the structure.
BugStartThread ==
    /\ stage = "start"
    /\ Returns
    /\ ~heap[found].running
    /\ \E t \in Threads : /\ thread[t] = "none"
                          /\ thread' = [thread EXCEPT ![t] = "low"]
    /\ heap' = [heap EXCEPT ![found].running = TRUE]
    /\ created' = TRUE
    /\ UNCHANGED <<clash, ptr, pwm_list, pin>>

\* pwm_start.  A structure that is running already would have its thread; this
\* does not happen here, as only setAngle sets the flag and it clears it again.
StartThread ==
    /\ stage = "start"
    /\ Returns
    /\ ~heap[found].running
    /\ \E t \in Threads : /\ thread[t] = "none"
                          /\ thread' = [thread EXCEPT ![t] = "low"]
                          /\ ptr' = [ptr EXCEPT ![t] = found]
    /\ heap' = [heap EXCEPT ![found].running = TRUE]
    /\ created' = TRUE
    /\ UNCHANGED <<clash, pwm_list, pin>>

\* pthread_create failed: the flag is cleared again and nobody is told.
StartFails ==
    /\ stage = "start"
    /\ Returns
    /\ UNCHANGED <<created, clash, pwm_list, heap, pwm, pin>>

Raise ==
    /\ stage = "high"
    /\ stage' = "angle"
    /\ high' = TRUE
    /\ UNCHANGED <<found, created, clash, pwm_list, heap, pwm, output>>

\* Faulty: the pin is not lowered after the sleep.
BugHoldEnds ==
    /\ stage = "hold"
    /\ stage' = "rest"
    /\ UNCHANGED <<found, created, clash, pwm_list, heap, pwm, pin>>

\* sleep(1) is over; the pin is lowered.
HoldEnds ==
    /\ stage = "hold"
    /\ stage' = "rest"
    /\ high' = FALSE
    /\ UNCHANGED <<found, created, clash, pwm_list, heap, pwm, output>>

\* Faulty: the flag stays set.
BugStop ==
    /\ stage = "stop"
    /\ Returns
    /\ UNCHANGED <<created, clash, pwm_list, heap, pwm, pin>>

\* pwm_stop.
Stop ==
    /\ stage = "stop"
    /\ Returns
    /\ heap' = [heap EXCEPT ![found].running = FALSE]
    /\ UNCHANGED <<created, clash, pwm_list, pwm, pin>>

\* Faulty: the structure is removed here and not by its thread.
BugCleanup ==
    /\ stage = "cleanup"
    /\ stage' = "idle"
    /\ output' = FALSE
    /\ pwm_list' = Null
    /\ heap' = [c \in Cells |-> IF c = pwm_list THEN Freed ELSE heap[c]]
    /\ UNCHANGED <<found, created, clash, pwm, high>>

\* event_cleanup has nothing to do; the pin is an input again.
Cleanup ==
    /\ stage = "cleanup"
    /\ stage' = "idle"
    /\ output' = FALSE
    /\ UNCHANGED <<found, created, clash, pwm_list, heap, pwm, high>>

-----------------------------------------------------------------------------
(* pwm_thread *)

\* The top of the loop: a pulse when the duty cycle asks for one, else no change
\* but to low.
Cycle(t) ==
    /\ thread[t] = "low"
    /\ heap[ptr[t]].live
    /\ heap[ptr[t]].running
    /\ high' = (heap[ptr[t]].duty = "angle")
    /\ thread' = [thread EXCEPT ![t] = IF high' THEN "pulse" ELSE "low"]
    /\ UNCHANGED <<setAngle, pwm_list, heap, ptr, output>>

\* The second half of the loop; the duty cycle is never 100.
EndPulse(t) ==
    /\ thread[t] = "pulse"
    /\ heap[ptr[t]].live
    /\ high' = FALSE
    /\ thread' = [thread EXCEPT ![t] = "low"]
    /\ UNCHANGED <<setAngle, pwm_list, heap, ptr, output>>

EndThread(t) ==
    /\ thread' = [thread EXCEPT ![t] = "none"]
    /\ ptr' = [ptr EXCEPT ![t] = Null]

\* The flag is down: the pin is lowered, and remove_pwm begins with the head of
\* the list, which need not be this thread's structure.
LeaveLoop(t) ==
    /\ thread[t] = "low"
    /\ heap[ptr[t]].live
    /\ ~heap[ptr[t]].running
    /\ high' = FALSE
    /\ IF pwm_list = Null
         THEN EndThread(t)
         ELSE /\ thread' = [thread EXCEPT ![t] = "unlink"]
              /\ ptr' = [ptr EXCEPT ![t] = pwm_list]
    /\ UNCHANGED <<setAngle, pwm_list, heap, output>>

\* Faulty: the structure is unlinked and never freed.
BugRemovePwm(t) ==
    /\ thread[t] = "unlink"
    /\ heap[ptr[t]].live
    /\ pwm_list' = Null
    /\ EndThread(t)
    /\ UNCHANGED <<setAngle, heap, pin>>

\* The structure is unlinked and freed.
RemovePwm(t) ==
    /\ thread[t] = "unlink"
    /\ heap[ptr[t]].live
    /\ pwm_list' = Null
    /\ heap' = [heap EXCEPT ![ptr[t]] = Freed]
    /\ EndThread(t)
    /\ UNCHANGED <<setAngle, pin>>

-----------------------------------------------------------------------------
Call == \/ FindPwm \/ SetFrequency \/ SetDutyCycle \/ StartThread \/ StartFails
        \/ Raise \/ HoldEnds \/ Stop \/ Cleanup

Pwm(t) == Cycle(t) \/ EndPulse(t) \/ LeaveLoop(t) \/ RemovePwm(t)

Next == Setup \/ Call \/ \E t \in Threads : Pwm(t)

Spec == Init /\ [][Next]_vars

\* Sleeps end and the scheduler runs every thread; nobody need ask for an angle.
FairSpec == Spec /\ WF_vars(Call) /\ \A t \in Threads : WF_vars(Pwm(t))

-----------------------------------------------------------------------------
(* Properties *)

\* Until a call is given the structure of an earlier thread no structure is used after
\* it was freed: whatever a pwm_ function has found and whatever a thread is about to
\* read is allocated.  An earlier thread that has only not ended yet does no harm
\* (soft_pwm.c:43-65, 90-114, 133-155).
NoUseAfterFree ==
    ~clash =>
      /\ found # Null => heap[found].live
      /\ \A t \in Threads : thread[t] # "none" => heap[ptr[t]].live

\* The structures allocated are those of the list: none is lost, and none in the
\* list was freed (soft_pwm.c:43-65, 116-155).
ListIsExact == \A c \in Cells : heap[c].live <=> c = pwm_list

\* While setAngle sleeps, exactly one thread drives the pin, and it does so with
\* the angle asked for and at the servo's frequency; unless it could not be
\* created, which setAngle does not notice (setangle.c:30-44).
ServoIsDriven ==
    stage = "hold" /\ created =>
      /\ output
      /\ \E t \in Threads :
           /\ \A u \in Threads : thread[u] # "none" <=> u = t
           /\ thread[t] \in {"low", "pulse"}
           /\ heap[ptr[t]] = [live |-> TRUE, running |-> TRUE,
                             freq |-> "servo", duty |-> "angle"]

\* ... and that holds until a call is given the structure of an earlier thread, however
\* close the calls are (setangle.c:30-44, soft_pwm.c:133-155, 192-214).
DrivenUntilClash == ~clash => ServoIsDriven

\* The rest of the inductive invariant until a clash: at most one PWM thread, and
\* everybody uses the structure of the list ...
OneUser ==
    /\ \A t, u \in Threads : thread[t] # "none" /\ thread[u] # "none" => t = u
    /\ \A t \in Threads : thread[t] # "none" => ptr[t] = pwm_list
    /\ found # Null => found = pwm_list

\* ... there is no thread between the first find_pwm and pwm_start, and none out of its
\* loop before pwm_stop; the structure keeps what the call has set in it.
CallFits ==
    /\ stage # "idle" => output
    /\ stage \in {"idle", "high", "hold", "cleanup"} => found = Null
    /\ stage \in Early => ~created
    /\ stage \in {"zero", "start"} \/ (stage = "frequency" /\ found # Null) =>
         \A t \in Threads : thread[t] = "none"
    /\ stage \in {"zero", "start"} =>
         pwm_list # Null /\ heap[pwm_list].freq = "servo"
    /\ stage \notin Late /\ pwm_list # Null => ~heap[pwm_list].running
    /\ stage \in Late /\ ~created =>
         /\ \A t \in Threads : thread[t] = "none"
         /\ pwm_list # Null => ~heap[pwm_list].running
    /\ stage \in Late /\ created =>
         /\ pwm_list # Null
         /\ heap[pwm_list].running /\ heap[pwm_list].freq = "servo"
         /\ stage = "hold" => heap[pwm_list].duty = "angle"
         /\ \E t \in Threads : thread[t] \in {"low", "pulse"}

PwmInv == TypeOK /\ ListIsExact /\ OneUser /\ CallFits

\* ... and its pulses are at rest when they begin and when they are told to end.
DutyFits ==
    /\ stage = "start" => heap[pwm_list].duty = "zero"
    /\ created /\ stage \in {"high", "angle", "stop"} => heap[pwm_list].duty = "zero"
    /\ created /\ stage = "rest" => heap[pwm_list].duty = "angle"

\* Every PWM thread ends after its call of setAngle, unless a later call has been given
\* its structure first (soft_pwm.c:90-114, 208-214).
ThreadsEnd == \A t \in Threads : thread[t] # "none" ~> (thread[t] = "none" \/ clash)

\* The pin does not stay high, whether or not a thread drives it (setangle.c:41-47).
PulsesEnd == high ~> (~high \/ clash)

IsOn   == Driven /\ heap[pwm_list].running

Pulses == IF clash THEN "unknown" ELSE IF IsOn THEN "on" ELSE IF Driven THEN "ending" ELSE "off"
Duty   == IF ~clash /\ IsOn THEN heap[pwm_list].duty ELSE "zero"

Monitor == INSTANCE ServoMonitor WITH pulses <- Pulses, duty <- Duty

\* However close they are, calls of setAngle and their threads give the servo one train
\* of pulses after the other, each from rest to rest, and none ends before pwm_stop.
\* That is over only when a call is given the structure of a train that is ending
\* (setangle.c:30-49, soft_pwm.c:90-114, 133-155, 192-214).
ImplementsMonitor == Monitor!Spec
=============================================================================
