------------------------------ MODULE TestTask ------------------------------
(***************************************************************************)
(* The TestTask of the demos 024.test_task and 025.test_user_data: a Task  *)
(* whose coroutine receives numbers until end_task() or cancel().  The two *)
(* demos differ in the order in which end_task() sets is_end and resumes.  *)
(* Any member function may be called at any time by the threads that hold  *)
(* the task.                                                               *)
(***************************************************************************)
EXTENDS Task

CONSTANT MaxInputs       \* bound: numbers that are sent

ASSUME TestTaskAssumption == MaxInputs \in Nat /\ Inputs = 1..MaxInputs

VARIABLES demo,        \* which of the two classes it is
          is_end, final_result,
          epc,         \* where the caller of end_task() is
          next_input,  \* the number that is sent next
          received,    \* history: numbers the coroutine received
          paused,      \* history: pause() has been called
          resumed      \* history: resume() was called after the last pause()

testVars == <<demo, paused, is_end, final_result, epc, next_input, received, resumed>>

vars == <<taskVars, testVars>>

Init ==
    /\ TaskInit
    /\ demo \in {"024", "025"}
    /\ paused = FALSE
    /\ is_end = FALSE
    /\ final_result = "SUCCESS"
    /\ epc = "idle"
    /\ next_input = 1
    /\ received = <<>>
    /\ resumed = FALSE

-----------------------------------------------------------------------------
(* Users                                                                   *)

UserRun    == Run /\ UNCHANGED testVars
UserStatus == GetCurrentStatus /\ UNCHANGED testVars
UserCancel == Cancel /\ UNCHANGED testVars
UserDrop   == epc \in {"idle", "ended"} /\ DropRef /\ UNCHANGED testVars

UserSend ==
    /\ next_input <= MaxInputs
    /\ SendInputParameters(next_input)
    /\ next_input' = next_input + 1
    /\ UNCHANGED <<demo, paused, is_end, final_result, epc, received, resumed>>

UserPause ==
    /\ Pause
    /\ paused' = TRUE
    /\ resumed' = (resumed /\ ~ret'.ok)
    /\ UNCHANGED <<demo, is_end, final_result, epc, next_input, received>>

UserResume ==
    /\ Resume
    /\ resumed' = TRUE
    /\ UNCHANGED <<demo, paused, is_end, final_result, epc, next_input, received>>

\* end_task() of 024 calls resume() before it sets is_end.
ResumeFirst == demo = "024"

\* end_task(value), called once: final_result_, then is_end and resume().
EndTask ==
    /\ epc = "idle"
    /\ user_ref
    /\ \E res \in {"SUCCESS", "FAILURE"} : final_result' = res
    /\ epc' = IF ResumeFirst THEN "resume" ELSE "flag"
    /\ UNCHANGED <<taskVars, demo, paused, is_end, next_input, received, resumed>>

EndTaskFlag ==
    /\ epc = "flag"
    /\ is_end' = TRUE
    /\ epc' = IF ResumeFirst THEN "ended" ELSE "resume"
    /\ UNCHANGED <<taskVars, demo, paused, final_result, next_input, received, resumed>>

EndTaskResume ==
    /\ epc = "resume"
    /\ Resume
    /\ resumed' = TRUE
    /\ epc' = IF ResumeFirst THEN "flag" ELSE "ended"
    /\ UNCHANGED <<demo, paused, is_end, final_result, next_input, received>>

Users ==
    \/ UserRun \/ UserStatus \/ UserCancel \/ UserDrop
    \/ UserSend \/ UserPause \/ UserResume \/ EndTask

EndTaskSteps == EndTaskFlag \/ EndTaskResume

-----------------------------------------------------------------------------
(* run_coroutine()                                                         *)

LoopTest ==
    /\ cpc = "top"
    /\ cpc' = IF is_end THEN "return_final" ELSE "cancel_test"
    /\ UNCHANGED <<status, channels, lifetime, ret, testVars>>

CancelTest ==
    /\ cpc = "cancel_test"
    /\ cpc' = IF current_status = "CANCELLED" THEN "return_cancelled" ELSE "resume"
    /\ UNCHANGED <<status, channels, lifetime, ret, testVars>>

WaitForResume ==
    AsyncWaitForResume("input", "return_cancelled") /\ UNCHANGED testVars

WaitForInput ==
    \/ (InputSpawn \/ InputStart \/ ControlWins("top")) /\ UNCHANGED testVars
    \/ /\ InputWins
       /\ received' = Append(received, Message(input))
       /\ cpc' = "top"
       /\ UNCHANGED <<demo, paused, is_end, final_result, epc, next_input, resumed>>

CoReturn ==
    /\ \/ CoroutineReturns("return_final", final_result)
       \/ CoroutineReturns("return_cancelled", "CANCELLED")
    /\ UNCHANGED testVars

Coroutine == LoopTest \/ CancelTest \/ WaitForResume \/ WaitForInput \/ CoReturn

Destructor == DestructorCancels /\ UNCHANGED testVars

-----------------------------------------------------------------------------
Next == Users \/ EndTaskSteps \/ Coroutine \/ Destructor

Spec == Init /\ [][Next]_vars

\* The pool runs a coroutine that can run, and threads are scheduled; nobody
\* has to call anything.
FairSpec ==
    /\ Spec
    /\ WF_vars(Coroutine)
    /\ WF_vars(EndTaskSteps)
    /\ WF_vars(Destructor)

-----------------------------------------------------------------------------
(* Correctness                                                             *)

\* Once get_current_status() has taken the result, the status says what the
\* coroutine returned, whatever cancel(), pause() and resume() do afterwards.
ResultFaithful ==
    cached_result # "none" => current_status = StatusOf(cached_result)

\* The coroutine never waits for input while the task is paused unless the
\* command that will end the wait is there already.
PauseIsNoticed ==
    (current_status = "PAUSED" /\ cpc = "input_wait") => control.op # "waiting"

\* Numbers are received in the order they were sent and none twice, although
\* the wait for input and the wait for a command cancel each other.
InputsInOrder ==
    \A i, j \in 1..Len(received) : i < j => received[i] < received[j]

\* A successful cancel() ends the coroutine, wherever it is: before its loop
\* test, paused, waiting, or about to drop the CANCEL it received.
CancelEndsTask == (current_status = "CANCELLED") ~> (cpc = "done")

\* With is_end set before resume(), as in 025, end_task() ends the coroutine
\* of a task nobody pauses, even when resume() fails.
EndTaskEnds ==
    (epc = "ended" /\ ~ResumeFirst /\ cpc # "not_started")
      ~> (cpc = "done" \/ paused)

-----------------------------------------------------------------------------
(* What comments in task.hpp say and the code does not do                  *)

\* task.hpp:225: afterwards cancel() can only be repeated.  Repeating it, as
\* the destructor of a task that ran does, succeeds.
RepeatedCancelSucceeds ==
    (dtor = "cancelling" /\ current_status # "INITIAL") ~> (dtor = "done")

\* task.hpp:192: the coroutine finds out that pause() was called and enters
\* the paused state; only a later resume() makes a paused task run.
PauseHolds ==
    [][(current_status = "PAUSED" /\ current_status' = "RUNNING") => resumed]_vars
=============================================================================
