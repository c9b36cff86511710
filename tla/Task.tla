-------------------------------- MODULE Task --------------------------------
(***************************************************************************)
(* task::Task<T> (behaviortree_test/task/task.hpp): a coroutine on the     *)
(* pool, controlled by its users through a status that a mutex protects    *)
(* and two channels of capacity 1.  This module has the class: its state,  *)
(* what users call, and the awaitables a run_coroutine() is built from.    *)
(* TestTask and OtaNode add the coroutines of the demos.                   *)
(*                                                                         *)
(* A member function that holds current_status_mutex_ is one action, and   *)
(* so is one operation on a channel.                                       *)
(***************************************************************************)
EXTENDS AsioChannel

CONSTANTS Inputs,   \* values of T
          Hooks     \* what when_pause() and when_resume() may return

ASSUME TaskAssumption == Hooks \subseteq BOOLEAN /\ Hooks # {}

VARIABLES current_status,
          result,         \* result_: none (not valid), pending, or the result
          cached_result,  \* cached_result_, or none
          input,          \* input_parameters_channel_
          control,        \* task_control_channel_
          cpc,            \* where the coroutine is
          user_ref,       \* a user still holds the shared_ptr
          dtor,           \* ~Task(): none, cancelling, done
          ret             \* the last call of a user and what it returned

status    == <<current_status, result, cached_result>>
channels  == <<input, control>>
lifetime  == <<user_ref, dtor>>
taskVars  == <<status, channels, cpc, lifetime, ret>>

TaskCommand == {"CANCEL", "PAUSE", "RESUME"}
TaskStatus  == {"INITIAL", "RUNNING", "COMPLETED", "FAILED", "CANCELLED", "PAUSED"}
TaskResult  == {"SUCCESS", "FAILURE", "CANCELLED"}

\* A task that has been constructed and is held by a user.
TaskInit ==
    /\ current_status = "INITIAL"
    /\ result = "none"
    /\ cached_result = "none"
    /\ input = Empty
    /\ control = Empty
    /\ cpc = "not_started"
    /\ user_ref = TRUE
    /\ dtor = "none"
    /\ ret = [op |-> "none", ok |-> TRUE]

Return(op, ok) == ret' = [op |-> op, ok |-> ok]

-----------------------------------------------------------------------------
(* Called by users                                                         *)

\* run(): only from INITIAL; the coroutine is spawned on the pool.
Run ==
    /\ user_ref
    /\ IF current_status = "INITIAL"
       THEN /\ current_status' = "RUNNING"
            /\ result' = "pending"
            /\ cpc' = "top"
            /\ Return("run", TRUE)
       ELSE /\ Return("run", FALSE)
            /\ UNCHANGED <<current_status, result, cpc>>
    /\ UNCHANGED <<cached_result, channels, lifetime>>

StatusOf(res) ==
    CASE res = "SUCCESS"   -> "COMPLETED"
      [] res = "CANCELLED" -> "CANCELLED"
      [] OTHER             -> "FAILED"

\* get_current_status(): the first call after the coroutine ended takes the
\* result out of the future, caches it and overwrites the status.
GetCurrentStatus ==
    /\ user_ref
    /\ IF cached_result = "none" /\ result \notin {"none", "pending"}
       THEN /\ cached_result' = IF result = "exception" THEN "FAILURE" ELSE result
            /\ current_status' = StatusOf(result)
       ELSE UNCHANGED <<cached_result, current_status>>
    /\ Return("status", TRUE)
    /\ UNCHANGED <<result, channels, cpc, lifetime>>

\* send_input_parameters(v): try_send, whatever the status.
SendInputParameters(v) ==
    /\ user_ref
    /\ IF CanSend(input, 1)
       THEN input' = Send(input, v) /\ Return("send", TRUE)
       ELSE UNCHANGED input /\ Return("send", FALSE)
    /\ UNCHANGED <<status, control, cpc, lifetime>>

\* Fault: only the status is set, for the coroutine to poll.
Pause_StatusOnly ==
    /\ user_ref
    /\ IF current_status \in {"RUNNING", "PAUSED"}
       THEN current_status' = "PAUSED" /\ Return("pause", TRUE)
       ELSE UNCHANGED current_status /\ Return("pause", FALSE)
    /\ UNCHANGED <<control, result, cached_result, input, cpc, lifetime>>

\* pause(): the coroutine is told, and polls the status as well.
Pause ==
    /\ user_ref
    /\ IF current_status \in {"RUNNING", "PAUSED"} /\ CanSend(control, 1)
       THEN /\ control' = Send(control, "PAUSE")
            /\ current_status' = "PAUSED"
            /\ Return("pause", TRUE)
       ELSE /\ Return("pause", FALSE)
            /\ UNCHANGED <<control, current_status>>
    /\ UNCHANGED <<result, cached_result, input, cpc, lifetime>>

\* resume(): neither the mutex nor the status; the coroutine sets RUNNING.
SendResume ==
    IF CanSend(control, 1)
    THEN control' = Send(control, "RESUME") /\ Return("resume", TRUE)
    ELSE UNCHANGED control /\ Return("resume", FALSE)

Resume ==
    /\ user_ref
    /\ SendResume
    /\ UNCHANGED <<status, input, cpc, lifetime>>

\* Fault: the terminal states are not tested.
CancelSends_AnyState == current_status # "INITIAL" /\ CanSend(control, 1)

\* cancel(): what it returns, and what it does to the status and the channel.
CancelSends == current_status \in {"RUNNING", "PAUSED", "CANCELLED"} /\ CanSend(control, 1)

CancelReturns == current_status \in {"COMPLETED", "FAILED"} \/ CancelSends

\* Fault: the coroutine is not told.
CancelBody_StatusOnly ==
    /\ current_status' = IF CancelSends THEN "CANCELLED" ELSE current_status
    /\ UNCHANGED <<control, result, cached_result, input, cpc>>

\* Fault: the status is left to the coroutine.
CancelBody_CommandOnly ==
    /\ control' = IF CancelSends THEN Send(control, "CANCEL") ELSE control
    /\ UNCHANGED <<current_status, result, cached_result, input, cpc>>

CancelBody ==
    /\ IF CancelSends
       THEN control' = Send(control, "CANCEL") /\ current_status' = "CANCELLED"
       ELSE UNCHANGED <<control, current_status>>
    /\ UNCHANGED <<result, cached_result, input, cpc>>

Cancel ==
    /\ user_ref
    /\ CancelBody
    /\ Return("cancel", CancelReturns)
    /\ UNCHANGED lifetime

-----------------------------------------------------------------------------
(* The end of the task                                                     *)

\* The coroutine holds a shared_ptr from run() until its frame is destroyed.
CoroutineRef == cpc \notin {"not_started", "done"}

\* The user drops the last shared_ptr that is not the coroutine's.
DropRef ==
    /\ user_ref
    /\ user_ref' = FALSE
    /\ dtor' = IF CoroutineRef THEN "none" ELSE "cancelling"
    /\ UNCHANGED <<status, channels, cpc, ret>>

\* run_coroutine() returned: the promise is set and the frame destroyed.
CoroutineReturns(at, res) ==
    /\ cpc = at
    /\ result' = res
    /\ cpc' = "done"
    /\ dtor' = IF user_ref THEN "none" ELSE "cancelling"
    /\ UNCHANGED <<current_status, cached_result, channels, user_ref, ret>>

\* One round of the loop in ~Task(): cancel(), and sleep when it failed.
DestructorCancels ==
    /\ dtor = "cancelling"
    /\ CancelBody
    /\ dtor' = IF CancelReturns THEN "done" ELSE "cancelling"
    /\ UNCHANGED <<user_ref, ret>>

-----------------------------------------------------------------------------
(* Awaitables for run_coroutine(); onTrue, onFalse, ... say where it goes  *)

\* set_status(): the transitions its switch lets through.
Transitions ==
    {<<s, s>> : s \in TaskStatus}
      \cup {"INITIAL"} \X {"RUNNING", "CANCELLED"}
      \cup {"RUNNING"} \X {"PAUSED", "CANCELLED", "COMPLETED", "FAILED"}
      \cup {"PAUSED"} \X {"RUNNING", "CANCELLED"}

\* async_wait_for_resume(): the loop test, and when_pause().
ResumeTest(onTrue, onFalse) ==
    /\ cpc = "resume"
    /\ IF current_status = "PAUSED"
       THEN \E ok \in Hooks : cpc' = IF ok THEN "resume_receive" ELSE onFalse
       ELSE cpc' = onTrue
    /\ UNCHANGED <<status, channels, lifetime, ret>>

ResumeReceive ==
    /\ cpc = "resume_receive"
    /\ control' = Receive(control)
    /\ cpc' = "resume_wait"
    /\ UNCHANGED <<status, input, lifetime, ret>>

\* A command arrived; when_resume() is asked on RESUME.
ResumeGot(onFalse) ==
    /\ cpc = "resume_wait"
    /\ Ready(control)
    /\ control' = Finish(control)
    /\ CASE Message(control) = "RESUME" ->
              \E ok \in Hooks : cpc' = IF ok THEN "set_running" ELSE onFalse
         [] Message(control) = "PAUSE"  -> cpc' = "resume"
         [] OTHER -> cpc' = onFalse
    /\ UNCHANGED <<status, input, lifetime, ret>>

\* co_return set_status(RUNNING).
ResumeSetRunning(onTrue, onFalse) ==
    /\ cpc = "set_running"
    /\ IF <<current_status, "RUNNING">> \in Transitions
       THEN current_status' = "RUNNING" /\ cpc' = onTrue
       ELSE cpc' = onFalse /\ UNCHANGED current_status
    /\ UNCHANGED <<result, cached_result, channels, lifetime, ret>>

AsyncWaitForResume(onTrue, onFalse) ==
    \/ ResumeTest(onTrue, onFalse)
    \/ ResumeReceive
    \/ ResumeGot(onFalse)
    \/ ResumeSetRunning(onTrue, onFalse)

\* wait_for_input_parameters(): two receives are spawned, ...
InputSpawn ==
    /\ cpc = "input"
    /\ input' = Spawn(input)
    /\ control' = Spawn(control)
    /\ cpc' = "input_wait"
    /\ UNCHANGED <<status, lifetime, ret>>

\* ... each looks at its channel when it starts, ...
InputStart ==
    /\ cpc = "input_wait"
    /\ \/ /\ input.op = "starting"
          /\ input' = Receive(input)
          /\ UNCHANGED control
       \/ /\ control.op = "starting"
          /\ control' = Receive(control)
          /\ UNCHANGED input
    /\ UNCHANGED <<status, cpc, lifetime, ret>>

\* Fault: the message stays in the channel.
InputWins_KeepsMessage ==
    /\ cpc = "input_wait"
    /\ Ready(input)
    /\ input' = [Finish(input) EXCEPT !.buf = input.got]
    /\ control' = Finish(control)
    /\ UNCHANGED <<status, lifetime, ret>>

\* ... and the one that completes first cancels the other, whose message, if
\* it had taken one already, is dropped.
InputWins ==
    /\ cpc = "input_wait"
    /\ Ready(input)
    /\ input' = Finish(input)
    /\ control' = Finish(control)
    /\ UNCHANGED <<status, lifetime, ret>>

\* Fault: RESUME goes on waiting for input.
ControlWins_WaitsOn(onError) ==
    /\ cpc = "input_wait"
    /\ Ready(control)
    /\ input' = Finish(input)
    /\ control' = Finish(control)
    /\ cpc' = IF Message(control) = "RESUME" THEN "input" ELSE onError
    /\ UNCHANGED <<status, lifetime, ret>>

\* Any command ends the wait with an error.
ControlWins(onError) ==
    /\ cpc = "input_wait"
    /\ Ready(control)
    /\ input' = Finish(input)
    /\ control' = Finish(control)
    /\ cpc' = onError
    /\ UNCHANGED <<status, lifetime, ret>>
=============================================================================
