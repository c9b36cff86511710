------------------------------- MODULE OtaNode -------------------------------
(***************************************************************************)
(* The demo 026.ota_state: a behaviour-tree node that owns an OtaTask and  *)
(* forwards the blackboard entry ota_state to it on every tick, and the    *)
(* main() that ticks the tree and sets the entry to COMPLETED after a      *)
(* number of rounds.  The tree is Sequence(Script, Fallback(OtaNode,       *)
(* AlwaysSuccess)); it is RUNNING exactly while the node is.               *)
(***************************************************************************)
EXTENDS Task

CONSTANT Rounds     \* ticks before main() sets COMPLETED (100 in the code)

\* The Inputs of the task.
OtaState == {"IDLE", "DOWNLOADING", "VERIFYING", "UPDATING", "COMPLETED", "FAILED"}

VARIABLES any_tree,    \* the node is in some other tree than the demo's, whose
                       \* nodes set the entry and which may be halted
          mpc,         \* where main() and the node are
          i,           \* main()'s counter, capped at Rounds
          ota_state,   \* blackboard entry
          node_status  \* status of the node: IDLE, RUNNING, SUCCESS, FAILURE

otaVars == <<any_tree, mpc, i, ota_state, node_status>>

vars == <<taskVars, otaVars>>

\* Before the first tick; the Script node sets DOWNLOADING in that tick.
Init ==
    /\ TaskInit
    /\ any_tree \in BOOLEAN
    /\ mpc = "start"
    /\ i = 0
    /\ ota_state = "DOWNLOADING"
    /\ node_status = "IDLE"

-----------------------------------------------------------------------------
(* OtaTask::run_coroutine()                                                *)

\* Fault: the test is made once the channel has been read.
CancelTest_Skipped ==
    /\ cpc = "top"
    /\ cpc' = "resume"
    /\ UNCHANGED <<status, channels, lifetime, ret>>

CancelTest ==
    /\ cpc = "top"
    /\ cpc' = IF current_status = "CANCELLED" THEN "return_cancelled" ELSE "resume"
    /\ UNCHANGED <<status, channels, lifetime, ret>>

\* Fault: a state that only reports progress ends the task.
AfterInput_ProgressEnds(v) ==
    CASE v \in {"IDLE", "COMPLETED", "DOWNLOADING"} -> "return_success"
      [] v \in {"VERIFYING", "UPDATING"} -> "top"
      [] OTHER -> "return_failure"

\* The switch on the value received.
AfterInput(v) ==
    CASE v \in {"IDLE", "COMPLETED"} -> "return_success"
      [] v \in {"DOWNLOADING", "VERIFYING", "UPDATING"} -> "top"
      [] OTHER -> "return_failure"

WaitForInput ==
    \/ InputSpawn \/ InputStart \/ ControlWins("top")
    \/ InputWins /\ cpc' = AfterInput(Message(input))

Coroutine ==
    /\ \/ CancelTest
       \/ AsyncWaitForResume("input", "top")
       \/ WaitForInput
       \/ CoroutineReturns("return_success", "SUCCESS")
       \/ CoroutineReturns("return_failure", "FAILURE")
       \/ CoroutineReturns("return_cancelled", "CANCELLED")
    /\ UNCHANGED otaVars

-----------------------------------------------------------------------------
(* OtaNode and main()                                                      *)

\* onStart() in the first tick: an OtaTask is made and run.
OnStart ==
    /\ mpc = "start"
    /\ IF ota_state = "IDLE"
       THEN node_status' = "FAILURE" /\ UNCHANGED taskVars
       ELSE Run /\ node_status' = IF ret'.ok THEN "RUNNING" ELSE "FAILURE"
    /\ mpc' = "loop"
    /\ UNCHANGED <<any_tree, i, ota_state>>

\* main()'s loop test, and the blackboard entry it sets.
Loop ==
    /\ mpc = "loop"
    /\ IF node_status = "RUNNING"
       THEN /\ i' = IF i < Rounds THEN i + 1 ELSE i
            /\ ota_state' = IF i' >= Rounds THEN "COMPLETED" ELSE ota_state
            /\ mpc' = "poll"
       ELSE mpc' = "halt" /\ UNCHANGED <<i, ota_state>>
    /\ UNCHANGED <<taskVars, any_tree, node_status>>

\* Other trees than the demo's: the entry is set to something else, ...
SetEntry ==
    /\ any_tree
    /\ mpc \in {"start", "loop"}
    /\ ota_state' \in OtaState
    /\ UNCHANGED <<taskVars, any_tree, mpc, i, node_status>>

\* ... or the tree is halted between two ticks.
Halt ==
    /\ any_tree
    /\ mpc = "loop"
    /\ node_status = "RUNNING"
    /\ mpc' = "halt"
    /\ UNCHANGED <<taskVars, any_tree, i, ota_state, node_status>>

\* onRunning(): the status of the task ...
OnRunningPoll ==
    /\ mpc = "poll"
    /\ GetCurrentStatus
    /\ node_status' = CASE current_status' = "COMPLETED" -> "SUCCESS"
                        [] current_status' = "FAILED" -> "FAILURE"
                        [] OTHER -> "RUNNING"
    /\ mpc' = IF node_status' = "RUNNING" THEN "send" ELSE "loop"
    /\ UNCHANGED <<any_tree, i, ota_state>>

\* Fault: nothing is forwarded once main() has set COMPLETED.
OnRunningSend_StopsEarly ==
    /\ mpc = "send"
    /\ IF i < Rounds THEN SendInputParameters(ota_state) ELSE UNCHANGED taskVars
    /\ mpc' = "loop"
    /\ UNCHANGED <<any_tree, i, ota_state, node_status>>

\* ... and, while it is not over, the blackboard entry for it.
OnRunningSend ==
    /\ mpc = "send"
    /\ SendInputParameters(ota_state)
    /\ mpc' = "loop"
    /\ UNCHANGED <<any_tree, i, ota_state, node_status>>

\* ota_task_ has been made: onStart() runs it at once.
HasTask == current_status # "INITIAL"

\* ~OtaNode() calls onHalted(): cancel(), whatever it returns, and reset().
OnHaltedCancel ==
    /\ mpc = "halt"
    /\ IF HasTask
       THEN Cancel /\ mpc' = "reset"
       ELSE mpc' = "exit" /\ UNCHANGED taskVars
    /\ UNCHANGED <<any_tree, i, ota_state, node_status>>

OnHaltedReset ==
    /\ mpc = "reset"
    /\ DropRef
    /\ mpc' = "exit"
    /\ UNCHANGED <<any_tree, i, ota_state, node_status>>

Main ==
    \/ OnStart \/ Loop \/ OnRunningPoll \/ OnRunningSend
    \/ OnHaltedCancel \/ OnHaltedReset

Destructor == DestructorCancels /\ UNCHANGED otaVars

Next == Main \/ SetEntry \/ Halt \/ Coroutine \/ Destructor

\* main() and the pool's threads are scheduled.
Spec ==
    /\ Init /\ [][Next]_vars
    /\ WF_vars(Main) /\ WF_vars(Coroutine) /\ WF_vars(Destructor)

-----------------------------------------------------------------------------
\* In the demo's tree the node succeeds, and not before the entry said
\* COMPLETED, although what it forwards is dropped whenever the channel is full.
SucceedsWhenCompleted ==
    ~any_tree =>
      /\ node_status # "FAILURE"
      /\ node_status = "SUCCESS" => ota_state = "COMPLETED"

\* Halting the node in any tree ends the coroutine: the one cancel() that
\* onHalted() makes, and whose result it ignores, is enough.
HaltEndsTask == (mpc = "exit") ~> (cpc \in {"done", "not_started"})

\* The demo gets here: COMPLETED reaches the coroutine, its result reaches the
\* node, and the destructor of the task returns.
DemoEnded == any_tree \/ (mpc = "exit" /\ dtor = "done")
=============================================================================
