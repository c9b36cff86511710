---------------------------- MODULE TestTaskMain ----------------------------
(***************************************************************************)
(* The main() functions of 024.test_task and 025.test_user_data: the only  *)
(* user of a TestTask.  024 cancels until cancel() succeeds and polls the  *)
(* status until it is terminal; 025 sends numbers, cancels once and looks  *)
(* at the status once.  The sleeps of main() are left to the interleaving. *)
(***************************************************************************)
EXTENDS TestTask

VARIABLE mpc      \* where main() is

mainVars == <<vars, mpc>>

\* Fault: CANCELLED is forgotten in the loop test.
Terminal_NotCancelled == {"COMPLETED", "FAILED"}

Terminal == {"COMPLETED", "FAILED", "CANCELLED"}

MainInit == Init /\ mpc = "run"

MainRun ==
    /\ mpc = "run"
    /\ UserRun
    /\ mpc' = IF demo = "024" THEN "cancel" ELSE "look"

\* 025: the loop test on the status last seen and on i; i++ is in UserSend.
MainLook ==
    /\ mpc = "look"
    /\ UserStatus
    /\ mpc' = IF current_status' \notin Terminal /\ next_input <= MaxInputs
              THEN "send" ELSE "cancel"

MainSend ==
    /\ mpc = "send"
    /\ UserSend
    /\ mpc' = "look"

\* 024 repeats cancel() until it succeeds, 025 ignores what it returns.
MainCancel ==
    /\ mpc = "cancel"
    /\ UserCancel
    /\ mpc' = IF ret'.ok \/ demo = "025" THEN "poll" ELSE "cancel"

\* 024 polls until the status is terminal, 025 looks once.
MainPoll ==
    /\ mpc = "poll"
    /\ UserStatus
    /\ mpc' = IF current_status' \in Terminal \/ demo = "025" THEN "exit" ELSE "poll"

MainExit ==
    /\ mpc = "exit"
    /\ UserDrop
    /\ mpc' = "gone"

Main == MainRun \/ MainLook \/ MainSend \/ MainCancel \/ MainPoll \/ MainExit

Pool == (Coroutine \/ Destructor) /\ UNCHANGED mpc

MainNext == Main \/ Pool

MainSpec ==
    /\ MainInit /\ [][MainNext]_mainVars
    /\ WF_mainVars(Main)
    /\ WF_mainVars(Pool)

-----------------------------------------------------------------------------
\* The status main() prints at the end is CANCELLED, in every interleaving
\* with the coroutine.
MainSeesCancelled == (mpc \in {"exit", "gone"}) => (current_status = "CANCELLED")

\* main() gets here: cancel() succeeds and a terminal status is seen.
MainReturned == mpc = "gone"
=============================================================================
