------------------------------- MODULE MCTasks -------------------------------
(***************************************************************************)
(* The thread pools, the echo session and the demos of tasks for TLC.  A   *)
(* behaviour runs one of them; in the others nothing is enabled.           *)
(***************************************************************************)
EXTENDS Integers

CONSTANTS Workers, NormalThreads, CoroutineThreads, Posts, c1, c2,
          t1, t2,        \* the tasks: t1 adds t2
          Stoppers, NoOne

VARIABLES program,
          is_running, io, worker, call, promise, inner, mutex, list, thread,
          requested, spc,
          ctx, tworker, called, tpromise, suspended, stops, tspc,
          variant, open, lock, queue, apc, done, last, late,
          current_status, result, cached_result, input, control, cpc, user_ref,
          dtor, ret, demo, is_end, final_result, epc, next_input, received,
          paused, resumed, mpc,
          any_tree, npc, i, ota_state, node_status

Utils == INSTANCE ThreadPool WITH Coros <- {c1}, Tasks <- {t1, t2}, Nested <- {<<t1, t2>>}
Task  == INSTANCE TaskThreadPool
           WITH Coros <- {c1, c2}, worker <- tworker, promise <- tpromise, spc <- tspc
Echo  == INSTANCE EchoSession WITH pc <- apc
Demo  == INSTANCE TestTaskMain WITH Inputs <- 1..3, MaxInputs <- 3, Hooks <- {TRUE}
Ota   == INSTANCE OtaNode
           WITH Inputs <- {"IDLE", "DOWNLOADING", "VERIFYING", "UPDATING", "COMPLETED", "FAILED"},
                Rounds <- 3, Hooks <- {TRUE}, mpc <- npc

utilsVars  == <<is_running, io, worker, call, promise, inner, mutex, list,
                thread, requested, spc>>
poolVars   == <<ctx, tworker, called, tpromise, suspended, stops, tspc>>
echoVars   == <<variant, open, lock, queue, apc, done, last, late>>
taskVars   == <<current_status, result, cached_result, input, control, cpc,
                user_ref, dtor, ret>>
demoVars   == <<demo, is_end, final_result, epc, next_input, received, paused, resumed, mpc>>
otaVars    == <<any_tree, npc, i, ota_state, node_status>>
vars == <<program, utilsVars, poolVars, echoVars, taskVars, demoVars, otaVars>>

Init ==
    /\ program \in {"utils", "task", "echo_session", "test_task", "ota_state"}
    /\ Utils!Init /\ Task!Init /\ Echo!Init /\ Demo!MainInit /\ Ota!Init
    /\ program # "echo_session" => variant = "005"
    /\ program # "test_task" => demo = "024"
    /\ program # "ota_state" => ~any_tree

UtilsNext ==
    /\ program = "utils" /\ Utils!Next
    /\ UNCHANGED <<program, poolVars, echoVars, taskVars, demoVars, otaVars>>
TaskNext ==
    /\ program = "task" /\ Task!Next
    /\ UNCHANGED <<program, utilsVars, echoVars, taskVars, demoVars, otaVars>>
EchoNext ==
    /\ program = "echo_session" /\ Echo!Next
    /\ UNCHANGED <<program, utilsVars, poolVars, taskVars, demoVars, otaVars>>
DemoNext ==
    /\ program = "test_task" /\ Demo!MainNext
    /\ UNCHANGED <<program, utilsVars, poolVars, echoVars, otaVars>>
OtaNext ==
    /\ program = "ota_state" /\ Ota!Next
    /\ UNCHANGED <<program, utilsVars, poolVars, echoVars, demoVars>>

Next == UtilsNext \/ TaskNext \/ EchoNext \/ DemoNext \/ OtaNext

-----------------------------------------------------------------------------
(* Fairness: that of the component, for the program that runs.             *)

\* Echo session: completed operations are handled, and a write or an expiring
\* timer completes; a client need not send lines.
Handled(a) == program = "echo_session" /\ Echo!Resume(a)
Line       == program = "echo_session" /\ Echo!WriteLine
Timer      == program = "echo_session" /\ Echo!TimerExpires
Written(a) == program = "echo_session" /\ Echo!WriteCompletes(a)
Closed     == program = "echo_session" /\ ~open /\ Echo!ReadCompletes

\* The tasks' demos: main() and the pool's threads.
DemoMain      == program = "test_task" /\ Demo!Main
DemoPool      == program = "test_task" /\ Demo!Pool
OtaMain       == program = "ota_state" /\ Ota!Main
OtaCoroutine  == program = "ota_state" /\ Ota!Coroutine
OtaDestructor == program = "ota_state" /\ Ota!Destructor

Spec ==
    /\ Init /\ [][Next]_vars
    /\ \A j \in Posts : WF_utilsVars(program = "utils" /\ Utils!Post(j))
    /\ WF_utilsVars(program = "utils" /\ Utils!PostCoro(c1))
    /\ \A t \in {t1, t2} : /\ WF_utilsVars(program = "utils" /\ Utils!AddLongRunningTask(t))
                          /\ WF_utilsVars(program = "utils" /\ t \in requested /\ Utils!TaskEnds(t))
    /\ \A w \in Workers : WF_utilsVars(program = "utils" /\ Utils!Worker(w))
    /\ \A s \in Stoppers : WF_utilsVars(program = "utils" /\ Utils!StopSteps(s))
    /\ \A w \in Task!AllThreads : /\ WF_poolVars(program = "task" /\ Task!Worker(w))
                                  /\ SF_poolVars(program = "task" /\ Task!RunEnds(w))
    /\ \A j \in {c1, c2} : WF_poolVars(program = "task" /\ Task!Wake(j))
    /\ WF_poolVars(program = "task" /\ Task!Stop)
    /\ \A a \in Echo!Actors : WF_echoVars(Handled(a)) /\ WF_echoVars(Written(a))
    /\ WF_echoVars(Line) /\ WF_echoVars(Timer) /\ WF_echoVars(Closed)
    /\ WF_<<taskVars, demoVars>>(DemoMain) /\ WF_<<taskVars, demoVars>>(DemoPool)
    /\ WF_<<taskVars, otaVars>>(OtaMain) /\ WF_<<taskVars, otaVars>>(OtaCoroutine)
    /\ WF_<<taskVars, otaVars>>(OtaDestructor)

-----------------------------------------------------------------------------
\* utils::ThreadPool: after stop() no posted function runs (StoppedIsQuiet).
PoolStoppedIsQuiet == Utils!StoppedIsQuiet

\* Both pools: a future that was returned is settled unless the pool is
\* stopped (AcceptedCompletes, FuturesSettle).
PoolFuturesSettle == Utils!AcceptedCompletes /\ Task!FuturesSettle

\* Both pools: stop() returns, but for two deadlocks of utils::ThreadPool
\* (StopReturns).
PoolsStop == Utils!StopReturns /\ Task!StopReturns

\* task::ThreadPool: a promise is set once (PromiseSetOnce).
TaskPromiseSetOnce == Task!PromiseSetOnce

\* 005, 013: a header is followed by its line, and nothing by a partial write
\* (LinesWhole, NothingAfterPart).
EchoStreamWhole == Echo!LinesWhole /\ Echo!NothingAfterPart

\* 005, 013: both coroutines end, but for one case (SessionEnds).
EchoSessionEnds == Echo!SessionEnds

\* 024, 025, 026: main() sees CANCELLED at the end, and the node succeeds when
\* and only when COMPLETED was set (MainSeesCancelled, SucceedsWhenCompleted).
TaskDemosSucceed ==
    /\ program = "test_task" => Demo!MainSeesCancelled
    /\ program = "ota_state" => Ota!SucceedsWhenCompleted

\* 026: halting the node ends the coroutine in any tree (HaltEndsTask).
OtaHaltEndsTask == program = "ota_state" => Ota!HaltEndsTask

\* 024, 025, 026: main() leaves its loops (MainReturned, DemoEnded).
TaskDemosEnd ==
    <>(/\ program = "test_task" => Demo!MainReturned
       /\ program = "ota_state" => Ota!DemoEnded)
=============================================================================
