----------------------------- MODULE ThreadPool -----------------------------
(***************************************************************************)
(* utils::ThreadPool (utils/thread_pool): workers that run posted          *)
(* functions and coroutines from one io_context, long-running tasks with a *)
(* thread and a stop_source each, and stop().                              *)
(*                                                                         *)
(* Every call of post(), post_coro() and addLongRunningTask() has a name,  *)
(* and is made at any time by some thread: a user's or, for <<t, u>> in    *)
(* Nested, the thread of task t, which adds task u.                        *)
(***************************************************************************)
EXTENDS IoContext, FiniteSets, Integers

CONSTANTS Workers,    \* small_task_workers_
          Posts,      \* calls of post()
          Coros,      \* calls of post_coro()
          Tasks,      \* calls of addLongRunningTask()
          Nested,     \* which task adds which
          Stoppers,   \* calls of stop(); ~ThreadPool() is one of them
          NoOne       \* holder of a free mutex

Jobs == Posts \cup Coros

VARIABLES is_running,   \* is_running_
          io,           \* io_context_
          worker,       \* what each worker does, and for which call
          call,         \* where the caller of post, post_coro or add is
          promise,      \* the promise of each job
          inner,        \* the future of co_spawn, for each coroutine
          mutex,        \* holder of long_running_workers_mutex_
          list,         \* long_running_workers_
          thread,       \* the thread of each long-running task
          requested,    \* tasks whose stop_source got request_stop()
          spc           \* where each caller of stop() is

jobVars  == <<io, worker, promise, inner>>
taskVars == <<mutex, list, thread, requested>>
vars     == <<is_running, jobVars, call, taskVars, spc>>

Outcomes == {"value", "exception"}

\* A worker has a handler in hand: <<"post", j>>, <<"coro", j>>, or what
\* co_spawn() posts to complete the coroutine, <<"completion", j>>.
Idle   == <<"idle">>
Exited == <<"exited">>

Init ==
    /\ is_running = TRUE
    /\ io = NewContext
    /\ worker = [w \in Workers |-> Idle]
    /\ call = [c \in Jobs \cup Tasks |-> "idle"]
    /\ promise = [j \in Jobs |-> "pending"]
    /\ inner = [c \in Coros |-> "pending"]
    /\ mutex = NoOne
    /\ list = <<>>
    /\ thread = [t \in Tasks |-> "none"]
    /\ requested = {}
    /\ spc = [s \in Stoppers |-> "idle"]

-----------------------------------------------------------------------------
(* Callers                                                                 *)

\* The thread that makes call c is there to make it.
CallerAlive(c) == \A n \in Nested : n[2] = c => thread[n[1]] = "running"

\* All three calls start with the test of is_running_.
CheckRunning(c) ==
    /\ call[c] = "idle"
    /\ CallerAlive(c)
    /\ call' = [call EXCEPT ![c] = IF is_running THEN "checked" ELSE "refused"]
    /\ UNCHANGED <<is_running, jobVars, taskVars, spc>>

\* post(): the function goes to the io_context and a future is returned.
Post(j) ==
    /\ call[j] = "checked"
    /\ call' = [call EXCEPT ![j] = "accepted"]
    /\ io' = Posted(io, <<"post", j>>)
    /\ UNCHANGED <<is_running, worker, promise, inner, taskVars, spc>>

PostCoro(j) ==
    /\ call[j] = "checked"
    /\ call' = [call EXCEPT ![j] = "accepted"]
    /\ io' = Posted(io, <<"coro", j>>)
    /\ UNCHANGED <<is_running, worker, promise, inner, taskVars, spc>>

\* addLongRunningTask() under its lock: the thread is started and listed.
AddLongRunningTask(t) ==
    /\ call[t] = "checked"
    /\ mutex = NoOne
    /\ call' = [call EXCEPT ![t] = "accepted"]
    /\ list' = Append(list, t)
    /\ thread' = [thread EXCEPT ![t] = "running"]
    /\ UNCHANGED <<is_running, jobVars, mutex, requested, spc>>

-----------------------------------------------------------------------------
(* Workers and long-running tasks                                          *)

TakeHandler(w) ==
    /\ worker[w] = Idle
    /\ CanTake(io)
    /\ worker' = [worker EXCEPT ![w] = Head(io.queue)]
    /\ io' = Taken(io)
    /\ UNCHANGED <<is_running, promise, inner, call, taskVars, spc>>

LeaveRun(w) ==
    /\ worker[w] = Idle
    /\ io.stopped
    /\ worker' = [worker EXCEPT ![w] = Exited]
    /\ UNCHANGED <<is_running, io, promise, inner, call, taskVars, spc>>

\* The function returns or throws; either way the promise is set.
RunPost(w) ==
    /\ \E j \in Posts :
         /\ worker[w] = <<"post", j>>
         /\ \E r \in Outcomes : promise' = [promise EXCEPT ![j] = r]
    /\ worker' = [worker EXCEPT ![w] = Idle]
    /\ UNCHANGED <<is_running, io, inner, call, taskVars, spc>>

\* Fault: nothing waits for the coroutine.
SpawnCoro_NoGet(w) ==
    /\ \E j \in Coros :
         /\ worker[w] = <<"coro", j>>
         /\ io' = Posted(io, <<"completion", j>>)
    /\ worker' = [worker EXCEPT ![w] = Idle]
    /\ UNCHANGED <<is_running, promise, inner, call, taskVars, spc>>

\* co_spawn() completes the coroutine by a handler of the same io_context
\* (even when the coroutine itself ran inline); fut.get() blocks the worker.
SpawnCoro(w) ==
    /\ \E j \in Coros :
         /\ worker[w] = <<"coro", j>>
         /\ io' = Posted(io, <<"completion", j>>)
         /\ worker' = [worker EXCEPT ![w] = <<"get", j>>]
    /\ UNCHANGED <<is_running, promise, inner, call, taskVars, spc>>

CompleteCoro(w) ==
    /\ \E j \in Coros :
         /\ worker[w] = <<"completion", j>>
         /\ \E r \in Outcomes : inner' = [inner EXCEPT ![j] = r]
    /\ worker' = [worker EXCEPT ![w] = Idle]
    /\ UNCHANGED <<is_running, io, promise, call, taskVars, spc>>

\* fut.get() returns or rethrows, and the promise is set.
GetReturns(w) ==
    /\ \E j \in Coros :
         /\ worker[w] = <<"get", j>>
         /\ inner[j] # "pending"
         /\ promise' = [promise EXCEPT ![j] = inner[j]]
    /\ worker' = [worker EXCEPT ![w] = Idle]
    /\ UNCHANGED <<is_running, io, inner, call, taskVars, spc>>

Worker(w) ==
    \/ TakeHandler(w) \/ LeaveRun(w) \/ RunPost(w)
    \/ SpawnCoro(w) \/ CompleteCoro(w) \/ GetReturns(w)

\* A task ends when it likes, but not inside a call of addLongRunningTask().
TaskEnds(t) ==
    /\ thread[t] = "running"
    /\ \A n \in Nested : n[1] = t => call[n[2]] # "checked"
    /\ thread' = [thread EXCEPT ![t] = "ended"]
    /\ UNCHANGED <<is_running, jobVars, call, mutex, list, requested, spc>>

-----------------------------------------------------------------------------
(* stop()                                                                  *)

StopTest(s) ==
    /\ spc[s] = "idle"
    /\ is_running' = FALSE
    /\ spc' = [spc EXCEPT ![s] = IF is_running THEN "stop_io" ELSE "returned"]
    /\ UNCHANGED <<jobVars, call, taskVars>>

StopIo(s) ==
    /\ spc[s] = "stop_io"
    /\ io' = Stopped(io)
    /\ spc' = [spc EXCEPT ![s] = "join"]
    /\ UNCHANGED <<is_running, worker, promise, inner, call, taskVars>>

\* Fault: the workers are not joined.
JoinWorkers_NoWait(s) ==
    /\ spc[s] = "join"
    /\ spc' = [spc EXCEPT ![s] = "lock"]
    /\ UNCHANGED <<is_running, jobVars, call, taskVars>>

JoinWorkers(s) ==
    /\ spc[s] = "join"
    /\ \A w \in Workers : worker[w] = Exited
    /\ spc' = [spc EXCEPT ![s] = "lock"]
    /\ UNCHANGED <<is_running, jobVars, call, taskVars>>

LockTasks(s) ==
    /\ spc[s] = "lock"
    /\ mutex = NoOne
    /\ mutex' = s
    /\ spc' = [spc EXCEPT ![s] = "request"]
    /\ UNCHANGED <<is_running, jobVars, call, list, thread, requested>>

\* Fault: the stop_source is forgotten.
RequestStop_Skipped(s) ==
    /\ spc[s] = "request"
    /\ list # <<>>
    /\ spc' = [spc EXCEPT ![s] = "join_task"]
    /\ UNCHANGED <<is_running, jobVars, call, taskVars>>

\* The tasks are stopped one by one: request_stop(), join().  Nobody else sees
\* the list meanwhile, so that a joined task may leave it at once.
RequestStop(s) ==
    /\ spc[s] = "request"
    /\ list # <<>>
    /\ requested' = requested \cup {Head(list)}
    /\ spc' = [spc EXCEPT ![s] = "join_task"]
    /\ UNCHANGED <<is_running, jobVars, call, mutex, list, thread>>

JoinTask(s) ==
    /\ spc[s] = "join_task"
    /\ thread[Head(list)] = "ended"
    /\ list' = Tail(list)
    /\ spc' = [spc EXCEPT ![s] = "request"]
    /\ UNCHANGED <<is_running, jobVars, call, mutex, thread, requested>>

UnlockTasks(s) ==
    /\ spc[s] = "request"
    /\ list = <<>>
    /\ mutex' = NoOne
    /\ spc' = [spc EXCEPT ![s] = "done"]
    /\ UNCHANGED <<is_running, jobVars, call, list, thread, requested>>

StopSteps(s) ==
    \/ StopIo(s) \/ JoinWorkers(s) \/ LockTasks(s)
    \/ RequestStop(s) \/ JoinTask(s) \/ UnlockTasks(s)

-----------------------------------------------------------------------------
CallSteps ==
    \/ \E j \in Posts : Post(j)
    \/ \E j \in Coros : PostCoro(j)
    \/ \E t \in Tasks : AddLongRunningTask(t)

Next ==
    \/ \E c \in Jobs \cup Tasks : CheckRunning(c)
    \/ CallSteps
    \/ \E w \in Workers : Worker(w)
    \/ \E t \in Tasks : TaskEnds(t)
    \/ \E s \in Stoppers : StopTest(s) \/ StopSteps(s)

\* Threads are scheduled, posted functions and coroutines end, and a task
\* ends once it is asked to.  Nobody has to call anything.
Fairness ==
    /\ \A j \in Posts : WF_vars(Post(j))
    /\ \A j \in Coros : WF_vars(PostCoro(j))
    /\ \A t \in Tasks : WF_vars(AddLongRunningTask(t))
    /\ \A w \in Workers : WF_vars(Worker(w))
    /\ \A t \in Tasks : WF_vars(t \in requested /\ TaskEnds(t))
    /\ \A s \in Stoppers : WF_vars(StopSteps(s))

Spec == Init /\ [][Next]_vars /\ Fairness

-----------------------------------------------------------------------------
(* Correctness                                                             *)

\* Once the stop() that won the exchange has returned, no posted function or
\* coroutine runs or will ever run, and no task that it asked to stop is left;
\* only a task whose addLongRunningTask() was past its test may still start.
StoppedIsQuiet ==
    (\E s \in Stoppers : spc[s] = "done") =>
      /\ \A w \in Workers : worker[w] = Exited
      /\ \A t \in requested : thread[t] = "ended"

\* A future that was returned gets its value or exception unless the pool is
\* stopped, as long as there are fewer coroutines than workers: each of them
\* blocks a worker until another one completes it.
AcceptedCompletes ==
    Cardinality(Coros) < Cardinality(Workers) =>
      \A j \in Jobs : (call[j] = "accepted") ~> (promise[j] # "pending" \/ ~is_running)

\* A worker waits for a coroutine that no worker will complete any more.
CoroStuck ==
    /\ io.stopped
    /\ \E w \in Workers, j \in Coros :
         /\ worker[w] = <<"get", j>>
         /\ inner[j] = "pending"
         /\ \A v \in Workers : worker[v] # <<"completion", j>>

\* stop() holds the mutex and joins a task that waits for it.
AddStuck(s) ==
    /\ mutex = s
    /\ spc[s] = "join_task"
    /\ \E n \in Nested : n[1] = Head(list) /\ call[n[2]] = "checked"

\* stop() returns, and there are only two ways in which it does not.
StopReturns ==
    \A s \in Stoppers :
      (spc[s] = "stop_io") ~> (spc[s] = "done" \/ CoroStuck \/ AddStuck(s))
=============================================================================
