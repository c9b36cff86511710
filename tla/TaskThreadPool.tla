--------------------------- MODULE TaskThreadPool ---------------------------
(***************************************************************************)
(* task::ThreadPool (behaviortree_test/task): one io_context with threads  *)
(* of its own for functions, another one for coroutines, stop(), and the   *)
(* destructor of the singleton, which stops again and destroys both.       *)
(***************************************************************************)
EXTENDS IoContext, Integers

CONSTANTS NormalThreads,      \* normal_threads_
          CoroutineThreads,   \* coroutine_threads_
          Posts,              \* calls of post()
          Coros               \* calls of post_coroutine()

Contexts == {"normal", "coroutine"}
Threads  == [normal |-> NormalThreads, coroutine |-> CoroutineThreads]
AllThreads == NormalThreads \cup CoroutineThreads
Jobs     == Posts \cup Coros

VARIABLES ctx,       \* normal_io_context_ and coroutine_io_context_
          worker,    \* what each thread does
          called,    \* jobs that have been submitted
          promise,   \* the promise of each job
          suspended, \* coroutines that wait for something to happen
          stops,     \* calls of stop() that have begun: the user's, then the
                     \* destructor's
          spc        \* where the thread that stops the pool is

vars == <<ctx, worker, called, promise, suspended, stops, spc>>

Idle   == <<"idle">>
Exited == <<"exited">>

Settled == {"value", "exception", "broken"}

Init ==
    /\ ctx = [c \in Contexts |-> NewContext]
    /\ worker = [w \in AllThreads |-> Idle]
    /\ called = {}
    /\ promise = [j \in Jobs |-> "pending"]
    /\ suspended = {}
    /\ stops = 0
    /\ spc = "idle"

\* The context a job goes to.
ContextOf(j) == IF j \in Posts THEN "normal" ELSE "coroutine"

\* post() and post_coroutine(): nothing is tested, the pool may be stopped.
Submit(j) ==
    /\ j \notin called
    /\ spc # "gone"
    /\ called' = called \cup {j}
    /\ ctx' = [ctx EXCEPT ![ContextOf(j)] = Posted(@, j)]
    /\ UNCHANGED <<worker, promise, suspended, stops, spc>>

TakeHandler(w) ==
    /\ worker[w] = Idle
    /\ \E c \in Contexts :
         /\ w \in Threads[c]
         /\ CanTake(ctx[c])
         /\ worker' = [worker EXCEPT ![w] = <<"run", Head(ctx[c].queue)>>]
         /\ ctx' = [ctx EXCEPT ![c] = Taken(@)]
    /\ UNCHANGED <<called, promise, suspended, stops, spc>>

LeaveRun(w) ==
    /\ worker[w] = Idle
    /\ \E c \in Contexts : w \in Threads[c] /\ ctx[c].stopped
    /\ worker' = [worker EXCEPT ![w] = Exited]
    /\ UNCHANGED <<ctx, called, promise, suspended, stops, spc>>

\* Fault: the exception is caught and forgotten.
RunEnds_ExceptionLost(w) ==
    /\ worker[w] \notin {Idle, Exited}
    /\ \E r \in {"value", "pending"} :
         promise' = [promise EXCEPT ![worker[w][2]] = r]
    /\ worker' = [worker EXCEPT ![w] = Idle]
    /\ UNCHANGED <<ctx, called, suspended, stops, spc>>

\* The function or coroutine ends: a value, or the exception it throws.
RunEnds(w) ==
    /\ worker[w] \notin {Idle, Exited}
    /\ \E r \in {"value", "exception"} :
         promise' = [promise EXCEPT ![worker[w][2]] = r]
    /\ worker' = [worker EXCEPT ![w] = Idle]
    /\ UNCHANGED <<ctx, called, suspended, stops, spc>>

\* A coroutine gives its thread back at a co_await ...
Suspend(w) ==
    /\ worker[w] \notin {Idle, Exited}
    /\ worker[w][2] \in Coros
    /\ suspended' = suspended \cup {worker[w][2]}
    /\ worker' = [worker EXCEPT ![w] = Idle]
    /\ UNCHANGED <<ctx, called, promise, stops, spc>>

\* ... and what it waits for posts its continuation.
Wake(j) ==
    /\ j \in suspended
    /\ spc # "gone"
    /\ suspended' = suspended \ {j}
    /\ ctx' = [ctx EXCEPT !["coroutine"] = Posted(@, j)]
    /\ UNCHANGED <<worker, called, promise, stops, spc>>

\* stop(), called by the user, and again by the destructor.
StopBegins ==
    /\ spc \in {"idle", "stopped"}
    /\ stops < 2
    /\ stops' = stops + 1
    /\ spc' = "stop_normal"
    /\ UNCHANGED <<ctx, worker, called, promise, suspended>>

\* Fault: the coroutine context is not stopped.
StopContext_NormalOnly(c, at, next) ==
    /\ spc = at
    /\ ctx' = [ctx EXCEPT !["normal"] = Stopped(@)]
    /\ spc' = next
    /\ UNCHANGED <<worker, called, promise, suspended, stops>>

StopContext(c, at, next) ==
    /\ spc = at
    /\ ctx' = [ctx EXCEPT ![c] = Stopped(@)]
    /\ spc' = next
    /\ UNCHANGED <<worker, called, promise, suspended, stops>>

\* Fault: the threads are not joined.
JoinThreads_NoWait(c, at, next) ==
    /\ spc = at
    /\ spc' = next
    /\ UNCHANGED <<ctx, worker, called, promise, suspended, stops>>

\* join() of the threads that are still joinable; a second stop() finds none.
JoinThreads(c, at, next) ==
    /\ spc = at
    /\ \A w \in Threads[c] : worker[w] = Exited
    /\ spc' = next
    /\ UNCHANGED <<ctx, worker, called, promise, suspended, stops>>

\* After the stop() of the destructor the contexts are destroyed, and with
\* them the handlers and suspended coroutines that hold a promise.
DestroyContexts ==
    /\ spc = "stopped"
    /\ stops = 2
    /\ promise' = [j \in Jobs |-> IF j \in called /\ promise[j] = "pending"
                                  THEN "broken" ELSE promise[j]]
    /\ ctx' = [c \in Contexts |-> Stopped(NewContext)]
    /\ suspended' = {}
    /\ spc' = "gone"
    /\ UNCHANGED <<worker, called, stops>>

Stop ==
    \/ StopContext("normal", "stop_normal", "stop_coroutine")
    \/ StopContext("coroutine", "stop_coroutine", "join_normal")
    \/ JoinThreads("normal", "join_normal", "join_coroutine")
    \/ JoinThreads("coroutine", "join_coroutine", "stopped")
    \/ DestroyContexts

Worker(w) == TakeHandler(w) \/ LeaveRun(w) \/ RunEnds(w) \/ Suspend(w)

Next ==
    \/ \E j \in Jobs : Submit(j)
    \/ \E w \in AllThreads : Worker(w)
    \/ \E j \in Coros : Wake(j)
    \/ StopBegins \/ Stop

\* Threads are scheduled, what a coroutine waits for happens, a coroutine does
\* not suspend for ever, and the program ends: ~ThreadPool() is called.
Fairness ==
    /\ \A w \in AllThreads : WF_vars(Worker(w)) /\ SF_vars(RunEnds(w))
    /\ \A j \in Coros : WF_vars(Wake(j))
    /\ WF_vars(Stop)

Spec == Init /\ [][Next]_vars /\ Fairness

-----------------------------------------------------------------------------
\* A promise is set once: not by a thread after the destructor broke it, and
\* not again by a coroutine that was resumed twice.
PromiseSetOnce ==
    [][\A j \in Jobs : promise[j] \in Settled => promise'[j] = promise[j]]_vars

\* stop() returns whatever is queued or suspended, the destructor's too.
StopReturns == (spc = "stop_normal") ~> (spc = "stopped")

\* A future gets its value or exception, however often its coroutine suspends
\* and whatever the other context is busy with, unless stop() is called.
FuturesSettle ==
    \A j \in Jobs : (j \in called) ~> (promise[j] \in Settled \/ stops > 0)
=============================================================================
