--------------------------- MODULE StopTokenPool ---------------------------
(***************************************************************************)
(* 011.stop_token: a ThreadPool whose tasks run on a thread of their own   *)
(* until their stop_source asks them to stop.  main() adds tasks and stops *)
(* the pool; other threads may add tasks at the same time, as the class    *)
(* allows.                                                                 *)
(***************************************************************************)
EXTENDS Threads, Sequences, Integers

CONSTANT Adders   \* other threads that call add_task() once

Main    == "main"
Callers == Adders \cup {Main}

\* The task of each call of add_task(): main() makes two.
Tasks == {<<a, 1>> : a \in Callers} \cup {<<Main, 2>>}
Place(t) == <<"caller", t>>

Init ==
    /\ pc = [p \in {Place(c) : c \in Callers} \cup Tasks |-> IF p \in Tasks THEN "new" ELSE "check"]
    /\ mem = [is_running_ |-> TRUE, mutex |-> "free", workers |-> <<>>, requested |-> {},
              added |-> [c \in Callers |-> 0], atStop |-> <<>>]

-----------------------------------------------------------------------------
(* add_task()                                                              *)

\* main() goes on with stop() after its two calls.
After(c) == IF c # Main THEN "exited" ELSE IF mem.added[Main] = 0 THEN "check" ELSE "stop"

Return(c, from) == Step(Place(c), from, After(c))

\* The flag is read without the mutex.
CheckRunning(c) ==
    /\ IF mem.is_running_ THEN Step(Place(c), "check", "lock") ELSE Return(c, "check")
    /\ UNCHANGED mem

LockForAdd(c) ==
    /\ mem.mutex = "free"
    /\ Step(Place(c), "lock", "emplace")
    /\ mem' = [mem EXCEPT !.mutex = c]

\* The thread of the task is started; then the mutex is released.
Emplace(c) ==
    LET task == <<c, mem.added[c] + 1>> IN
    /\ Create(Place(c), "emplace", After(c), task, "run")
    /\ mem' = [mem EXCEPT !.workers = Append(@, task), !.added[c] = @ + 1, !.mutex = "free"]

-----------------------------------------------------------------------------
(* execute_task() with test_stop_token(), and stop()                       *)

\* One round of the loop of the task.
RunTask(t) == Step(t, "run", IF t \in mem.requested THEN "exited" ELSE "run") /\ UNCHANGED mem

StoreNotRunning ==
    Step(Place(Main), "stop", "stop_lock") /\ mem' = [mem EXCEPT !.is_running_ = FALSE]

LockForStop ==
    /\ mem.mutex = "free"
    /\ Step(Place(Main), "stop_lock", "request")
    /\ mem' = [mem EXCEPT !.mutex = Main, !.atStop = mem.workers]

\* Fault: the thread is joined without asking it to stop.
RequestStop_Missing == Step(Place(Main), "request", "join") /\ mem.workers # <<>> /\ UNCHANGED mem

RequestStop ==
    /\ mem.workers # <<>>
    /\ Step(Place(Main), "request", "join")
    /\ mem' = [mem EXCEPT !.requested = @ \cup {Head(mem.workers)}]

\* Fault: the worker is detached.
JoinWorker_Detach ==
    Step(Place(Main), "join", "request") /\ mem' = [mem EXCEPT !.workers = Tail(@)]

\* join() of the worker whose stop was requested.
JoinWorker ==
    /\ pc[Place(Main)] = "join" /\ Ended(Head(mem.workers))
    /\ Step(Place(Main), "join", "request")
    /\ mem' = [mem EXCEPT !.workers = Tail(@)]

\* workers_.clear(), and the mutex is released.
StopReturns ==
    /\ mem.workers = <<>>
    /\ Step(Place(Main), "request", "return")
    /\ mem' = [mem EXCEPT !.mutex = "free"]

\* main() has returned, with the other threads joined before, and the static
\* pool is destroyed: each jthread that is left is joined.  Its destructor asks
\* the jthread's own stop source, not the one whose token the task watches.
DestroyPool ==
    /\ \A a \in Adders : Ended(Place(a))
    /\ \A i \in 1..Len(mem.workers) : Ended(mem.workers[i])
    /\ Step(Place(Main), "return", "exited")
    /\ mem' = [mem EXCEPT !.workers = <<>>]

CallerStep(c) == CheckRunning(c) \/ LockForAdd(c) \/ Emplace(c)

MainStep ==
    \/ CallerStep(Main)
    \/ StoreNotRunning \/ LockForStop \/ RequestStop \/ JoinWorker \/ StopReturns
    \/ DestroyPool

Next == MainStep \/ (\E c \in Adders : CallerStep(c)) \/ (\E t \in Tasks : RunTask(t))

\* Threads are scheduled.
Spec ==
    /\ Init /\ [][Next]_vars
    /\ WF_vars(MainStep)
    /\ \A c \in Adders : WF_vars(CallerStep(c))
    /\ \A t \in Tasks : WF_vars(RunTask(t))

-----------------------------------------------------------------------------
(* Correctness                                                             *)

Stopped == pc[Place(Main)] \in {"return", "exited"}

\* stop() joins the workers that are there when it has the mutex, and main()'s
\* two are among them.  A task whose add_task() read the flag before stop()
\* cleared it and took the mutex after stop() is not, and is left running.
StopJoinsRegistered ==
    Stopped =>
      /\ \A i \in 1..Len(mem.atStop) : Ended(mem.atStop[i])
      /\ \A n \in 1..2 : Ended(<<Main, n>>)

\* stop() returns, although it joins with the mutex in its hands, and the
\* process exits, with one exception: a task that was added too late is still
\* in the pool, nobody asks it to stop, and the destructor of the pool waits
\* for it for ever.
Finished == Stopped /\ (mem.workers = <<>> => Ended(Place(Main)))
=============================================================================
