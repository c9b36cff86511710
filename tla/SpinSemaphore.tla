---------------------------- MODULE SpinSemaphore ----------------------------
(***************************************************************************)
(* 010.spin_semaphore: one thread stores g_count and posts, another waits  *)
(* and takes one off; Expects() and Ensures() end the program ("failed")   *)
(* when they do not hold.  The accesses to g_count are relaxed: what       *)
(* orders them is the semaphore and the joins.                             *)
(***************************************************************************)
EXTENDS Threads, Integers

Procs == {"main", "post", "wait"}

Init ==
    /\ pc = [main |-> "create", post |-> "new", wait |-> "new"]
    /\ mem = [g_count |-> 0, sem |-> 0]

Contract(holds, to) == IF holds THEN to ELSE "failed"

\* Fault: the semaphore is posted before g_count is stored.
PostSpinSemaphore_Early ==
    \/ Step("post", "expects", Contract(mem.g_count = 0, "store")) /\ UNCHANGED mem
    \/ Step("post", "store", "post") /\ mem' = [mem EXCEPT !.sem = @ + 1]
    \/ Step("post", "post", "exited") /\ mem' = [mem EXCEPT !.g_count = 10]

PostSpinSemaphore ==
    \/ Step("post", "expects", Contract(mem.g_count = 0, "store")) /\ UNCHANGED mem
    \/ Step("post", "store", "post") /\ mem' = [mem EXCEPT !.g_count = 10]
    \/ Step("post", "post", "exited") /\ mem' = [mem EXCEPT !.sem = @ + 1]

WaitSpinSemaphore ==
    \/ mem.sem > 0 /\ Step("wait", "wait", "ensures") /\ mem' = [mem EXCEPT !.sem = @ - 1]
    \/ Step("wait", "ensures", Contract(mem.g_count = 10, "sub")) /\ UNCHANGED mem
    \/ Step("wait", "sub", "exited") /\ mem' = [mem EXCEPT !.g_count = @ - 1]

MainStep ==
    /\ \/ Create("main", "create", "create2", "post", "expects")
       \/ Create("main", "create2", "join", "wait", "wait")
       \/ Ended("post") /\ Ended("wait")
          /\ Step("main", "join", Contract(mem.g_count = 9, "exited"))
    /\ UNCHANGED mem

Next == PostSpinSemaphore \/ WaitSpinSemaphore \/ MainStep

\* Threads are scheduled.
Spec ==
    /\ Init /\ [][Next]_vars
    /\ WF_vars(MainStep) /\ WF_vars(PostSpinSemaphore) /\ WF_vars(WaitSpinSemaphore)

-----------------------------------------------------------------------------
\* Expects() and Ensures() hold however the threads interleave.
ContractsHold == \A t \in Procs : pc[t] # "failed"

\* The program gets here: the waiting thread is woken.
Finished == Ended("main")
=============================================================================
