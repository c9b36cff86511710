--------------------------- MODULE InprocWaitset ---------------------------
(***************************************************************************)
(* 007.inproc_waitset: a wait set made of one semaphore and one flag per   *)
(* event source, and the four demos that use it.                           *)
(*                                                                         *)
(* In demos 1 to 3 a thread fires events and main waits; in demo 4 main    *)
(* fires them, a thread waits and calls back, and main stops it.  The      *)
(* mutexes are left out: m_mtx of MiniWaitSet and of MiniListener are      *)
(* locked by one thread only once start() has run.                         *)
(***************************************************************************)
EXTENDS Integers, SequencesExt

Demos == {"demo1", "demo2", "demo3", "demo4"}

\* Event sources in the order of attach().
Attached == [demo1 |-> <<>>, demo2 |-> <<"A", "B", "C">>, demo3 |-> <<"X">>,
             demo4 |-> <<"Button", "Timer">>]

\* What is fired, in this order; in demo 1 only the semaphore is posted.
Script == [demo1 |-> <<"post">>, demo2 |-> <<"B", "A", "C">>, demo3 |-> <<"X">>,
           demo4 |-> <<"Button", "Timer", "Button">>]

\* Calls of wait() or timedWait() by main.
Rounds == [demo1 |-> 1, demo2 |-> 2, demo3 |-> 2, demo4 |-> 0]

Sources == UNION {ToSet(Attached[d]) : d \in Demos}

VARIABLES demo,       \* which demo runs
          sem,        \* m_sem
          triggered,  \* flags of the event sources
          fired,      \* completed calls of fireEvent()
          ppc,        \* where the firing thread is
          wpc,        \* where the waiting thread is
          left,       \* sources that collectTriggered() has not looked at
          result,     \* its result
          round,      \* completed rounds of main
          running,    \* m_running
          called      \* callbacks so far

vars == <<demo, sem, triggered, fired, ppc, wpc, left, result, round, running,
          called>>

Timed    == demo \in {"demo3", "demo4"}
Listener == demo = "demo4"
Current  == Script[demo][fired + 1]

Init ==
    /\ demo \in Demos
    /\ sem = 0
    /\ triggered = [s \in Sources |-> FALSE]
    /\ fired = 0
    /\ ppc = IF demo = "demo1" THEN "post" ELSE "fire"
    /\ wpc = IF Listener THEN "loop" ELSE "wait"
    /\ left = <<>>
    /\ result = <<>>
    /\ round = 0
    /\ running = TRUE
    /\ called = <<>>

-----------------------------------------------------------------------------
(* The firing thread                                                       *)

\* fireEvent(): the flag, and then the semaphore.  The thread of demo 3 is
\* created after the first round.
FireStore ==
    /\ ppc = "fire"
    /\ demo = "demo3" => round >= 1
    /\ triggered' = [triggered EXCEPT ![Current] = TRUE]
    /\ ppc' = "post"
    /\ UNCHANGED <<demo, sem, fired, wpc, left, result, round, running, called>>

AfterPost == CASE fired' < Len(Script[demo]) -> "fire"
               [] Listener -> "stop"
               [] OTHER -> "exited"

\* Fault: the semaphore is posted only when somebody waits for it.
FirePost_OnlyWhenWaiting ==
    /\ ppc = "post"
    /\ sem' = IF wpc = "wait" THEN sem + 1 ELSE sem
    /\ fired' = fired + 1
    /\ ppc' = AfterPost
    /\ UNCHANGED <<demo, triggered, wpc, left, result, round, running, called>>

FirePost ==
    /\ ppc = "post"
    /\ sem' = sem + 1
    /\ fired' = fired + 1
    /\ ppc' = AfterPost
    /\ UNCHANGED <<demo, triggered, wpc, left, result, round, running, called>>

\* MiniListener::stop()
StopRunning ==
    /\ ppc = "stop"
    /\ running' = FALSE
    /\ ppc' = "stop_post"
    /\ UNCHANGED <<demo, sem, triggered, fired, wpc, left, result, round, called>>

StopPost ==
    /\ ppc = "stop_post"
    /\ sem' = sem + 1
    /\ ppc' = "join"
    /\ UNCHANGED <<demo, triggered, fired, wpc, left, result, round, running, called>>

\* Fault: the thread is detached.
JoinListener_Detach ==
    /\ ppc = "join"
    /\ ppc' = "exited"
    /\ UNCHANGED <<demo, sem, triggered, fired, wpc, left, result, round, running, called>>

JoinListener ==
    /\ ppc = "join"
    /\ wpc = "exited"
    /\ ppc' = "exited"
    /\ UNCHANGED <<demo, sem, triggered, fired, wpc, left, result, round, running, called>>

Fire == FireStore \/ FirePost \/ StopRunning \/ StopPost \/ JoinListener

-----------------------------------------------------------------------------
(* The waiting thread                                                      *)

\* After a round main waits again or joins the firing thread.
NextRound ==
    /\ round' = round + 1
    /\ wpc' = IF round' < Rounds[demo] THEN "wait" ELSE "join"

\* wait() or timedWait(), when the semaphore is positive.  Demo 1 has no
\* sources to look at.
Wake ==
    /\ wpc = "wait"
    /\ sem > 0
    /\ sem' = sem - 1
    /\ left' = Attached[demo]
    /\ result' = <<>>
    /\ wpc' = "scan"
    /\ UNCHANGED <<demo, triggered, fired, ppc, round, running, called>>

\* timedWait() returns an empty vector after TIMEOUT.
TimeOut ==
    /\ wpc = "wait"
    /\ Timed
    /\ sem = 0
    /\ result' = <<>>
    /\ IF Listener THEN wpc' = "call" /\ UNCHANGED round ELSE NextRound
    /\ UNCHANGED <<demo, sem, triggered, fired, ppc, left, running, called>>

\* collectTriggered(): compare_exchange of the next source's flag.
CollectTriggered ==
    /\ wpc = "scan"
    /\ left # <<>>
    /\ left' = Tail(left)
    /\ result' = IF triggered[Head(left)] THEN Append(result, Head(left)) ELSE result
    /\ triggered' = [triggered EXCEPT ![Head(left)] = FALSE]
    /\ UNCHANGED <<demo, sem, fired, ppc, wpc, round, running, called>>

Collected ==
    /\ wpc = "scan"
    /\ left = <<>>
    /\ IF Listener THEN wpc' = "call" /\ UNCHANGED round ELSE NextRound
    /\ UNCHANGED <<demo, sem, triggered, fired, ppc, left, result, running, called>>

\* MiniListener::loop()
LoopTest ==
    /\ wpc = "loop"
    /\ wpc' = IF running THEN "wait" ELSE "exited"
    /\ UNCHANGED <<demo, sem, triggered, fired, ppc, left, result, round, running, called>>

Callback ==
    /\ wpc = "call"
    /\ result # <<>>
    /\ called' = Append(called, Head(result))
    /\ result' = Tail(result)
    /\ UNCHANGED <<demo, sem, triggered, fired, ppc, wpc, left, round, running>>

CallbacksDone ==
    /\ wpc = "call"
    /\ result = <<>>
    /\ wpc' = "loop"
    /\ UNCHANGED <<demo, sem, triggered, fired, ppc, left, result, round, running, called>>

JoinProducer ==
    /\ wpc = "join"
    /\ ppc = "exited"
    /\ wpc' = "exited"
    /\ UNCHANGED <<demo, sem, triggered, fired, ppc, left, result, round, running, called>>

Wait == \/ Wake \/ TimeOut \/ CollectTriggered \/ Collected \/ LoopTest
        \/ Callback \/ CallbacksDone \/ JoinProducer

Next == Fire \/ Wait

-----------------------------------------------------------------------------
(* Correctness                                                             *)

\* A flag whose fireEvent() has returned is still to be looked at by the
\* current collectTriggered(), or the semaphore will wake another one: no
\* wake-up is lost, however posts and rounds interleave.
NoLostWakeup ==
    \A s \in Sources :
      (triggered[s] /\ ~(ppc = "post" /\ Current = s)) =>
        sem > 0 \/ (wpc = "scan" /\ s \in ToSet(left))

\* When stop() has returned no callback is running or will run.
StoppedIsQuiet == [][ppc = "exited" => UNCHANGED called]_vars

\* Every demo gets here: no wait() of main waits for a post that never comes,
\* and stop() gets the listener's thread out of its loop.
Finished == ppc = "exited" /\ wpc = "exited"
=============================================================================
