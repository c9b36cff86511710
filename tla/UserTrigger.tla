----------------------------- MODULE UserTrigger -----------------------------
(***************************************************************************)
(* 006.user_trigger: user triggers that are attached to a wait set or to a *)
(* listener.  wait() returns when some trigger is set, reports every one   *)
(* that is and resets it; several calls of trigger() before that are       *)
(* reported once.  A behaviour runs one demo.                              *)
(*                                                                         *)
(* The threads sleep between their steps.  Either the sleeps are long      *)
(* enough for the others to get as far as they can (mem.late = FALSE), or  *)
(* the machine is so busy that they are not (TRUE).                        *)
(***************************************************************************)
EXTENDS Threads, Sequences, Integers, FiniteSets

Demos    == {"single", "multi", "timed", "listener", "has_triggered"}
Triggers == {"A", "B"}
Procs    == {"main", "worker"}

\* What is triggered, in this order.
Script == [single |-> <<"A", "A", "A">>, multi |-> <<"A", "B", "A">>, timed |-> <<"A">>,
           listener |-> <<"A", "A", "A", "A">>, has_triggered |-> <<"A">>]

\* In the last two demos main() triggers, and the thread of the listener or
\* nobody runs beside it.
Begin == [single |-> "loop", multi |-> "loop", timed |-> "wait1", listener |-> "trigger",
          has_triggered |-> "trigger"]
Entry == [single |-> "trigger", multi |-> "trigger", timed |-> "new", listener |-> "listen",
          has_triggered |-> "new"]

Init ==
    \E d \in Demos, late \in BOOLEAN :
      /\ pc = [main |-> Begin[d], worker |-> Entry[d]]
      /\ mem = [demo |-> d, late |-> late, set |-> {}, fired |-> 0, done |-> FALSE,
                received |-> <<>>, alive |-> TRUE, misuse |-> FALSE]

-----------------------------------------------------------------------------
\* trigger.trigger(); a trigger of a scope that was left is gone.
Triggered ==
    [mem EXCEPT !.set = @ \cup {Script[mem.demo][mem.fired + 1]}, !.fired = @ + 1,
                !.misuse = @ \/ ~mem.alive]

\* What the wait set reports is called back and counted, in some order.
Reported ==
    {[mem EXCEPT !.set = {}, !.received = @ \o order] :
        order \in {s \in [1..Cardinality(mem.set) -> mem.set] :
                     {s[i] : i \in DOMAIN s} = mem.set}}

AllFired == mem.fired = Len(Script[mem.demo])

\* Where a thread waits for another one, or has nothing more to do.
Waiting == {"wait", "listen", "join", "exited", "new"}

\* The other threads have done what they can while t slept.
Slept(t) ==
    mem.late \/ (mem.set = {} /\ \A u \in Procs \ {t} : pc[u] \in Waiting)

-----------------------------------------------------------------------------
(* The thread of demos single, multi and timed                             *)

Trigger ==
    /\ mem.demo \in {"single", "multi", "timed"}
    /\ ~AllFired
    /\ Slept("worker")
    /\ Step("worker", "trigger", IF mem.fired + 1 < Len(Script[mem.demo]) THEN "trigger"
                                 ELSE IF mem.demo = "single" THEN "done" ELSE "exited")
    /\ mem' = Triggered

SetDone == Step("worker", "done", "exited") /\ mem' = [mem EXCEPT !.done = TRUE]

-----------------------------------------------------------------------------
(* main()                                                                  *)

\* Fault: the loop ends one notification early.
GoOn_TwoSuffice == IF mem.demo = "single" THEN ~mem.done \/ Len(mem.received) < 2
                                          ELSE Len(mem.received) < 2

\* single: while (!done || received < 3); multi: while (total < 3).
GoOn == IF mem.demo = "single" THEN ~mem.done \/ Len(mem.received) < 3
                               ELSE Len(mem.received) < 3

LoopTest == Step("main", "loop", IF GoOn THEN "wait" ELSE "join") /\ UNCHANGED mem

Wait == mem.set # {} /\ Step("main", "wait", "loop") /\ mem' \in Reported

\* detachEvent() and the end of the scope of the triggers.
Leave == [mem EXCEPT !.alive = FALSE]

Join == Ended("worker") /\ Step("main", "join", "exited") /\ mem' = Leave

\* timed: nothing is triggered during the first timedWait().
FirstTimedWait ==
    Create("main", "wait1", "wait", "worker", "trigger") /\ mem.demo = "timed" /\ UNCHANGED mem

\* timed and has_triggered: what is there, or a time-out.
TimedWait ==
    /\ mem.demo \in {"timed", "has_triggered"}
    /\ mem.set # {} \/ mem.late
    /\ Step("main", "wait", "leave")
    /\ mem' \in Reported

\* listener and has_triggered: main() triggers.
MainTrigger ==
    /\ mem.demo \in {"listener", "has_triggered"}
    /\ mem.demo = "listener" => Slept("main")
    /\ Step("main", "trigger", CASE mem.fired + 1 < Len(Script[mem.demo]) -> "trigger"
                                 [] mem.demo = "listener" -> "sleep" [] OTHER -> "wait")
    /\ mem' = Triggered

\* The last sleep, detachEvent() and ~Listener(), which joins its thread.
Detach ==
    \/ Slept("main") /\ Step("main", "sleep", "leave") /\ UNCHANGED mem
    \/ /\ pc["main"] = "leave"
       /\ pc' = [pc EXCEPT !["main"] = "exited",
                           !["worker"] = IF mem.demo = "listener" THEN "exited" ELSE @]
       /\ mem' = Leave

Listen == mem.set # {} /\ Step("worker", "listen", "listen") /\ mem' \in Reported

MainStep ==
    \/ LoopTest \/ (mem.demo \in {"single", "multi"} /\ Wait) \/ Join \/ FirstTimedWait
    \/ TimedWait \/ MainTrigger \/ Detach

WorkerStep == Trigger \/ SetDone \/ Listen

Next == MainStep \/ WorkerStep

\* Threads are scheduled.
Spec == Init /\ [][Next]_vars /\ WF_vars(MainStep) /\ WF_vars(WorkerStep)

-----------------------------------------------------------------------------
(* Correctness                                                             *)

\* Nothing is reported that was not triggered, and when the sleeps suffice
\* every call of trigger() is reported once, in its order, and no trigger is
\* used after its scope.
ReportsExact ==
    /\ Len(mem.received) + Cardinality(mem.set) <= mem.fired
    /\ ~mem.late =>
         /\ ~mem.misuse
         /\ mem.received = SubSeq(Script[mem.demo], 1, Len(mem.received))
         /\ Ended("main") => AllFired /\ Len(mem.received) = mem.fired

\* Every demo but the first gets here when the sleeps suffice.
Finished == mem.late \/ mem.demo = "single" \/ (Ended("main") /\ pc["worker"] \in {"exited", "new"})

\* The first demo gets here after the three notifications that its comment
\* announces.
SingleFinished == mem.late \/ mem.demo # "single" \/ Ended("main")
=============================================================================
