---------------------------- MODULE PthreadDemos ----------------------------
(***************************************************************************)
(* 004.pthread_platform: threads and the kinds of mutexes of pthread.  The *)
(* demos share nothing, so that a behaviour runs one of them.  A CHECK or  *)
(* an assert() that fails leads to "failed".                               *)
(***************************************************************************)
EXTENDS Threads, Integers

CONSTANTS Iters,  \* iters of counterFunc() (100000 in the code)
          Depth   \* depth of recursiveLock() (3 in the code)

Demos == {"thread", "normal", "recursive", "trylock", "prio", "robust"}

\* Threads that main() creates (four in the code for demo normal), and where
\* they begin.
Workers(d) == CASE d = "thread" -> 1..3
                [] d = "normal" -> 1..2
                [] d \in {"trylock", "robust"} -> {1}
                [] OTHER -> {}

Entry == [thread |-> "name", normal |-> "lock", trylock |-> "hold", robust |-> "crash",
          recursive |-> "none", prio |-> "none"]

\* Where main() begins, and where it goes when the threads are created and
\* when they are joined.
Begin      == [d \in Demos |-> CASE d = "recursive" -> "enter" [] d = "prio" -> "init"
                                 [] OTHER -> "create"]
AfterStart == [d \in Demos |-> IF d = "trylock" THEN "spin" ELSE "join"]
AfterJoin  == [d \in Demos |-> CASE d = "thread" -> "exited" [] d = "normal" -> "destroy"
                                 [] d = "trylock" -> "again" [] OTHER -> "recover"]

Kind(d)   == CASE d = "recursive" -> "RECURSIVE" [] d = "robust" -> "ERRORCHECK"
               [] OTHER -> "NORMAL"
Robust(d) == d = "robust"

NoOne == 0
Main  == 4
Procs == 1..4

Init ==
    \E d \in Demos :
      /\ pc = [t \in Procs |-> IF t = Main THEN Begin[d] ELSE "new"]
      /\ mem = [demo |-> d, next |-> 1, owner |-> NoOne, depth |-> 0,
                inconsistent |-> FALSE, counter |-> 0, local |-> [t \in Procs |-> 0],
                iters |-> [t \in Procs |-> 0], holderReady |-> FALSE, done |-> FALSE]

-----------------------------------------------------------------------------
(* The mutex: what a call returns, and what it leaves behind               *)

OwnerDead == mem.owner # NoOne /\ Ended(mem.owner)

\* lock() returns; otherwise the caller is blocked.
LockReturns(t) ==
    \/ mem.owner = NoOne
    \/ mem.owner = t /\ Kind(mem.demo) # "NORMAL"
    \/ OwnerDead /\ Robust(mem.demo)

LockRc(t) == CASE mem.owner = NoOne -> "ok"
               [] mem.owner = t -> IF Kind(mem.demo) = "RECURSIVE" THEN "ok" ELSE "EDEADLK"
               [] OTHER -> "EOWNERDEAD"

Locked(t) == [mem EXCEPT !.owner = t, !.depth = IF mem.owner = t THEN @ + 1 ELSE 1,
                         !.inconsistent = OwnerDead]

UnlockRc(t) == IF mem.owner = t THEN "ok" ELSE "EPERM"

Unlocked == [mem EXCEPT !.depth = @ - 1, !.owner = IF mem.depth = 1 THEN NoOne ELSE @]

TryLockRc == IF mem.owner = NoOne THEN "ok" ELSE "EBUSY"

DestroyRc == IF mem.owner = NoOne THEN "ok" ELSE "EBUSY"

\* A call whose result CHECK or assert() compares with what is expected.
Checked(rc, expected, to) == IF rc = expected THEN to ELSE "failed"

CheckedLock(t, from, to) ==
    /\ LockReturns(t)
    /\ Step(t, from, Checked(LockRc(t), "ok", to))
    /\ mem' = Locked(t)

CheckedUnlock(t, from, to) ==
    /\ Step(t, from, Checked(UnlockRc(t), "ok", to))
    /\ mem' = Unlocked

-----------------------------------------------------------------------------
(* Threads                                                                 *)

\* threadFunc(): sets its name and reads it back.
ThreadFunc(t) == Step(t, "name", "exited") /\ UNCHANGED mem

\* Fault: the mutex is released before the counter is stored.
CounterFunc_EarlyUnlock(t) ==
    \/ CheckedLock(t, "lock", "load")
    \/ Step(t, "load", "unlock") /\ mem' = [mem EXCEPT !.local[t] = mem.counter]
    \/ CheckedUnlock(t, "unlock", "store")
    \/ /\ Step(t, "store", IF mem.iters[t] + 1 < Iters THEN "lock" ELSE "exited")
       /\ mem' = [mem EXCEPT !.counter = mem.local[t] + 1, !.iters[t] = @ + 1]

\* counterFunc(): ++(*counter) is a load and a store.
CounterFunc(t) ==
    \/ CheckedLock(t, "lock", "load")
    \/ Step(t, "load", "store") /\ mem' = [mem EXCEPT !.local[t] = mem.counter]
    \/ /\ Step(t, "store", "unlock")
       /\ mem' = [mem EXCEPT !.counter = mem.local[t] + 1, !.iters[t] = @ + 1]
    \/ CheckedUnlock(t, "unlock", IF mem.iters[t] < Iters THEN "lock" ELSE "exited")

\* holderFunc(): holds the mutex until main() has tried.
HolderFunc(t) ==
    \/ CheckedLock(t, "hold", "ready")
    \/ Step(t, "ready", "wait") /\ mem' = [mem EXCEPT !.holderReady = TRUE]
    \/ mem.done /\ Step(t, "wait", "release") /\ UNCHANGED mem
    \/ CheckedUnlock(t, "release", "exited")

\* crashHolder(): ends with the mutex locked.
CrashHolder(t) == CheckedLock(t, "crash", "exited")

-----------------------------------------------------------------------------
(* main()                                                                  *)

CreateThread ==
    LET w    == mem.next
        last == w + 1 \notin Workers(mem.demo)
    IN  /\ Create(Main, "create", IF last THEN AfterStart[mem.demo] ELSE "create",
                  w, Entry[mem.demo])
        /\ mem' = [mem EXCEPT !.next = IF last THEN 1 ELSE w + 1]

JoinThread ==
    LET w == mem.next
    IN  /\ Ended(w)
        /\ Step(Main, "join", IF w + 1 \in Workers(mem.demo) THEN "join"
                              ELSE AfterJoin[mem.demo])
        /\ mem' = [mem EXCEPT !.next = w + 1]

\* recursiveLock() going down and coming up.
RecursiveLock ==
    \/ CheckedLock(Main, "enter", IF mem.depth + 1 < Depth THEN "enter" ELSE "leave")
    \/ CheckedUnlock(Main, "leave", IF mem.depth > 1 THEN "leave" ELSE "destroy")

\* Fault: main() does not wait for the holder.
Spin_Skipped == Step(Main, "spin", "try") /\ UNCHANGED mem

Spin == mem.holderReady /\ Step(Main, "spin", "try") /\ UNCHANGED mem

\* demo_trylock() from the first try on.
TryLock ==
    \/ Step(Main, "try", Checked(TryLockRc, "EBUSY", "tried")) /\ UNCHANGED mem
    \/ Step(Main, "tried", "join") /\ mem' = [mem EXCEPT !.done = TRUE]
    \/ Step(Main, "again", Checked(TryLockRc, "ok", "drop")) /\ mem' = Locked(Main)
    \/ CheckedUnlock(Main, "drop", "destroy")

\* demo_prio_inherit(): the mutex may be refused.
PrioInherit ==
    \/ (Step(Main, "init", "take") \/ Step(Main, "init", "exited")) /\ UNCHANGED mem
    \/ CheckedLock(Main, "take", "drop")

\* demo_robust_mutex(): the dead owner is noticed, the state is mended.
Recover ==
    \/ /\ LockReturns(Main)
       /\ Step(Main, "recover", IF LockRc(Main) = "EOWNERDEAD" THEN "mend" ELSE "destroy")
       /\ mem' = Locked(Main)
    \/ Step(Main, "mend", "drop") /\ mem' = [mem EXCEPT !.inconsistent = FALSE]

Destroy == Step(Main, "destroy", Checked(DestroyRc, "ok", "exited")) /\ UNCHANGED mem

MainStep == \/ CreateThread \/ JoinThread \/ RecursiveLock \/ Spin \/ TryLock
            \/ PrioInherit \/ Recover \/ Destroy

Worker(t) == ThreadFunc(t) \/ CounterFunc(t) \/ HolderFunc(t) \/ CrashHolder(t)

Next == MainStep \/ \E t \in Procs \ {Main} : Worker(t)

\* Threads are scheduled.
Spec == Init /\ [][Next]_vars /\ WF_vars(MainStep) /\ \A t \in 1..3 : WF_vars(Worker(t))

-----------------------------------------------------------------------------
(* Correctness                                                             *)

\* No CHECK and no assert() fails, in whatever order the threads run; no
\* increment of the counter is lost, and a mutex that a thread died with is
\* consistent again when it is released.
ContractsHold ==
    /\ \A t \in Procs : pc[t] # "failed"
    /\ Ended(Main) /\ mem.demo = "normal" => mem.counter = 2 * Iters
    /\ mem.owner = NoOne => ~mem.inconsistent

\* Every demo gets here: it ends with all of its threads.
Finished == \A t \in Procs : pc[t] \in {"exited", "new"} /\ Ended(Main)
=============================================================================
