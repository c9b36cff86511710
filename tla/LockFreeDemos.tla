---------------------------- MODULE LockFreeDemos ----------------------------
(***************************************************************************)
(* 009.concurrent and 001.cmake: the demos of the lock-free containers of  *)
(* iceoryx.  A container is its contents in order: each of its operations  *)
(* takes effect at once.  A behaviour runs one demo:                       *)
(*   mpmc  two producers push, two consumers pop a fixed number of times;  *)
(*   spsc  a producer that spins while the queue is full, and a consumer;  *)
(*   pool  threads allocate slots of an object pool and give them back;    *)
(*   loffli  main() takes all slots, gives some back and takes them again; *)
(*   the others are sequences of calls by main().                          *)
(***************************************************************************)
EXTENDS Threads, SequencesExt, FiniteSets

CONSTANTS N,         \* values per producer (50 in the code)
          Capacity,  \* of mt_queue (128 in the code) ...
          FifoCap,   \* ... and of mt_fifo (64 in the code)
          PoolSize,  \* POOL_SIZE of 001 (8 in the code)
          Ops,       \* OPS_PER_THREAD (6 in the code)
          GiveBack   \* slots that demo loffli gives back (3 of 5 in the code)

Producers == {"p1", "p2"}
Consumers == {"c1", "c2"}
Workers   == {"w1", "w2"}
Slots     == 1..PoolSize
Procs     == {"main"} \cup Producers \cup Consumers \cup Workers

\* The calls of the sequential demos: operation and argument.  push evicts
\* the oldest value when the queue is full, try_push fails; resize sets the
\* capacity and evicts the oldest values that are too many.
Calls(op, values) == [i \in DOMAIN values |-> <<op, values[i]>>]
UpTo(a, b)        == [i \in 1..(b - a + 1) |-> a + i - 1]

Script ==
  [lockfree |-> Calls("try_push", UpTo(0, 5)) \o <<<<"drain", 0>>>>
                \o Calls("try_push", UpTo(10, 13)) \o <<<<"push", 99>>, <<"drain", 0>>>>,
   resizeable |-> Calls("try_push", UpTo(0, 3)) \o <<<<"resize", 8>>>>
                  \o Calls("try_push", UpTo(4, 7)) \o <<<<"resize", 3>>, <<"drain", 0>>>>,
   fifo |-> Calls("try_push", UpTo(0, 5)) \o <<<<"drain", 0>>>>,
   sofi |-> Calls("push", UpTo(0, 5)) \o <<<<"drain", 0>>>>,
   sofi2 |-> <<<<"resize", 4>>>> \o Calls("push", UpTo(0, 5)) \o <<<<"drain", 0>>>>]

SeqCapacity == [lockfree |-> 4, resizeable |-> 4, fifo |-> 4, sofi |-> 3, sofi2 |-> 8]

\* What the comments of the demos say the last drain returns.
LastDrain == [lockfree |-> <<11, 12, 13, 99>>, resizeable |-> <<5, 6, 7>>,
              fifo |-> UpTo(0, 3), sofi |-> UpTo(3, 5), sofi2 |-> UpTo(2, 5)]

Demos == {"mpmc", "spsc", "pool", "loffli"} \cup DOMAIN Script

Threads(d) == CASE d = "mpmc" -> Producers \cup Consumers
                [] d = "spsc" -> {"p1", "c1"}
                [] d = "pool" -> Workers
                [] OTHER -> {}

\* Where main() and the threads begin.
Begin(d) == CASE d \in DOMAIN Script -> "call" [] d = "loffli" -> "take" [] OTHER -> "join"
Entry(t) == CASE t \in Producers -> "push" [] t \in Consumers -> "pop" [] OTHER -> "alloc"

Init ==
    \E d \in Demos :
      /\ pc = [t \in Procs |-> CASE t = "main" -> Begin(d)
                                 [] t \in Threads(d) -> Entry(t)
                                 [] OTHER -> "new"]
      /\ mem = [demo |-> d,
                queue |-> <<>>, free |-> Slots,
                capacity |-> CASE d \in DOMAIN Script -> SeqCapacity[d]
                               [] d = "spsc" -> FifoCap [] OTHER -> Capacity,
                call |-> 1, drained |-> <<>>,
                i |-> [t \in Procs |-> 0],
                local |-> [t \in Consumers |-> {}],
                acquired |-> [t \in Procs |-> <<>>],
                object |-> [s \in Slots |-> "none"],
                recovered |-> 0]

-----------------------------------------------------------------------------
(* Containers                                                              *)

Full == Len(mem.queue) >= mem.capacity

TryPushed(v) == IF Full THEN mem.queue ELSE Append(mem.queue, v)
Pushed(v)    == Append(IF Full THEN Tail(mem.queue) ELSE mem.queue, v)
Newest(q, n) == SubSeq(q, IF Len(q) > n THEN Len(q) - n + 1 ELSE 1, Len(q))

-----------------------------------------------------------------------------
(* The demos with threads                                                  *)

Value(t) == <<t, mem.i[t]>>

\* mpmc: push() for i < N; spsc: push() until it succeeds.
Produce(t) ==
    LET ok == mem.demo = "mpmc" \/ ~Full
        n  == IF ok THEN mem.i[t] + 1 ELSE mem.i[t]
    IN  /\ t \in Producers
        /\ Step(t, "push", IF n < N THEN "push" ELSE "exited")
        /\ mem' = [mem EXCEPT !.queue = IF mem.demo = "mpmc" THEN Pushed(Value(t))
                                                             ELSE TryPushed(Value(t)),
                              !.i[t] = n]

\* Fault: an attempt that finds nothing is counted.
Consume_CountsEmpty(t) ==
    /\ t \in Consumers
    /\ Step(t, "pop", IF mem.i[t] + 1 < N THEN "pop" ELSE "exited")
    /\ mem' = IF mem.queue = <<>> THEN [mem EXCEPT !.i[t] = @ + 1]
              ELSE [mem EXCEPT !.queue = Tail(@), !.i[t] = @ + 1,
                               !.local[t] = @ \cup {Head(mem.queue)}]

\* pop() until it has a value, N times.
Consume(t) ==
    /\ t \in Consumers
    /\ mem.queue # <<>>
    /\ Step(t, "pop", IF mem.i[t] + 1 < N THEN "pop" ELSE "exited")
    /\ mem' = [mem EXCEPT !.queue = Tail(@), !.i[t] = @ + 1,
                          !.local[t] = @ \cup {Head(mem.queue)}]

\* pop() and push() of the free list.
Take(t, s) == [mem EXCEPT !.free = @ \ {s}, !.acquired[t] = Append(@, s), !.i[t] = @ + 1]
Give(t)    == [mem EXCEPT !.free = @ \cup {Head(mem.acquired[t])}, !.acquired[t] = Tail(@)]

AfterOp(n) == IF n < Ops THEN "alloc" ELSE "free"

\* pool: allocate() and the use of what it returns, Ops times ...
Allocate(t) ==
    \/ /\ mem.free = {}
       /\ Step(t, "alloc", AfterOp(mem.i[t] + 1))
       /\ mem' = [mem EXCEPT !.i[t] = @ + 1]
    \/ Step(t, "alloc", "reset") /\ \E s \in mem.free : mem' = Take(t, s)
    \/ /\ Step(t, "reset", "fill")
       /\ mem' = [mem EXCEPT !.object[Last(mem.acquired[t])] = "empty"]
    \/ /\ Step(t, "fill", AfterOp(mem.i[t]))
       /\ mem' = [mem EXCEPT !.object[Last(mem.acquired[t])] = t]

\* Fault: the slot goes back to the list but is still used.
Deallocate_Kept(t) ==
    \/ /\ mem.acquired[t] # <<>>
       /\ Step(t, "free", "exited")
       /\ mem' = [mem EXCEPT !.free = @ \cup ToSet(mem.acquired[t])]
    \/ mem.acquired[t] = <<>> /\ Step(t, "free", "exited") /\ UNCHANGED mem

\* ... and deallocate() for each slot that was acquired.
Deallocate(t) ==
    \/ mem.acquired[t] # <<>> /\ Step(t, "free", "free") /\ mem' = Give(t)
    \/ mem.acquired[t] = <<>> /\ Step(t, "free", "exited") /\ UNCHANGED mem

\* loffli: all slots, the first ones back, and the free ones again.
Loffli ==
    \/ Step("main", "take", "take") /\ \E s \in mem.free : mem' = Take("main", s)
    \/ mem.free = {} /\ Step("main", "take", "give") /\ UNCHANGED mem
    \/ Step("main", "give", IF Cardinality(mem.free) + 1 < GiveBack THEN "give" ELSE "retake")
       /\ mem' = Give("main")
    \/ Step("main", "retake", "retake") /\ \E s \in mem.free : mem' = Take("main", s)
    \/ mem.free = {} /\ Step("main", "retake", "exited") /\ UNCHANGED mem

Worker(t) == t \in Workers /\ (Allocate(t) \/ Deallocate(t))

-----------------------------------------------------------------------------
(* main()                                                                  *)

\* Joins the threads; the pool demo then counts the slots that are back.
Join ==
    /\ \A t \in Threads(mem.demo) : Ended(t)
    /\ Step("main", "join", "exited")
    /\ mem' = [mem EXCEPT !.recovered = Cardinality(mem.free)]

Drain == mem' = [mem EXCEPT !.queue = <<>>, !.drained = mem.queue, !.call = @ + 1]

Resize(n) == mem' = [mem EXCEPT !.queue = Newest(@, n), !.capacity = n, !.call = @ + 1]

Call ==
    LET c == Script[mem.demo][mem.call]
    IN  /\ mem.demo \in DOMAIN Script
        /\ Step("main", "call", IF mem.call < Len(Script[mem.demo]) THEN "call" ELSE "exited")
        /\ CASE c[1] = "try_push" -> mem' = [mem EXCEPT !.queue = TryPushed(c[2]), !.call = @ + 1]
             [] c[1] = "push" -> mem' = [mem EXCEPT !.queue = Pushed(c[2]), !.call = @ + 1]
             [] c[1] = "resize" -> Resize(c[2])
             [] OTHER -> Drain

Thread(t) == Produce(t) \/ Consume(t) \/ Worker(t)

MainStep == Join \/ Call \/ Loffli

Next == MainStep \/ \E t \in Procs : Thread(t)

\* Threads are scheduled.
Spec == Init /\ [][Next]_vars /\ WF_vars(MainStep) /\ \A t \in Procs : WF_vars(Thread(t))

-----------------------------------------------------------------------------
(* Correctness                                                             *)

Taken == UNION {mem.local[t] : t \in Consumers}

\* A slot of the pool belongs to one thread or is free, what a thread put in
\* it stays until it is given back, and at the end all slots are back.
SlotsExclusive ==
    /\ \A t \in Procs : \A k \in DOMAIN mem.acquired[t] :
         LET s == mem.acquired[t][k] IN
         /\ s \notin mem.free
         /\ \A u \in Procs \ {t} : s \notin ToSet(mem.acquired[u])
         /\ pc[t] = "free" => mem.object[s] = t
    /\ Ended("main") /\ mem.demo = "pool" => mem.recovered = PoolSize

\* The consumers get every value that was pushed, each once: the sums that the
\* demos print are the expected ones, and the sequential demos drain what
\* their comments say.
NothingLost ==
    Ended("main") =>
      /\ mem.demo \in DOMAIN Script => mem.drained = LastDrain[mem.demo]
      /\ mem.demo = "mpmc" => Taken = Producers \X (0..(N - 1))
      /\ mem.demo = "spsc" => Taken = {"p1"} \X (0..(N - 1))

\* Every demo gets here: no consumer spins for ever for a value that was
\* evicted, and no producer for room.
Finished == Ended("main")
=============================================================================
