------------------------------ MODULE IoContext ------------------------------
(***************************************************************************)
(* boost::asio::io_context as the two thread pools use it: a queue of      *)
(* handlers that post() extends, threads inside run() that take handlers   *)
(* from it, and stop(), after which run() returns in every thread once its *)
(* handler has ended.  A work guard keeps run() from returning for lack of *)
(* handlers.                                                               *)
(***************************************************************************)
EXTENDS Sequences

\* A context nothing has been posted to.
NewContext == [queue |-> <<>>, stopped |-> FALSE]

\* The context once handler h has been posted.
Posted(c, h) == [c EXCEPT !.queue = Append(@, h)]

\* A thread inside run() that has no handler takes one, or leaves run().
CanTake(c) == ~c.stopped /\ c.queue # <<>>

Taken(c) == [c EXCEPT !.queue = Tail(@)]

Stopped(c) == [c EXCEPT !.stopped = TRUE]
=============================================================================
