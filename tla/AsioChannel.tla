----------------------------- MODULE AsioChannel -----------------------------
(***************************************************************************)
(* boost::asio::experimental::channel, from how src/ uses it: a buffer of  *)
(* bounded size and at most one outstanding receive operation.  A channel  *)
(* is a record: buf, the messages in the buffer; op, the receive operation *)
(* (none; starting: spawned, has not looked at the channel; waiting;       *)
(* ready: it took a message and its completion is queued); got, the        *)
(* message it took.                                                        *)
(***************************************************************************)
EXTENDS Naturals, Sequences

Empty == [buf |-> <<>>, op |-> "none", got |-> <<>>]

\* try_send(): would it succeed, and the channel after it did.
CanSend(ch, capacity) == ch.op = "waiting" \/ Len(ch.buf) < capacity

Send(ch, m) ==
    IF ch.op = "waiting"
    THEN [ch EXCEPT !.op = "ready", !.got = <<m>>]
    ELSE [ch EXCEPT !.buf = Append(@, m)]

\* async_receive(): takes the oldest message, or waits for one.
Receive(ch) ==
    IF ch.buf = <<>>
    THEN [ch EXCEPT !.op = "waiting"]
    ELSE [buf |-> Tail(ch.buf), op |-> "ready", got |-> <<Head(ch.buf)>>]

\* co_spawn of an awaitable that will call async_receive().
Spawn(ch) == [ch EXCEPT !.op = "starting"]

Ready(ch) == ch.op = "ready"

Message(ch) == ch.got[1]

\* The operation is over: completed, or cancelled with what it may have taken.
Finish(ch) == [ch EXCEPT !.op = "none", !.got = <<>>]
=============================================================================
