---------------------------- MODULE UdpRequests ----------------------------
(***************************************************************************)
(* 010.udp_client and 011.udp_server: client_session() spawns requests,    *)
(* each with a socket of its own, and polls a counter that every request   *)
(* increments when it is over; one server coroutine answers.  Datagrams    *)
(* are lost in either direction, the port may be closed, and calls on      *)
(* sockets may throw.                                                      *)
(***************************************************************************)
EXTENDS Threads, Integers, FiniteSets

CONSTANTS Requests, \* the requests that client_session() spawns (100000 in the code)
          Polled    \* value of the counter that it waits for (10000 in the code)

Procs == Requests \cup {"session", "server"}

\* The system gives a socket a port that no open socket has; the port of a
\* closed one is given again.
Ports  == 1..Cardinality(Requests)
NoPort == 0
Free   == {p \in Ports : \A r \in Requests : mem.port[r] # p}

\* The two kinds of request take the same steps and nobody looks at what an
\* answer says: datagrams are told apart by the port of the client only.
\* counted and thrown are history: how often a request was counted, and the
\* call of it that threw.
Init ==
    /\ pc = [p \in Procs |-> CASE p = "session" -> "spawn" [] p = "server" -> "receive" [] OTHER -> "new"]
    /\ mem = [port |-> [r \in Requests |-> NoPort], counter |-> 0,
              counted |-> [r \in Requests |-> 0], thrown |-> [r \in Requests |-> "nothing"],
              asked |-> {}, serving |-> NoPort, answers |-> {}]

-----------------------------------------------------------------------------
(* client_session()                                                        *)

Spawn ==
    /\ \E r \in Requests : pc[r] = "new"
    /\ Create("session", "spawn", "spawn", CHOOSE r \in Requests : pc[r] = "new", "send")
    /\ UNCHANGED mem

SpawnedAll == (\A r \in Requests : pc[r] # "new") /\ Step("session", "spawn", "poll") /\ UNCHANGED mem

\* while (counter != 10000) sleep
Poll ==
    /\ IF mem.counter # Polled THEN Step("session", "poll", "poll") ELSE Step("session", "poll", "completed")
    /\ UNCHANGED mem

-----------------------------------------------------------------------------
(* time_flush_request() and hello_request()                                *)

\* counter++ on the way out, and in the handler of an exception.
Count(m, r) == [m EXCEPT !.counter = @ + 1, !.counted[r] = @ + 1]

\* Fault: the handler of the exception does not count.
Catch_Uncounted(m, r, from) ==
    /\ Step(r, from, "exited")
    /\ mem' = [m EXCEPT !.thrown[r] = from, !.port[r] = NoPort]

\* The exception leaves the block of the socket, which is closed, and the
\* handler counts.
Catch(m, r, from) ==
    /\ Step(r, from, "exited")
    /\ mem' = Count([m EXCEPT !.thrown[r] = from, !.port[r] = NoPort], r)

\* open() and async_send_to(), which gives the socket its port: the datagram
\* is on its way or lost.
SendRequest(r) ==
    \/ \E p \in Free :
         /\ Step(r, "send", "receive")
         /\ \E asked \in {mem.asked, mem.asked \cup {p}} :
              mem' = [mem EXCEPT !.port[r] = p, !.asked = asked]
    \/ Catch(mem, r, "send")

\* Fault: the receive has no timer to race with.
ReceiveWithTimeout_NoTimer(r) ==
    /\ mem.port[r] \in mem.answers
    /\ Step(r, "receive", "count")
    /\ mem' = [mem EXCEPT !.answers = @ \ {mem.port[r]}]

\* receive_with_timeout(): an answer that came to the port, be it a late one
\* to a request that had the port before; an error that is not looked at; or
\* the timer, which may win although an answer is there.  The loser is
\* cancelled, and cancel() may throw.  How often the timer won is only printed.
ReceiveWithTimeout(r) ==
    \E m \in {mem, [mem EXCEPT !.answers = @ \ {mem.port[r]}]} :
        \/ Step(r, "receive", "count") /\ mem' = m
        \/ Catch(m, r, "receive")

CountRequest(r) == Step(r, "count", "close") /\ mem' = Count(mem, r)

\* socket.close() is called after the count, and may throw.
Close(r) ==
    \/ Step(r, "close", "exited") /\ mem' = [mem EXCEPT !.port[r] = NoPort]
    \/ Catch(mem, r, "close")

Request(r) == SendRequest(r) \/ ReceiveWithTimeout(r) \/ CountRequest(r) \/ Close(r)

-----------------------------------------------------------------------------
(* udp_async_server()                                                      *)

ServerReceive ==
    \E p \in mem.asked :
      /\ Step("server", "receive", "respond")
      /\ mem' = [mem EXCEPT !.asked = @ \ {p}, !.serving = p]

\* async_send_to() to the port of the sender, whoever has it by now: the
\* answer is on its way or lost.
ServerRespond ==
    /\ Step("server", "respond", "receive")
    /\ \E answers \in {mem.answers, mem.answers \cup {mem.serving}} :
         mem' = [mem EXCEPT !.serving = NoPort, !.answers = answers]

\* A call throws: the coroutine leaves its loop, and nobody answers any more.
ServerThrows ==
    (Step("server", "receive", "exited") \/ Step("server", "respond", "exited")) /\ UNCHANGED mem

Server == ServerReceive \/ ServerRespond \/ ServerThrows

Next == Spawn \/ SpawnedAll \/ Poll \/ Server \/ \E r \in Requests : Request(r)

\* Coroutines whose operation has completed, or timed out, are resumed.
Spec ==
    /\ Init /\ [][Next]_vars
    /\ WF_vars(Spawn \/ SpawnedAll) /\ \A r \in Requests : WF_vars(Request(r))

-----------------------------------------------------------------------------
(* Correctness                                                             *)

\* A request that is over was counted once, whether it was answered, timed
\* out or thrown out of a call, with one exception: close() is called after
\* the count, and the handler of its exception counts the request again.
RequestsCounted ==
    \A r \in Requests :
        Ended(r) => mem.counted[r] = IF mem.thrown[r] = "close" THEN 2 ELSE 1

\* Every request is over some time, although every datagram may be lost and
\* the server may be gone: the timer bounds the wait.  This is about the
\* requests alone.  The session that polls for equality ends only when it
\* looks while the counter has the value, which the counter passes when there
\* are more requests than Polled; and main() sleeps in a loop without an end.
RequestsEnd == \A r \in Requests : Ended(r)

\* "All requests completed!" is printed when all the requests are over.
CompletedWhenAllEnded == pc["session"] = "completed" => \A r \in Requests : Ended(r)
=============================================================================
