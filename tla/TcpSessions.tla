---------------------------- MODULE TcpSessions ----------------------------
(***************************************************************************)
(* 008.tcp_async_server and 009.tcp_async_client: acceptor coroutines that *)
(* share a port, with a queue of connections each, spawn a handler per     *)
(* connection; client_session() coroutines connect, send a request, read   *)
(* the response and are counted; main() waits for the count.  Connecting,  *)
(* accepting and writing may throw; reading does when the other side ended *)
(* the connection.                                                         *)
(***************************************************************************)
EXTENDS Threads, Integers, FiniteSets

CONSTANTS Sessions,  \* client sessions, a set (10000 in the code)
          Acceptors  \* acceptor coroutines, a set (8 in the code)

Client(s)   == <<"client", s>>
Handler(s)  == <<"handler", s>>
Acceptor(a) == <<"acceptor", a>>
Main        == <<"main", "client">>
Procs == {Main} \cup {Acceptor(a) : a \in Acceptors}
           \cup {Client(s) : s \in Sessions} \cup {Handler(s) : s \in Sessions}

\* A connection is none, in the queue of an acceptor, open or closed by the server.
Init ==
    /\ pc = [p \in Procs |-> CASE p = Main -> "wait" [] p[1] = "client" -> "connect"
                               [] p[1] = "acceptor" -> "accept" [] OTHER -> "new"]
    /\ mem = [conn |-> [s \in Sessions |-> "none"], queue |-> [a \in Acceptors |-> {}],
              asked |-> [s \in Sessions |-> FALSE], answered |-> [s \in Sessions |-> FALSE],
              g_count_session |-> 0]

-----------------------------------------------------------------------------
(* client_session()                                                        *)

\* Every way out adds one to g_count_session.
Counted == [mem EXCEPT !.g_count_session = @ + 1]

\* Fault: the handler of exceptions does not count.
Throws_Uncounted(s, from) == Step(Client(s), from, "exited") /\ UNCHANGED mem

Throws(s, from) == Step(Client(s), from, "exited") /\ mem' = Counted

\* The system puts the connection into the queue of one acceptor that is open.
Connect(s) ==
    \/ \E a \in Acceptors :
         /\ ~Ended(Acceptor(a))
         /\ Step(Client(s), "connect", "write")
         /\ mem' = [mem EXCEPT !.conn[s] = "queued", !.queue[a] = @ \cup {s}]
    \/ Throws(s, "connect")

WriteRequest(s) ==
    \/ Step(Client(s), "write", "read") /\ mem' = [mem EXCEPT !.asked[s] = TRUE]
    \/ Throws(s, "write")

\* The response is complete, or the connection ended or failed before it was.
ReadResponse(s) ==
    \/ mem.answered[s] /\ Step(Client(s), "read", "exited") /\ mem' = Counted
    \/ ~mem.answered[s] /\ mem.conn[s] = "closed" /\ Throws(s, "read")

Session(s) == Connect(s) \/ WriteRequest(s) \/ ReadResponse(s)

-----------------------------------------------------------------------------
(* tcp_async_server() and tcp_connect_socket_handler()                     *)

Accept(a) ==
    \E s \in mem.queue[a] :
      /\ Create(Acceptor(a), "accept", "accept", Handler(s), "read")
      /\ mem' = [mem EXCEPT !.queue[a] = @ \ {s}, !.conn[s] = "open"]

\* async_accept() throws out of the coroutine: its acceptor is closed with
\* the connections that are still in its queue.
AcceptThrows(a) ==
    /\ Step(Acceptor(a), "accept", "exited")
    /\ mem' = [mem EXCEPT !.queue[a] = {}, !.conn = [s \in Sessions |-> IF s \in mem.queue[a] THEN "closed" ELSE @[s]]]

\* The handler returns and its socket is destroyed.
Returns(s, from) == Step(Handler(s), from, "exited") /\ mem' = [mem EXCEPT !.conn[s] = "closed"]

\* async_read_until(): the request, or the client has gone.
HandlerRead(s) ==
    \/ mem.asked[s] /\ Step(Handler(s), "read", "write") /\ UNCHANGED mem
    \/ Ended(Client(s)) /\ Returns(s, "read")

\* async_write() of the time, or an exception.
HandlerWrite(s) ==
    \/ Step(Handler(s), "write", "return") /\ mem' = [mem EXCEPT !.answered[s] = TRUE]
    \/ Returns(s, "write")

Handle(s) == HandlerRead(s) \/ HandlerWrite(s) \/ Returns(s, "return")

-----------------------------------------------------------------------------
\* while (g_count_session < 10000) sleep; guard.reset(); the threads are
\* joined when no session is left.
MainStep ==
    \/ mem.g_count_session >= Cardinality(Sessions) /\ Step(Main, "wait", "join") /\ UNCHANGED mem
    \/ (\A s \in Sessions : Ended(Client(s))) /\ Step(Main, "join", "exited") /\ UNCHANGED mem

Next ==
    \/ MainStep
    \/ \E s \in Sessions : Session(s) \/ Handle(s)
    \/ \E a \in Acceptors : Accept(a) \/ AcceptThrows(a)

\* Coroutines whose operation has completed are resumed; an acceptor need not
\* fail.
Spec ==
    /\ Init /\ [][Next]_vars
    /\ WF_vars(MainStep)
    /\ \A s \in Sessions : WF_vars(Session(s)) /\ WF_vars(Handle(s))
    /\ \A a \in Acceptors : WF_vars(Accept(a))

-----------------------------------------------------------------------------
(* Correctness                                                             *)

\* Each session is counted once, on whatever way it left, so main() goes on
\* when the last one is over and not before; a session that has an answer was
\* answered by the handler of its own connection.
SessionsCountedOnce ==
    /\ mem.g_count_session = Cardinality({s \in Sessions : Ended(Client(s))})
    /\ \A s \in Sessions : mem.answered[s] => pc[Handler(s)] \in {"return", "exited"} /\ mem.asked[s]
    /\ pc[Main] # "wait" => \A s \in Sessions : Ended(Client(s))

\* main() of the client gets here, although acceptors and handlers may give up
\* at any time and the client has no time-out.
Finished == Ended(Main)
=============================================================================
