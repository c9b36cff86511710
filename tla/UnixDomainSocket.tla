-------------------------- MODULE UnixDomainSocket --------------------------
(***************************************************************************)
(* 016.unix_domain_socket: a server and a client thread exchange a request *)
(* and a reply over two datagram sockets.  Each side creates the socket it *)
(* receives from and opens the other one with retries, since the other     *)
(* side may not have created it yet.  Any library call may fail, and a     *)
(* receive may time out; the thread then returns.                          *)
(***************************************************************************)
EXTENDS Threads, Integers

CONSTANT MaxRetries   \* maxRetries of createClientSocketWithRetry() (50 in the code)

Procs == {"main", "server", "client"}

\* client() runs on the main thread: "main" stands for the rest of main().
Init ==
    /\ pc = [main |-> "cleanup", server |-> "new", client |-> "new"]
    /\ mem = [request |-> "absent", reply |-> "absent", attempt |-> [t \in Procs |-> 0],
              in |-> [t \in Procs |-> "nothing"], failed |-> FALSE]

\* A socket is absent or holds the datagram sent to it, or "empty".
CreateServer(t, name, from, to) ==
    Step(t, from, to) /\ mem' = [mem EXCEPT ![name] = "empty"]

\* A thread that returns destroys the socket it created.
Return(t, from, own, failed) ==
    Step(t, from, "exited") /\ mem' = [mem EXCEPT ![own] = "absent", !.failed = @ \/ failed]

\* createClientSocketWithRetry(): an attempt may also fail for another reason
\* than that the socket is not there.
CreateClientSocketWithRetry(t, name, own, from, to) ==
    \/ mem[name] # "absent" /\ Step(t, from, to) /\ UNCHANGED mem
    \/ /\ mem.attempt[t] + 1 < MaxRetries
       /\ Step(t, from, from)
       /\ mem' = [mem EXCEPT !.attempt[t] = @ + 1]
    \/ mem.attempt[t] + 1 >= MaxRetries /\ Return(t, from, own, TRUE)

\* send(): refused when the receiver has gone.
Send(t, name, own, from, to, datagram) ==
    \/ mem[name] # "absent" /\ Step(t, from, to) /\ mem' = [mem EXCEPT ![name] = datagram]
    \/ Return(t, from, own, TRUE)

\* timedReceive(): a datagram, or an error or a time-out.
TimedReceive(t, name, from, to) ==
    \/ /\ mem[name] # "empty"
       /\ Step(t, from, to)
       /\ mem' = [mem EXCEPT ![name] = "empty", !.in[t] = mem[name]]
    \/ Return(t, from, name, TRUE)

-----------------------------------------------------------------------------
Server ==
    \/ CreateServer("server", "request", "create", "receive")
    \/ Return("server", "create", "request", TRUE)
    \/ TimedReceive("server", "request", "receive", "connect")
    \/ CreateClientSocketWithRetry("server", "reply", "request", "connect", "send")
    \/ Send("server", "reply", "request", "send", "return", "ack")
    \/ Return("server", "return", "request", FALSE)

\* Fault: the request is sent before the socket for the reply exists.
Client_RequestFirst ==
    \/ CreateClientSocketWithRetry("client", "request", "reply", "create", "send")
    \/ Send("client", "request", "reply", "send", "connect", "hello")
    \/ CreateServer("client", "reply", "connect", "receive")
    \/ TimedReceive("client", "reply", "receive", "return")
    \/ Return("client", "return", "reply", FALSE)

Client ==
    \/ CreateServer("client", "reply", "create", "connect")
    \/ Return("client", "create", "reply", TRUE)
    \/ CreateClientSocketWithRetry("client", "request", "reply", "connect", "send")
    \/ Send("client", "request", "reply", "send", "receive", "hello")
    \/ TimedReceive("client", "reply", "receive", "return")
    \/ Return("client", "return", "reply", FALSE)

\* main() removes what an earlier run left, or gives up, starts the server's
\* thread, calls client() and joins the thread.
MainStep ==
    /\ \/ Step("main", "cleanup", "start") \/ Step("main", "cleanup", "exited")
       \/ Create("main", "start", "call", "server", "create")
       \/ Create("main", "call", "join", "client", "create")
       \/ Ended("client") /\ Ended("server") /\ Step("main", "join", "exited")
    /\ UNCHANGED mem

Next == Server \/ Client \/ MainStep

\* Threads are scheduled, and calls with a time-out return.
Spec == Init /\ [][Next]_vars /\ WF_vars(MainStep) /\ WF_vars(Server) /\ WF_vars(Client)

-----------------------------------------------------------------------------
(* Correctness                                                             *)

\* As long as nothing has failed or timed out, the server that has a request
\* finds the socket for its reply in place, and what each side
\* receives is what the other one sent: in an exchange without failures the
\* client ends with the answer to its request.
ReplyHasASocket ==
    ~mem.failed =>
      /\ pc["server"] \in {"connect", "send"} => mem.reply # "absent"
      /\ Ended("server") => mem.in["server"] = "hello"
      /\ Ended("client") => mem.in["client"] = "ack"

\* The program gets here whatever fails: the attempts and the waits are bounded.
Finished == Ended("main")
=============================================================================
