------------------------------- MODULE MCDemos -------------------------------
(***************************************************************************)
(* The demo programs of cpp_test, and those of boost_test on sockets, for  *)
(* TLC.  A behaviour runs one of them; in the others nothing is enabled.   *)
(***************************************************************************)
EXTENDS Integers

VARIABLES program,
          demo, sem, triggered, fired, ppc, wpc, left, result, round, running,
          called,
          rpc, names, spc, registry, arg, ready, segment_id, offset, data,
          seg_id, off, published, received, overlap,
          now, window_start, business_count, last_business_state, output, frames,
          pc, mem

\* Three words, the middle one of which is not aligned, an offset that is too
\* large, an index that is too large and the value 0.
Arguments ==
    [index : {0, 1}, offset : {0}, zero : {FALSE}]
      \cup {[index |-> 0, offset |-> 8, zero |-> FALSE],
            [index |-> 0, offset |-> 4, zero |-> FALSE],
            [index |-> 0, offset |-> 16, zero |-> FALSE],
            [index |-> 2, offset |-> 0, zero |-> FALSE],
            [index |-> 0, offset |-> 0, zero |-> TRUE]}

Waitset == INSTANCE InprocWaitset
Pointer == INSTANCE RelativePointer
             WITH Senders <- {1, 2}, DataSegs <- 2, SegSize <- 16, pc <- spc

\* A window of two ticks and two business states, and time for two windows.
Reducer == INSTANCE StateReducer
             WITH Inputs <- {0, 1, 2, 6}, Window <- 2, Threshold <- 2,
                  MaxTime <- 4, MaxFrames <- 5

Pthread  == INSTANCE PthreadDemos WITH Iters <- 2, Depth <- 3
Spin     == INSTANCE SpinSemaphore
LockFree == INSTANCE LockFreeDemos
              WITH N <- 2, Capacity <- 5, FifoCap <- 1, PoolSize <- 3, Ops <- 2,
                   GiveBack <- 2
Trigger  == INSTANCE UserTrigger
Socket   == INSTANCE UnixDomainSocket WITH MaxRetries <- 3
Errors   == INSTANCE ErrorReporting
Policy   == INSTANCE TemplatePolicy
              WITH MaxLen <- 4, Elements <- {1, 2, 3},
                   Values <- {-1, 0, 100, 101, 1000}, Calls <- 2
Chunk    == INSTANCE ChunkHead
              WITH PayloadSizes <- {0, 1, 16}, HeaderSizes <- {0, 1, 4, 8},
                   Alignments <- {1, 2, 4, 8, 32}
Stop     == INSTANCE StopTokenPool WITH Adders <- {"a"}
Udp      == INSTANCE UdpRequests WITH Requests <- {"r1", "r2"}, Polled <- 1
Tcp      == INSTANCE TcpSessions WITH Sessions <- {"s1", "s2"}, Acceptors <- {"a1", "a2"}

\* More bytes than a token allows in one direction.
Proxy    == INSTANCE ThrottlingProxy
              WITH NumberOfTokens <- 1, BytesPerToken <- 3, BufferSize <- 2,
                   Bytes <- [up |-> 4, down |-> 1], MaxTicks <- 2

waitsetVars == <<demo, sem, triggered, fired, ppc, wpc, left, result, round,
                 running, called>>
pointerVars == <<rpc, names, spc, registry, arg, ready, segment_id, offset,
                 data, seg_id, off, published, received, overlap>>
reducerVars == <<now, window_start, business_count, last_business_state, output, frames>>
threadVars  == <<pc, mem>>
vars == <<program, waitsetVars, pointerVars, reducerVars, threadVars>>

Init ==
    /\ \/ program \in {"inproc_waitset", "relative_pointer", "state_reducer"}
          /\ pc = <<>> /\ mem = <<>>
       \/ program = "pthread" /\ Pthread!Init
       \/ program = "spin_semaphore" /\ Spin!Init
       \/ program = "lock_free" /\ LockFree!Init
       \/ program = "user_trigger" /\ Trigger!Init
       \/ program = "unix_domain_socket" /\ Socket!Init
       \/ program = "error_reporting" /\ Errors!Init
       \/ program = "template_policy" /\ Policy!Init
       \/ program = "chunk_head" /\ Chunk!Init
       \/ program = "stop_token" /\ Stop!Init
       \/ program = "udp" /\ Udp!Init
       \/ program = "tcp" /\ Tcp!Init
       \/ program = "throttling_proxy" /\ Proxy!Init
    /\ Waitset!Init /\ Pointer!Init /\ Reducer!Init
    /\ program # "inproc_waitset" => demo = "demo1"
    /\ program # "relative_pointer" => \A s \in {1, 2} : arg[s].zero

WaitsetNext ==
    /\ program = "inproc_waitset"
    /\ Waitset!Next
    /\ UNCHANGED <<program, pointerVars, reducerVars, threadVars>>

PointerNext ==
    /\ program = "relative_pointer"
    /\ Pointer!Next
    /\ UNCHANGED <<program, waitsetVars, reducerVars, threadVars>>

ReducerNext ==
    /\ program = "state_reducer"
    /\ Reducer!Next
    /\ UNCHANGED <<program, waitsetVars, pointerVars, threadVars>>

ThreadsNext ==
    /\ \/ program = "pthread" /\ Pthread!Next
       \/ program = "spin_semaphore" /\ Spin!Next
       \/ program = "lock_free" /\ LockFree!Next
       \/ program = "user_trigger" /\ Trigger!Next
       \/ program = "unix_domain_socket" /\ Socket!Next
       \/ program = "error_reporting" /\ Errors!Next
       \/ program = "template_policy" /\ Policy!Next
       \/ program = "chunk_head" /\ Chunk!Next
       \/ program = "stop_token" /\ Stop!Next
       \/ program = "udp" /\ Udp!Next
       \/ program = "tcp" /\ Tcp!Next
       \/ program = "throttling_proxy" /\ Proxy!Next
    /\ UNCHANGED <<program, waitsetVars, pointerVars, reducerVars>>

Next == WaitsetNext \/ PointerNext \/ ReducerNext \/ ThreadsNext

\* The threads and processes of the program that runs are scheduled.
Fire    == program = "inproc_waitset" /\ Waitset!Fire
Wait    == program = "inproc_waitset" /\ Waitset!Wait
Send(s) == program = "relative_pointer" /\ Pointer!Send(s)
Receive == program = "relative_pointer" /\ Pointer!Receive

Main ==
    \/ program = "pthread" /\ Pthread!MainStep
    \/ program = "spin_semaphore" /\ Spin!MainStep
    \/ program = "lock_free" /\ LockFree!MainStep
    \/ program = "user_trigger" /\ Trigger!MainStep
    \/ program = "unix_domain_socket" /\ Socket!MainStep
    \/ program = "error_reporting" /\ Errors!Next
    \/ program = "template_policy" /\ Policy!Next
    \/ program = "chunk_head" /\ Chunk!Next
    \/ program = "stop_token" /\ Stop!MainStep
    \/ program = "udp" /\ (Udp!Spawn \/ Udp!SpawnedAll)
    \/ program = "tcp" /\ Tcp!MainStep
    \/ program = "throttling_proxy" /\ Proxy!Coroutines

\* The n-th thread or coroutine that main() creates.
Other(n) ==
    \/ program = "pthread" /\ n <= 3 /\ Pthread!Worker(n)
    \/ program = "lock_free" /\ LockFree!Thread(<<"p1", "c1", "w1", "p2", "c2", "w2">>[n])
    \/ program = "spin_semaphore" /\ n = 1 /\ Spin!PostSpinSemaphore
    \/ program = "spin_semaphore" /\ n = 2 /\ Spin!WaitSpinSemaphore
    \/ program = "user_trigger" /\ n = 1 /\ Trigger!WorkerStep
    \/ program = "unix_domain_socket" /\ n = 1 /\ Socket!Server
    \/ program = "unix_domain_socket" /\ n = 2 /\ Socket!Client
    \/ program = "stop_token" /\ n = 4 /\ Stop!CallerStep("a")
    \/ program = "stop_token" /\ n <= 3 /\ Stop!RunTask(<<<<"main", 1>>, <<"main", 2>>, <<"a", 1>>>>[n])
    \/ program = "udp" /\ n <= 2 /\ Udp!Request(<<"r1", "r2">>[n])
    \/ program = "tcp" /\ n <= 2 /\ Tcp!Session(<<"s1", "s2">>[n])
    \/ program = "tcp" /\ n \in 3..4 /\ Tcp!Handle(<<"s1", "s2">>[n - 2])
    \/ program = "tcp" /\ n \in 5..6 /\ Tcp!Accept(<<"a1", "a2">>[n - 4])

Spec ==
    /\ Init /\ [][Next]_vars
    /\ WF_waitsetVars(Fire) /\ WF_waitsetVars(Wait)
    /\ \A s \in {1, 2} : WF_pointerVars(Send(s))
    /\ WF_pointerVars(Receive)
    /\ WF_threadVars(Main)
    /\ \A n \in 1..6 : WF_threadVars(Other(n))

-----------------------------------------------------------------------------
\* 007: no wake-up of the wait set is lost (NoLostWakeup).
WaitsetNoLostWakeup == Waitset!NoLostWakeup

\* 007: no callback runs after stop() (StoppedIsQuiet).
WaitsetStoppedIsQuiet == Waitset!StoppedIsQuiet

\* 003: messages of senders that do not overlap arrive whole, and with the
\* message its data (MessagesWhole, DataBeforeMessage).
PointerMessagesWhole == Pointer!MessagesWhole /\ Pointer!DataBeforeMessage

\* 003: a published message is received (MessagesArrive).
PointerMessagesArrive == Pointer!MessagesArrive

\* 018: 5 is put out for confirmed business states only, and a business state
\* is reported once and while it is the last (FiveConfirmed, ReportedOnce).
ReducerReports == Reducer!FiveConfirmed /\ Reducer!ReportedOnce

\* 004, 010: the demos of mutexes, threads and semaphores show what they
\* announce (ContractsHold).
LocksHold ==
    /\ program = "pthread" => Pthread!ContractsHold
    /\ program = "spin_semaphore" => Spin!ContractsHold

\* 009, 001: no value of a lock-free container is lost and no slot of a pool
\* has two owners (NothingLost, SlotsExclusive).
LockFreeSound ==
    program = "lock_free" => LockFree!NothingLost /\ LockFree!SlotsExclusive

\* 006: what the wait set reports was triggered (ReportsExact).
TriggerReportsExact == program = "user_trigger" => Trigger!ReportsExact

\* 016: there is a socket at the path that the server answers to, whichever
\* thread is faster (ReplyHasASocket).
SocketReplies == program = "unix_domain_socket" => Socket!ReplyHasASocket

\* 005: demos 1 to 5 report to the handler in force (DemosReportAsAnnounced).
ErrorsReportAsAnnounced == program = "error_reporting" => Errors!DemosReportAsAnnounced

\* 014: the sorter sorts with every policy and a host stores exactly what its
\* policies let through (Sorts, HostsAdd).
PoliciesCompose == program = "template_policy" => Policy!Sorts /\ Policy!HostsAdd

\* 002: header, user header and payload of a chunk are apart, aligned, within
\* the block and found again (LayoutSound).
ChunkLayoutSound == program = "chunk_head" => Chunk!LayoutSound

\* 011: stop() has joined the workers it knew (StopJoinsRegistered).
StopJoins == program = "stop_token" => Stop!StopJoinsRegistered

\* 008 to 011: every request and every session that is over was counted once;
\* a UDP request whose close() threw, twice (RequestsCounted,
\* SessionsCountedOnce).
SessionsCounted ==
    /\ program = "udp" => Udp!RequestsCounted
    /\ program = "tcp" => Tcp!SessionsCountedOnce

\* 014: the proxy keeps the rate in each direction (Throttled).
ProxyThrottled == program = "throttling_proxy" => Proxy!Throttled

\* Each of these eleven programs gets to the end that its module states, and
\* stays there (Finished, RequestsEnd, EndsAfterThrow).  What is not claimed,
\* because the code does not do it: in 006 the end of the first demo, and that
\* of any demo whose sleeps do not suffice; in 010 the end of the session, which
\* may poll for ever, and of main(), which loops (only the requests end); in
\* 011 the exit of the process when a task was added too late; in 008 the end
\* of the server; in 014 the end of a proxy none of whose calls throws.  That
\* the proxy ends after a throw rests on the library, which cancels the other
\* coroutines (Cancelled).
DemosEnd ==
    <>[](/\ program = "inproc_waitset" => Waitset!Finished
         /\ program = "pthread" => Pthread!Finished
         /\ program = "spin_semaphore" => Spin!Finished
         /\ program = "lock_free" => LockFree!Finished
         /\ program = "user_trigger" => Trigger!Finished
         /\ program = "unix_domain_socket" => Socket!Finished
         /\ program = "template_policy" => Policy!Finished
         /\ program = "stop_token" => Stop!Finished
         /\ program = "udp" => Udp!RequestsEnd
         /\ program = "tcp" => Tcp!Finished
         /\ program = "throttling_proxy" => Proxy!EndsAfterThrow)

\* 006: the demo with one trigger ends after the three notifications that its
\* comment announces (SingleFinished).
SingleTriggerEnds == <>(program = "user_trigger" => Trigger!SingleFinished)

\* 005: demo 6 routes every error to the handler of its module (Demo6Routed).
SelfRegistrationRoutes == <>(program = "error_reporting" => Errors!Demo6Routed)

\* 010: "All requests completed!" is printed when they are over
\* (CompletedWhenAllEnded).
UdpCompletedWhenAllEnded == program = "udp" => Udp!CompletedWhenAllEnded

=============================================================================
