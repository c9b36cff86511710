# Verification of cpp_code

TLA+ models of the stateful components of this repository, the TLC instances
that check them on small bounds, and theorems about them checked by TLAPS for
every value of the constants.

The repository is a collection: a small utility library (`src/utils`), a task
and thread-pool layer for behaviour trees (`src/behaviortree_test/task`), and
many self-contained demos of asio, iceoryx, BehaviorTree.CPP and the standard
library.  The models follow that shape: one group of modules per component,
composed only where the code composes.

## Inventory

| Part | Sources | What it does | Modules |
|---|---|---|---|
| LogStruct | `utils/log_struct` | double-buffered binary log, one producer, one writer thread | `LogStruct`, `AppendLog` |
| AtomicFileWriter | `utils/filesystem_wrapper` | replaces a file by a temporary one and a rename | `AtomicFileWriter`, `AtomicFile` |
| utils::ThreadPool | `utils/thread_pool` | workers for functions and coroutines, long-running tasks | `ThreadPool`, `IoContext` |
| task::ThreadPool | `behaviortree_test/task/thread_pool.hpp`, `023` | one context for functions, one for coroutines | `TaskThreadPool`, `IoContext` |
| Task&lt;T&gt; | `behaviortree_test/task/task.hpp` | a coroutine that is paused, resumed, cancelled and fed by its users | `Task`, `AsioChannel` |
| TestTask demos | `behaviortree_test/024`, `025` | two tasks and their `main` | `TestTask`, `TestTaskMain` |
| OtaNode demo | `behaviortree_test/026` | a tree node that owns a task | `OtaNode` |
| relative pointer | `cpp_test/iceoryx/003` | messages by offset through shared memory | `RelativePointer` |
| in-process wait set | `cpp_test/iceoryx/007` | wait set and listener on one semaphore | `InprocWaitset` |
| echo session | `boost_test/asio/005`, `013` | two coroutines share a socket; a channel is the lock | `EchoSession` |
| state reducer | `cpp_test/stand_cpp/018` | confirms states within a time window | `StateReducer` |
| containers | `cpp_test/iceoryx/001`, `009` | lock-free queues, a free list, an object pool | `LockFreeDemos` |
| chunk header | `cpp_test/iceoryx/002` | layout of a chunk, way back from the payload | `ChunkHead` |
| mutexes, semaphore | `cpp_test/iceoryx/004`, `010` | threads, the kinds of mutex, spin semaphore | `PthreadDemos`, `SpinSemaphore` |
| error reporting | `cpp_test/iceoryx/005` | handlers, dispatch to the module of an error | `ErrorReporting` |
| user trigger | `cpp_test/iceoryx/006` | triggers on a wait set and on a listener | `UserTrigger` |
| domain socket | `cpp_test/iceoryx/016` | request and reply between two threads | `UnixDomainSocket` |
| stop token | `cpp_test/stand_cpp/011` | a pool that asks its tasks to stop | `StopTokenPool` |
| template policy | `cpp_test/stand_cpp/014` | a sorter and containers built from policies | `TemplatePolicy` |
| TCP | `boost_test/asio/008`, `009` | acceptors and handlers, counted client sessions | `TcpSessions` |
| UDP | `boost_test/asio/010`, `011` | requests with a timer, one server | `UdpRequests` |
| throttling proxy | `boost_test/asio/014` | tokens limit the rate in each direction | `ThrottlingProxy` |

The remaining parts are in `PROJECT.json` with the reason why they are not
modelled; see "Not modelled" below.

How the parts interact: `Task` runs its coroutine on the coroutine context of
`task::ThreadPool`; the demos 024 to 026 use `Task`; `atomicWriteFile` uses
`AtomicFileWriter`.  All other parts stand alone.  `Task` is not composed with
the pool's queue: what it needs of the pool is that a coroutine that can go on
does, which is the fairness of its specification, and which `PoolFuturesSettle`
checks of the pool.

## Conventions

* One action is one access to shared state, or a section of code that nothing
  can interrupt (a function under its mutex, a coroutine from one completion to
  the next operation on a single thread).
* A definition with the suffix of a fault, such as `Stop_NoCancel`, is a
  plausible mistake in the definition that follows it.  No specification uses
  it; it serves to show that a property would notice.
* History variables record what happened for the sake of a property; they are
  marked in the declarations.
* A library that is not under `src/` is modelled from how the code uses it
  (`AsioChannel`, `IoContext`, the completions of `EchoSession`).
* Deadlock is not reported as an error in any run: all these programs may stop
  (the user calls nothing any more, `main` has returned).  That something must
  happen is said by liveness properties.
* Small programs share a run: `MCDemos` (fifteen of them) and `MCTasks` (five).
  The initial state chooses the program, and nothing is enabled in the others.
  Each property of these modules names the predicate of the component that it
  stands for; fairness is that of the component, for the program that runs.
* The twelve smallest programs use `Threads`: `pc` says where each thread,
  coroutine or process is, and `mem` is a record of the program's variables.  A
  step changes the fields of `mem` that the code assigns.

## LogStruct

`LogStruct.tla` models the producer thread (`write`, `flush`, the destructor)
and the writer thread (`writeToFile`).

* **State.** `vec` holds the contents of `vector1_` and `vector2_`; `cur` and
  `nxt` are `current_vector_` and `next_vector_`; the flags are the atomics of
  the class.  `ppc` and `wpc` say where the two threads are.  `accepted` and
  `dropped` are history variables.
* **Data.** A byte is its position in the stream of accepted bytes, so that
  "every byte once and in order" is a statement about numbers.
* **Steps.** `write` is one action because the buffer it appends to belongs to
  the producer alone, which is what `BuffersDisjoint` shows.
* **Time.** Whether `polling_interval_` has passed is a free choice: the code
  uses the wall clock, which may jump.
* **Memory model.** Accesses interleave in program order.  The code's relaxed
  accesses allow more: on x86-64 a store may be delayed past a later load, and
  the load of `is_running_` at line 121 may then precede the stores of lines
  117 and 118.  The liveness property is therefore restricted to a writer that
  waits when the destructor starts, where that delay has no effect.

`AppendLog.tla` is what the component promises: a stream of accepted records, a
file that receives the bytes of the stream in order, and bytes that are skipped
only by a failed `::write`.

**Run `logstruct`** (two records of two bytes per buffer, ten bytes, failing and
short `::write` calls): the threads never share a buffer (`BuffersDisjoint`), no
vector outgrows its memory (`NoReallocation`), every accepted byte is in the
file, in a buffer or given up (`StreamConserved`), the detailed specification
implements `AppendLog` (`ImplementsAppendLog`), and the destructor returns if the
writer is waiting and nothing is being written when it begins
(`IdleShutdownReturns`).  Five
records are enough for both buffers to be filled, swapped, written in pieces,
and filled again while the other is being written.  Weak fairness of both
threads is what the operating system's scheduler provides; none is assumed of
the user's calls.

**Findings.** `logstruct_flush_completes`: a flush between the two stores at the
end of a round loses its signal, and the batch stays in its buffer for ever.
`logstruct_stop_answered`: the destructor can wait for ever for a writer that
waits for data.  Both contradict lines of the component's `Readme.md`.

**Proved** (`LogStructProofs`, `AppendLogProofs`): types, the safety properties
and the refinement, for every record size, buffer size and bound.  The
properties are not inductive; `IInv` adds `Handshake` (which flags go with which
places of the two threads, and when the batch buffer is empty) and `Contents`
(the buffers hold consecutive pieces of the stream).  That the file is in order
(`FileInOrder`) is proved of the abstract log and carried over by the
refinement.  Assumed: sizes are positive (`LogStructAssumption`).

## AtomicFileWriter

`AtomicFileWriter.tla` models the constructor, `write`, `commit`, the
destructor, `atomicWriteFile` and a concurrent `readFileContent`.  Every call of
the C library may fail, and the machine may crash at any step.  The calls of
`std::filesystem` may throw: out of the constructor, which leaves nothing behind
(`ConstructorThrows`), or in the destructor, which ends the process with the
temporary file still there (`Destroy`); another process may go on from that
(`Restart`).

* **Disk.** `dir` is the directory as processes see it, `maybe` the directories
  a crash may leave (the entries are durable only after the directory is
  synchronised).  `content` is what an inode holds, `synced` what it held when
  it was last synchronised; a crash leaves any state from the one to the other.
* **Data.** Version k is what the k-th call writes; an inode holds the first n
  bytes of one version.

`AtomicFile.tla` is the promise: a file with one whole version at any time; a
crash may bring back an earlier version until the replacement is durable, and
never anything else.

**Run `atomic_file`** (versions of two bytes, three calls, two crashes): the
file is whole at any time and after any crash (`PathIsWhole`), a reader that was
overtaken by a replacement still gets a whole version (`ReaderSeesWhole`), a
call that failed or threw left the file alone (`FailureKeepsFile`), a version
whose `commit` met no failure at all is not lost in any later crash
(`CommitSurvives`), and the writer implements `AtomicFile`.  `commit` also
returns true when it could not open or synchronise the directory; such a version
may be lost, its caller cannot tell, and `CommitSurvives` does not speak of it
(`confirmed` is the last version of the other kind).  That no temporary file is
left is not claimed, since the destructor may fail to remove it.  Two bytes make partial contents possible; three calls and two crashes let a call
meet the remains of one that crashed.

**Proved** (`AtomicFileWriterProofs`): all of these, for any size and any number of calls and crashes, and that the handle never refers to a
file that was renamed (`HandleIsTemp`).  The inductive invariant has four
parts beyond the types: every directory a crash may leave is sound (`DirInv`),
what is known of the temporary file at each step (`TempInv`), what the call has
left alone so far (`CallInv`), and that a reader's inode is not the temporary
file (`ReaderInv`).  Without `DirInv` nothing is known after a crash.  For
`CommitSurvives` the same invariant is used once more: a step may only add the
current version to those that a crash may leave, and the step that confirms a
version leaves no other one, because `CallInv` says that the directory it
synchronises holds the version of the call.

## Task and its demos

`Task.tla` has the class: status under its mutex, the two channels of capacity
one, `run`, `cancel`, `pause`, `resume`, `get_current_status`, the destructor,
and the awaitables that a `run_coroutine` is built from.  `AsioChannel.tla` is
the channel.  `TestTask.tla` adds the coroutine and `end_task` of 024 and 025,
with users that call anything at any time; `TestTaskMain.tla` composes it with
the two `main` functions; `OtaNode.tla` is the task, the node and the `main` of
026, and the node in any other tree that sets the entry and may halt it.

The channels of the code are not thread safe, and are used from the pool's
threads and from users.  The models take one operation on a channel as atomic.

**Run `testtask`** (two numbers, hooks that fail or succeed): a result that was
taken is what the status says (`ResultFaithful`), a paused coroutine never waits
for input without a command that will end the wait (`PauseIsNoticed`), numbers
arrive in order although the two waits cancel each other (`InputsInOrder`), a
successful `cancel` ends the coroutine (`CancelEndsTask`), and so does
`end_task` of 025 for a task nobody pauses (`EndTaskEnds`).

**Run `tasks`**, programs `test_task` (three numbers) and `ota_state` (three
rounds in place of 100): `main` of 024 and 025 prints CANCELLED, and the node of
026 succeeds only when the entry is COMPLETED (`TaskDemosSucceed`); halting the
node ends the coroutine in any tree (`OtaHaltEndsTask`); the demos end
(`TaskDemosEnd`).  Three rounds let the channel be full, drained and full again.

Fairness: the coroutine, the destructor and `main` go on when they can; users
need not call anything.

**Findings.** `testtask_repeated_cancel`: a command that is left in the control
channel after the coroutine ended makes `cancel` fail for ever, and the
destructor repeats it for ever.  `testtask_pause_holds`: a `pause` between the
receipt of RESUME and `set_status(RUNNING)` is overwritten.

**Proved** (`TestTaskProofs`): `ResultFaithful`, by strengthening it with what
is known of the coroutine when there is a result (`ResultInv`), and
`PauseIsNoticed`, by relating the status, the place of the coroutine and the
contents of the control channel (`PauseInv`).

## Thread pools

`ThreadPool.tla`: each call of `post`, `post_coro` and `addLongRunningTask` has
a name and is made at any time; workers, the threads of long-running tasks and
the callers of `stop` are processes.  `TaskThreadPool.tla`: threads of the two
contexts, coroutines that suspend and are woken, `stop`, and the destruction of
the contexts, which breaks what is still pending.

**Run `tasks`**, programs `utils` (two workers, a function, a coroutine, a task
that adds a task, two calls of `stop`) and `task` (three threads, a function and
two coroutines): after `stop` nothing posted runs (`PoolStoppedIsQuiet`); a
returned future completes if coroutines are fewer than workers and the pool is
not stopped (`PoolFuturesSettle`); `stop` returns but for the two deadlocks
that `StopReturns` of `ThreadPool` names (a worker that waits for a coroutine the
stopped context will not complete, and a joined task that waits for the mutex
`stop` holds) (`PoolsStop`); a promise is set once (`TaskPromiseSetOnce`).

Fairness: threads are scheduled and calls that have begun go on.  A long-running
task is assumed to end only once it was asked to.  That a function ends is
strong fairness of `RunEnds`, since a coroutine may suspend instead of ending
any number of times and is assumed not to do so for ever.

## Echo session

`EchoSession.tla` (asio 005 and 013): both coroutines of a session with the
channel as their lock.  An operation completes, with success or failure, before
its coroutine resumes, so that the other coroutine may close the socket in
between.

**Run `tasks`**, program `echo_session` (both variants, no bound needed): a
heartbeat never falls between a header and its line, and nothing follows a write
that broke off (`EchoStreamWhole`); when one coroutine ends, so does the other
(`EchoSessionEnds`), except one that begins to wait for the lock after `stop`
while the ended one holds it: nothing will resume it.  Fairness: completed
operations are handled, timers expire, writes complete, and reads of a closed
socket fail; a client need not send anything.

## Demo programs

All of these are programs of **run `demos`**.  Fairness is that threads,
processes and coroutines with a completed operation are scheduled; nobody has to
send, connect, or (for `roudi`) do anything.

`DemosEnd` says that eleven of the programs get to the end that their module
states and stay there.  It is about 007, 004, 010 (semaphore), 009 and 001, 016,
014 (policies) and 009 (the TCP client) without a restriction, and about these
with one, where the code itself may not end:

* 006: the first demo is left out (it is a finding), and so are sleeps that did
  not suffice;
* 010 (UDP client): the requests end.  The session polls for equality with a
  number that the counter may pass between two looks, and then polls for ever;
  `main` loops without an end;
* 011 (stop token): `stop` returns, and the process exits unless a task was added
  too late, which the destructor of the static pool joins without asking it to
  stop;
* 014 (proxy): a proxy ends once a call of it throws.  This rests on the library:
  that the other coroutines are cancelled is the external action `Cancelled`.

The TCP and UDP servers are not expected to end.  003, whose receiver polls for
ever (`PointerMessagesArrive` says what it can), and 002, 005 and 018, in which
nobody waits, have no part in `DemosEnd`.

**Relative pointer (003).**  `roudi` creates the segments, hands out the list
and may go away at any time; senders check their arguments, map the segments,
store a value and send its place through the three words of the control segment;
the receiver polls it.  Each word is read and written by an action of its own.
With two senders, two segments of 16 bytes and refused arguments: messages of
senders that do not overlap arrive whole, in order, with the data of a sender to
that place, also when `roudi` is gone (`PointerMessagesWhole`,
`PointerMessagesArrive`).  The restriction is needed: the compare-exchange of 0
with 0 claims nothing, so that two senders may fill the control segment at once;
the variable `overlap` records that.

**In-process wait set (007).**  `fireEvent` sets a flag and posts the semaphore
in two actions; `collectTriggered` looks at one flag at a time; the listener
calls back and is stopped.  The four demos are four scripts for the firing
thread.  A flag that is set has a post to come or a wait set at work
(`WaitsetNoLostWakeup`), and no callback runs after `stop`
(`WaitsetStoppedIsQuiet`).  The scripts are those of the code, without a bound.

**State reducer (018).**  `push` with all it calls, and a history of frames and
outputs.  Window of two ticks, threshold two, five frames in four ticks, the
states 0, 1, 2, 6: enough for a window to be confirmed, expire or be cut off,
and for a second one after it.  5 stands for exactly the threshold of business
states within one window, none counted twice, and a business state put out for
an idle frame is the last one and was not reported before (`ReducerReports`).

**Mutexes, semaphore (004, 010).**  Every call whose result the code checks
leads to a place "failed" if the result is another one; the mutex is an owner, a
depth and whether a thread died with it.  Two threads count to two (four to
100000 in the code); an increment is a load and a store, so that one that is lost
would be seen.  No check fails, no increment is lost, and a mutex whose owner
died is consistent before it is released (`LocksHold`).

**Containers (009, 001).**  Each operation of a library container is atomic.
Two producers with two values each and a queue with room for all of them, as in
the code; a queue with room for one for the single producer, which then spins;
a pool with fewer slots than its threads ask for, so that it runs out.  The
consumers get every value once, the sequential demos drain what their comments
say, and a slot has one owner at a time (`LockFreeSound`).

**Chunk header (002).**  The bytes of a chunk, each with who wrote it last, for
empty and small parts and alignments from 1 to 32.  No part overlaps
another or leaves the block, the payload is aligned at every address, and the
back-offset leads to the header (`ChunkLayoutSound`).

**User trigger (006).**  Several calls of `trigger` before a wait are reported
once.  The threads sleep to avoid that; `late` says that the sleeps did not
suffice, and then only the bound on the number of reports is claimed
(`TriggerReportsExact`).

**Error reporting (005).**  The program is its list of statements, beginning with
the static initialization; what `set` does after `finalize` is left to the hook
of the library, which aborts or does nothing.  Demos 1 to 5 report exactly what
they announce to the handler they installed (`ErrorsReportAsAnnounced`).

**Domain socket (016).**  Any call may fail or time out, and three attempts are
made to open a socket (50 in the code).  Without a failure, the socket for the
reply is there when the server answers, whichever thread is faster, and each
side receives what the other one sent (`SocketReplies`).

**Template policy (014).**  All vectors of up to four elements of three values,
and every pack of policies in every order.  The result is a sorted permutation,
and what is placed is final; a container stores exactly what its policies accept
(`PoliciesCompose`).

**Stop token (011).**  Two tasks of `main` and one of another thread.  `stop`
has joined the tasks that were registered when it took the mutex (`StopJoins`); a
task that passed the test of the flag before and takes the mutex after it is left
running.  `DestroyPool` is the destruction of the static pool after `main`; other
threads are taken to be joined by then.

**UDP (010, 011).**  Two requests, datagrams lost in either direction and
answered in any order, throwing calls, a server that may end.  A datagram carries
the port of its client and nothing else: the two kinds of request take the same
steps, and no request looks at what it got.  A port is free again when its socket
is closed, so that a late answer may reach another request.  A request that is
over was counted once, or twice if `close` threw, which is called after the count
(`SessionsCounted`).  The time-out ends every wait for an answer.

**TCP (008, 009).**  Two sessions, two acceptors with a queue each.  Every session
is counted once on every way out, `main` goes on after the last one, and no
session is left behind in the queue of an acceptor that ended
(`SessionsCounted`, `DemosEnd`).

**Throttling proxy (014).**  Tokens of three bytes, a channel for one token, a
buffer of two bytes, four bytes in one direction, and two intervals: three tokens
would be one more than the channel and the reader's hand hold.  In each direction
no more is read than the intervals allow, credit does not accumulate beyond the
channel and the token in hand, and nothing read is lost
(`ProxyThrottled`); a coroutine that throws ends the other three (`DemosEnd`).

**Findings.**  `demos_single_trigger`: the loop of the first demo of 006 also
waits for a flag that is set after the last `trigger`; a `main` that is fast
enough waits for a fourth notification.  `demos_self_registration`: demo 6 of 005
wants its `DispatchHandler` back, but `ensureInstalled` works once per process,
and demo 5 has finalized the handler.  `demos_udp_completed`: the client of 010
says that all requests are completed when a tenth of them is, because the number
it compares with is not the number of requests.  (The instance has two requests
and waits for one.)

## Proved and only model-checked

Proved for every value of the constants: the theorems that `PROJECT.json` lists,
of `LogStruct`, `AppendLog`, `AtomicFileWriter` and `TestTask`.  Types of the
first three and the order of the file of `LogStruct` are proved and no longer
part of a run.  Model-checked on the instances above: all liveness properties
(TLAPS does not do fairness here), `InputsInOrder`, and the
properties of the runs `tasks` and `demos`.

## Not modelled

* Tutorials whose state belongs to a library that is not in the repository: the
  behaviour trees 001 to 022 and 027 (leaf nodes that print, trees given in XML),
  the wrapper of spdlog, Boost.Log.  A model would be one of the library.
* Demos of the language, of a header library or of the build (the rest of
  `stand_cpp`, iceoryx 008 and 011 to 015, the linking test, the version): no
  state, or one object whose value is printed.  Of 014.template_policy the
  services, discounts, CRTP and token parts are of this kind.
* asio 001 to 004, 006 and 007: one or two timer callbacks or one blocking
  connection, with nothing running beside them.  asio 012 uses a channel from many
  threads that is not made for it; any outcome would be a guess.
* Helpers on paths and directories in `filesystem_wrapper`: calls of
  `std::filesystem` without state.
* Composition of `Task` with the queue of `task::ThreadPool`, and the weak memory
  model beyond what is said for `LogStruct`.
* Two writers of one path (`AtomicFileWriter`), which nothing in the code keeps
  apart, and two senders of 003 at once, which `overlap` excludes.
