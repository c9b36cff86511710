------------------------------ MODULE LogStruct ------------------------------
(***************************************************************************)
(* utils::LogStruct (utils/log_struct): a producer thread appends          *)
(* fixed-size records to a current buffer, flush() swaps it with the other *)
(* one and signals a writer thread, which appends the swapped-out buffer   *)
(* (the batch) to a file.  write(), flush() and the destructor run in one  *)
(* producer thread (Readme.md: a single thread writes, and flush() is only *)
(* called when no write() can run); writeToFile() is the jthread.          *)
(*                                                                         *)
(* A byte is its position in the stream of accepted bytes: the i-th byte   *)
(* of the stream is the number i.  One action is one access to shared      *)
(* state; accesses are interleaved in program order.                       *)
(***************************************************************************)
EXTENDS Integers, Sequences

CONSTANTS StructSize,    \* struct_size_: bytes of one record
          ReverseSize,   \* reverse_size: records one buffer holds
          MaxBytes,      \* bound: bytes accepted in one behaviour
          AllowIOError   \* whether ::write may fail while the file is open

ASSUME LogStructAssumption ==
    /\ StructSize \in Nat \ {0}
    /\ ReverseSize \in Nat \ {0}
    /\ MaxBytes \in Nat
    /\ AllowIOError \in BOOLEAN

VARIABLES vec,            \* vector1_, vector2_
          cur,            \* current_vector_
          nxt,            \* next_vector_
          is_writing,     \* is_writing_
          has_data,       \* has_data_to_write
          is_running,     \* is_running_
          stop_requested, \* stop state of the jthread
          fd_open,        \* fd_ not yet closed
          freed,          \* raw_buffer1_ and raw_buffer2_ deleted
          ppc,            \* where the producer thread is
          caller,         \* who called flush(): write, flush (the user), dtor
          result,         \* what the last completed call returned
          wpc,            \* where the writer thread is
          target,         \* writer's local: the batch it works on
          written,        \* writer's local: written_size
          file,           \* bytes in the log file
          accepted,       \* history: number of bytes write() accepted
          dropped         \* history: number of bytes a failed ::write gave up

buffers  == <<vec, cur, nxt>>
flags    == <<is_writing, has_data, is_running, stop_requested>>
resource == <<fd_open, freed>>
producer == <<ppc, caller, result>>
writer   == <<wpc, target, written>>
history  == <<file, accepted, dropped>>

vars == <<buffers, flags, resource, producer, writer, history>>

ByteSize == StructSize * ReverseSize

Vectors == {1, 2}

ProducerPCs == {"ready", "flush", "swap", "signal", "close", "free",
                "request_stop", "join", "gone"}

WriterPCs == {"top", "wait", "load", "write", "resize", "done", "clear",
              "check", "exited"}

\* The constructor opened the file and started the writer thread.
Init ==
    /\ vec = [v \in Vectors |-> <<>>]
    /\ cur = 1
    /\ nxt = 2
    /\ is_writing = FALSE
    /\ has_data = FALSE
    /\ is_running = TRUE
    /\ stop_requested = FALSE
    /\ fd_open = TRUE
    /\ freed = FALSE
    /\ ppc = "ready"
    /\ caller = "write"
    /\ result = TRUE
    /\ wpc = "top"
    /\ target = 2
    /\ written = 0
    /\ file = <<>>
    /\ accepted = 0
    /\ dropped = 0

-----------------------------------------------------------------------------
(* Producer thread: write(), flush(), ~LogStruct()                         *)

\* The bytes of the record that write() accepts next.
NewRecord == [i \in 1..StructSize |-> accepted + i]

\* The threshold test at the end of write(): flush() or return true.
\* elapsed: polling_interval_ has passed since last_write_time_ (wall clock).
TailOfWrite(elapsed, size) ==
    /\ caller' = "write"
    /\ IF elapsed \/ size >= ByteSize
       THEN ppc' = "flush" /\ UNCHANGED result
       ELSE ppc' = "ready" /\ result' = TRUE

\* Fault: the room test forgets the size of the record.
Write_TightRoom(elapsed) ==
    /\ ppc = "ready"
    /\ accepted + StructSize <= MaxBytes
    /\ Len(vec[cur]) <= ByteSize
    /\ vec' = [vec EXCEPT ![cur] = @ \o NewRecord]
    /\ accepted' = accepted + StructSize
    /\ TailOfWrite(elapsed, Len(vec[cur]) + StructSize)
    /\ UNCHANGED <<cur, nxt, flags, resource, writer, file, dropped>>

\* write(data) with room in the current buffer.
Write(elapsed) ==
    /\ ppc = "ready"
    /\ accepted + StructSize <= MaxBytes
    /\ Len(vec[cur]) + StructSize <= ByteSize
    /\ vec' = [vec EXCEPT ![cur] = @ \o NewRecord]
    /\ accepted' = accepted + StructSize
    /\ TailOfWrite(elapsed, Len(vec[cur]) + StructSize)
    /\ UNCHANGED <<cur, nxt, flags, resource, writer, file, dropped>>

\* write(data) without room returns false before it looks at the thresholds.
WriteRejected ==
    /\ ppc = "ready"
    /\ Len(vec[cur]) + StructSize > ByteSize
    /\ caller' = "write"
    /\ result' = FALSE
    /\ UNCHANGED <<buffers, flags, resource, ppc, writer, history>>

\* write(nullptr): only the thresholds are looked at.
Poll(elapsed) ==
    /\ ppc = "ready"
    /\ TailOfWrite(elapsed, Len(vec[cur]))
    /\ UNCHANGED <<buffers, flags, resource, writer, history>>

\* The user calls flush().
Flush ==
    /\ ppc = "ready"
    /\ ppc' = "flush"
    /\ caller' = "flush"
    /\ UNCHANGED <<buffers, flags, resource, result, writer, history>>

\* flush() returns res to its caller; write() returns true whatever it got.
FlushReturns(res) ==
    /\ ppc' = IF caller = "dtor" THEN "close" ELSE "ready"
    /\ result' = (res \/ caller = "write")
    /\ UNCHANGED caller

FlushRefused ==
    /\ ppc = "flush"
    /\ is_writing
    /\ FlushReturns(FALSE)
    /\ UNCHANGED <<buffers, flags, resource, writer, history>>

\* Fault: the buffers are swapped while the writer is at work.
FlushBegin_Unguarded ==
    /\ ppc = "flush"
    /\ is_writing' = TRUE
    /\ ppc' = "swap"
    /\ UNCHANGED <<buffers, has_data, is_running, stop_requested, resource,
                   caller, result, writer, history>>

FlushBegin ==
    /\ ppc = "flush"
    /\ ~is_writing
    /\ is_writing' = TRUE
    /\ ppc' = "swap"
    /\ UNCHANGED <<buffers, has_data, is_running, stop_requested, resource,
                   caller, result, writer, history>>

FlushSwap ==
    /\ ppc = "swap"
    /\ cur' = nxt
    /\ nxt' = cur
    /\ ppc' = "signal"
    /\ UNCHANGED <<vec, flags, resource, caller, result, writer, history>>

FlushSignal ==
    /\ ppc = "signal"
    /\ has_data' = TRUE
    /\ FlushReturns(TRUE)
    /\ UNCHANGED <<buffers, is_writing, is_running, stop_requested, resource,
                   writer, history>>

\* ~LogStruct(): is_running_ is cleared and the last flush() called.
Destroy ==
    /\ ppc = "ready"
    /\ is_running' = FALSE
    /\ ppc' = "flush"
    /\ caller' = "dtor"
    /\ UNCHANGED <<buffers, is_writing, has_data, stop_requested, resource,
                   result, writer, history>>

CloseFile ==
    /\ ppc = "close"
    /\ fd_open' = FALSE
    /\ ppc' = "free"
    /\ UNCHANGED <<buffers, flags, freed, caller, result, writer, history>>

FreeBuffers ==
    /\ ppc = "free"
    /\ freed' = TRUE
    /\ ppc' = "request_stop"
    /\ UNCHANGED <<buffers, flags, fd_open, caller, result, writer, history>>

\* After the body, the member write_thread_ is destroyed first: stop, join.
RequestStop ==
    /\ ppc = "request_stop"
    /\ stop_requested' = TRUE
    /\ ppc' = "join"
    /\ UNCHANGED <<buffers, is_writing, has_data, is_running, resource,
                   caller, result, writer, history>>

Join ==
    /\ ppc = "join"
    /\ wpc = "exited"
    /\ ppc' = "gone"
    /\ UNCHANGED <<buffers, flags, resource, caller, result, writer, history>>

ProducerStep ==
    \/ FlushRefused \/ FlushBegin \/ FlushSwap \/ FlushSignal
    \/ CloseFile \/ FreeBuffers \/ RequestStop \/ Join

UserCall ==
    \/ \E elapsed \in BOOLEAN : Write(elapsed) \/ Poll(elapsed)
    \/ WriteRejected
    \/ Flush
    \/ Destroy

-----------------------------------------------------------------------------
(* Writer thread: writeToFile()                                            *)

LoopTest ==
    /\ wpc = "top"
    /\ wpc' = IF ~stop_requested \/ has_data THEN "wait" ELSE "exited"
    /\ UNCHANGED <<buffers, flags, resource, producer, target, written, history>>

\* atomic_flag::wait(false): a stop request does not end it.
WaitForData ==
    /\ wpc = "wait"
    /\ has_data
    /\ wpc' = "load"
    /\ UNCHANGED <<buffers, flags, resource, producer, target, written, history>>

LoadTarget ==
    /\ wpc = "load"
    /\ target' = nxt
    /\ written' = 0
    /\ wpc' = IF vec[nxt] = <<>> THEN "done" ELSE "write"
    /\ UNCHANGED <<buffers, flags, resource, producer, history>>

\* Fault: a short ::write is taken for a complete one.
WriteSome_ShortIsFull ==
    /\ wpc = "write"
    /\ fd_open
    /\ \E n \in 1..(Len(vec[target]) - written) :
         file' = file \o SubSeq(vec[target], written + 1, written + n)
    /\ wpc' = "resize"
    /\ UNCHANGED <<buffers, flags, resource, producer, target, written,
                   accepted, dropped>>

\* Fault: the rest is written from the start of the buffer.
WriteSome_FromStart ==
    /\ wpc = "write"
    /\ fd_open
    /\ \E n \in 1..(Len(vec[target]) - written) :
         /\ file' = file \o SubSeq(vec[target], 1, n)
         /\ written' = written + n
         /\ wpc' = IF written + n < Len(vec[target]) THEN "write" ELSE "resize"
    /\ UNCHANGED <<buffers, flags, resource, producer, target, accepted, dropped>>

\* ::write takes some of the remaining bytes.
WriteSome ==
    /\ wpc = "write"
    /\ fd_open
    /\ \E n \in 1..(Len(vec[target]) - written) :
         /\ file' = file \o SubSeq(vec[target], written + 1, written + n)
         /\ written' = written + n
         /\ wpc' = IF written + n < Len(vec[target]) THEN "write" ELSE "resize"
    /\ UNCHANGED <<buffers, flags, resource, producer, target, accepted, dropped>>

\* ::write fails (always, once the descriptor is closed): the rest is given up.
WriteFails ==
    /\ wpc = "write"
    /\ AllowIOError \/ ~fd_open
    /\ dropped' = dropped + (Len(vec[target]) - written)
    /\ wpc' = "resize"
    /\ UNCHANGED <<buffers, flags, resource, producer, target, written, file,
                   accepted>>

ResizeTarget ==
    /\ wpc = "resize"
    /\ vec' = [vec EXCEPT ![target] = <<>>]
    /\ wpc' = "done"
    /\ UNCHANGED <<cur, nxt, flags, resource, producer, target, written, history>>

ClearWriting ==
    /\ wpc = "done"
    /\ is_writing' = FALSE
    /\ wpc' = "clear"
    /\ UNCHANGED <<buffers, has_data, is_running, stop_requested, resource,
                   producer, target, written, history>>

ClearData ==
    /\ wpc = "clear"
    /\ has_data' = FALSE
    /\ wpc' = "check"
    /\ UNCHANGED <<buffers, is_writing, is_running, stop_requested, resource,
                   producer, target, written, history>>

\* Fault: the last round is not recognised.
CheckExit_Never ==
    /\ wpc = "check"
    /\ wpc' = "top"
    /\ UNCHANGED <<buffers, flags, resource, producer, target, written, history>>

CheckExit ==
    /\ wpc = "check"
    /\ wpc' = IF ~is_running /\ vec[cur] = <<>> THEN "exited" ELSE "top"
    /\ UNCHANGED <<buffers, flags, resource, producer, target, written, history>>

WriterStep ==
    \/ LoopTest \/ WaitForData \/ LoadTarget \/ WriteSome \/ WriteFails
    \/ ResizeTarget \/ ClearWriting \/ ClearData \/ CheckExit

-----------------------------------------------------------------------------
Next == UserCall \/ ProducerStep \/ WriterStep

Spec == Init /\ [][Next]_vars

\* Both threads are scheduled; when the user calls is not up to the code.
FairSpec == Spec /\ WF_vars(ProducerStep) /\ WF_vars(WriterStep)

-----------------------------------------------------------------------------
(* Correctness                                                             *)

TypeOK ==
    /\ vec \in [Vectors -> Seq(Nat)]
    /\ cur \in Vectors /\ nxt \in Vectors /\ target \in Vectors
    /\ is_writing \in BOOLEAN /\ has_data \in BOOLEAN
    /\ is_running \in BOOLEAN /\ stop_requested \in BOOLEAN
    /\ fd_open \in BOOLEAN /\ freed \in BOOLEAN
    /\ ppc \in ProducerPCs
    /\ caller \in {"write", "flush", "dtor"}
    /\ result \in BOOLEAN
    /\ wpc \in WriterPCs
    /\ written \in Nat
    /\ file \in Seq(Nat)
    /\ accepted \in Nat
    /\ dropped \in Nat

\* While the writer reads or empties a buffer, write() appends to the other
\* one and the swap of flush() leaves it alone (Readme: the two buffers take
\* turns, one collects, the other is written out).
BuffersDisjoint ==
    wpc \in {"write", "resize"} => target = nxt /\ cur # nxt /\ ppc # "swap"

\* No insert() outgrows what the constructor reserved, so that the vectors
\* never move their bytes while ::write reads them.
NoReallocation == \A v \in Vectors : Len(vec[v]) <= ByteSize

\* Bytes of the batch that are neither in the file nor given up.
Unwritten ==
    CASE wpc = "write"  -> Len(vec[target]) - written
      [] wpc = "resize" -> 0
      [] OTHER          -> Len(vec[nxt])

\* Every accepted byte is in exactly one place, whatever the interleaving of
\* write(), flush() and writeToFile(): in the file, in the batch, in the
\* current buffer, or among those a failed ::write gave up.
StreamConserved ==
    accepted = Len(file) + dropped + Unwritten + Len(vec[cur])

\* The pair of buffers behaves as an append-only log: bytes reach the file in
\* the order write() accepted them, once, and none is skipped unless ::write
\* fails.
Log == INSTANCE AppendLog

ImplementsAppendLog == Log!Spec

\* The bytes of the file are in stream order and none is there twice; as long
\* as no ::write failed the file is a prefix of the stream
\* (log_struct_test.cpp, Read: the index-th record of the file is the
\* index-th record written).
FileInOrder == Log!InOrder

\* A destructor that finds the writer waiting for data returns: its flush()
\* wakes the writer, which leaves the loop at the test of is_running_ before
\* it can wait for a signal that nobody sends any more.
IdleShutdownReturns ==
    (caller = "dtor" /\ ppc = "flush" /\ wpc = "wait" /\ ~is_writing)
      ~> (ppc = "gone")

-----------------------------------------------------------------------------
(* What the documentation says and the code does not do                    *)

\* Readme.md:29: flush() can be called at any time to persist the contents
\* of the current buffer at once.  A batch that was handed over does not
\* stay in its buffer for ever.
FlushCompletes ==
    (is_writing /\ is_running) ~> (~is_writing \/ ~is_running)

\* Readme.md:16: writeToFile() responds to the stop signal and exits safely.
StopIsAnswered == stop_requested ~> (wpc = "exited")
=============================================================================
