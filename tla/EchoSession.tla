----------------------------- MODULE EchoSession -----------------------------
(***************************************************************************)
(* line_based_echo_session of the asio demos 005 and 013: two coroutines   *)
(* on one thread write to a socket and take turns by means of a channel    *)
(* with room for one message: sending to it takes the lock, receiving from *)
(* it gives the lock back.                                                 *)
(*                                                                         *)
(* A coroutine runs from the completion of one operation to the start of   *)
(* the next, which is one action here.  An operation completes first, and  *)
(* the coroutine resumes later: meanwhile the other one may close the      *)
(* socket.                                                                 *)
(***************************************************************************)
EXTENDS Integers, Sequences

Actors == {"handle_messages", "send_heartbeats"}

VARIABLES variant,    \* "005", or "013", which tries before it waits
          open,       \* socket_ is open
          lock,       \* messages in write_lock_: none or one
          queue,      \* coroutines whose async_send waits
          pc,         \* the operation that each coroutine awaits ...
          done,       \* ... and how it completed: pending, ok or failed
          last,       \* the last thing that was written
          late        \* history: coroutines that began to wait after stop()

vars == <<variant, open, lock, queue, pc, done, last, late>>

First == [handle_messages |-> "read", send_heartbeats |-> "timer"]

Init ==
    /\ variant \in {"005", "013"}
    /\ open = TRUE
    /\ lock = 0
    /\ queue = <<>>
    /\ pc = First
    /\ done = [a \in Actors |-> "pending"]
    /\ last = "nothing"
    /\ late = {}

\* Actor a awaits operation op from now on.
Await(a, op, how) ==
    /\ pc' = [pc EXCEPT ![a] = op]
    /\ done' = [done EXCEPT ![a] = how]

-----------------------------------------------------------------------------
(* Completions                                                             *)

TimerExpires ==
    /\ pc["send_heartbeats"] = "timer" /\ done["send_heartbeats"] = "pending"
    /\ done' = [done EXCEPT !["send_heartbeats"] = "ok"]
    /\ UNCHANGED <<variant, open, lock, queue, pc, last, late>>

\* A line arrives or is in the buffer already, or the read fails.  A closed
\* socket_ fails it unless the buffer holds a line.
ReadCompletes ==
    /\ pc["handle_messages"] = "read" /\ done["handle_messages"] = "pending"
    /\ \E how \in {"ok", "failed"} : done' = [done EXCEPT !["handle_messages"] = how]
    /\ UNCHANGED <<variant, open, lock, queue, pc, last, late>>

Written(op) == CASE op = "write_header" -> "<line>"
                 [] op = "write_line" -> "line"
                 [] OTHER -> "<heartbeat>"

Writing(a) == pc[a] \in {"write_header", "write_line", "write_heartbeat"}

\* async_write() may fail after some of the bytes were sent.
WriteCompletes(a) ==
    /\ Writing(a) /\ done[a] = "pending"
    /\ \/ open /\ done' = [done EXCEPT ![a] = "ok"] /\ last' = Written(pc[a])
       \/ /\ done' = [done EXCEPT ![a] = "failed"]
          /\ last' \in {last, "part"}
    /\ UNCHANGED <<variant, open, lock, queue, pc, late>>

-----------------------------------------------------------------------------
(* Coroutines                                                              *)

FirstWrite == [handle_messages |-> "write_header", send_heartbeats |-> "write_heartbeat"]

\* Fault: the result of try_send() is not looked at.
TakeLock_Ignored(a) ==
    /\ pc[a] = First[a] /\ done[a] = "ok"
    /\ lock' = 1
    /\ Await(a, FirstWrite[a], "pending")
    /\ UNCHANGED <<variant, open, queue, last, late>>

\* The line is read or the timer has expired.  If the lock is free, 013 goes
\* on with it at once and 005 awaits an operation that has completed.
TakeLock(a) ==
    /\ pc[a] = First[a] /\ done[a] = "ok"
    /\ \/ /\ lock = 0
          /\ lock' = 1
          /\ IF variant = "013" THEN Await(a, FirstWrite[a], "pending")
                                ELSE Await(a, "send", "ok")
          /\ UNCHANGED <<queue, late>>
       \/ /\ lock = 1
          /\ queue' = Append(queue, a)
          /\ Await(a, "send", "pending")
          /\ late' = IF open THEN late ELSE late \cup {a}
          /\ UNCHANGED lock
    /\ UNCHANGED <<variant, open, last>>

HasLock(a) ==
    /\ pc[a] = "send" /\ done[a] = "ok"
    /\ Await(a, FirstWrite[a], "pending")
    /\ UNCHANGED <<variant, open, lock, queue, last, late>>

WriteLine ==
    /\ pc["handle_messages"] = "write_header" /\ done["handle_messages"] = "ok"
    /\ Await("handle_messages", "write_line", "pending")
    /\ UNCHANGED <<variant, open, lock, queue, last, late>>

\* try_receive(): the lock goes to the first that waits; a awaits its next
\* line or heartbeat.
ReleaseLock(a) ==
    /\ pc[a] \in {"write_line", "write_heartbeat"} /\ done[a] = "ok"
    /\ pc' = [pc EXCEPT ![a] = First[a]]
    /\ IF queue = <<>>
       THEN /\ lock' = 0
            /\ done' = [done EXCEPT ![a] = "pending"]
            /\ UNCHANGED queue
       ELSE /\ queue' = Tail(queue)
            /\ done' = [done EXCEPT ![a] = "pending", ![Head(queue)] = "ok"]
            /\ UNCHANGED lock
    /\ UNCHANGED <<variant, open, last, late>>

\* Fault: the lock is given back, and the other coroutine is left to find out.
Stop_Releases(a) ==
    /\ pc[a] # "ended" /\ done[a] = "failed"
    /\ lock' = 0
    /\ Await(a, "ended", "ok")
    /\ UNCHANGED <<variant, open, queue, last, late>>

\* Fault: write_lock_ is not cancelled.
Stop_NoCancel(a) ==
    /\ pc[a] # "ended" /\ done[a] = "failed"
    /\ open' = FALSE
    /\ Await(a, "ended", "ok")
    /\ UNCHANGED <<variant, lock, queue, last, late>>

\* The exception of a failed operation ends in stop(): the socket is closed
\* and who waits for the lock is cancelled.  A lock that is held stays held.
Stop(a) ==
    /\ pc[a] # "ended" /\ done[a] = "failed"
    /\ open' = FALSE
    /\ queue' = <<>>
    /\ pc' = [pc EXCEPT ![a] = "ended"]
    /\ done' = [b \in Actors |-> CASE b = a -> "ok"
                                   [] \E i \in 1..Len(queue) : queue[i] = b -> "failed"
                                   [] OTHER -> done[b]]
    /\ UNCHANGED <<variant, lock, last, late>>

Resume(a) == TakeLock(a) \/ HasLock(a) \/ ReleaseLock(a) \/ Stop(a)

Completes == TimerExpires \/ ReadCompletes \/ \E a \in Actors : WriteCompletes(a)

Next == Completes \/ WriteLine \/ \E a \in Actors : Resume(a)

-----------------------------------------------------------------------------
(* Correctness                                                             *)

\* A header is followed by its line, whatever the heartbeats do.
LinesWhole == [][last = "<line>" => last' \in {"<line>", "line", "part"}]_last

\* Nothing is written after a write that broke off: the one whose write failed
\* keeps the lock and closes the socket.
NothingAfterPart == [][last # "part"]_last

\* Once one coroutine has ended, the other one ends too, unless it began to
\* wait for the lock after stop() and the lock was never given back: it is
\* then suspended for ever and keeps the session alive.
SessionEnds ==
    (\E a \in Actors : pc[a] = "ended") ~>
      (\A a \in Actors : pc[a] = "ended" \/ (pc[a] = "send" /\ a \in late))
=============================================================================
