-------------------------- MODULE ThrottlingProxy --------------------------
(***************************************************************************)
(* 014.throttling_proxy: listen() spawns a proxy() for the connection it   *)
(* accepts.  In each direction one coroutine puts a token into a bounded   *)
(* channel at every interval, and another one takes a token and moves that *)
(* many bytes.  The four coroutines are joined with &&: when one throws,   *)
(* the others are cancelled.  Bytes are counted; which ones they are does  *)
(* not matter to a proxy that reads and writes in order.                   *)
(***************************************************************************)
EXTENDS Threads, Integers, FiniteSetsExt

CONSTANTS NumberOfTokens, BytesPerToken, \* number_of_tokens and bytes_per_token
          BufferSize,                    \* size of the array data in transfer()
          Bytes,                         \* bytes that are sent into each direction
          MaxTicks                       \* bound: intervals that go by

Directions == {"up", "down"}   \* client to server, server to client
Produce  == [up |-> "produce_up", down |-> "produce_down"]
Transfer == [up |-> "transfer_up", down |-> "transfer_down"]
Procs    == {Produce[d] : d \in Directions} \cup {Transfer[d] : d \in Directions}

Zero == [d \in Directions |-> 0]

Init ==
    /\ pc = [p \in Procs \cup {"proxy", "listen"} |-> IF p = "listen" THEN "accept" ELSE "new"]
    /\ mem = [tokens |-> Zero, ticks |-> Zero, available |-> Zero, data |-> Zero,
              sent |-> Zero, read |-> Zero, delivered |-> Zero, thrown |-> FALSE]

-----------------------------------------------------------------------------
(* listen() and proxy()                                                    *)

\* A client, or an error: listen() waits and accepts again.
Listen ==
    /\ \/ pc["proxy"] = "new" /\ Create("listen", "accept", "accept", "proxy", "connect")
       \/ Step("listen", "accept", "sleep")
       \/ Step("listen", "sleep", "accept")
    /\ UNCHANGED mem

\* async_connect(), and the four coroutines.
Connect ==
    \/ /\ pc["proxy"] = "connect"
       /\ pc' = [p \in DOMAIN pc |-> CASE p = "proxy" -> "join"
                                       [] p \in {Produce[d] : d \in Directions} -> "send"
                                       [] p \in {Transfer[d] : d \in Directions} -> "receive"
                                       [] OTHER -> pc[p]]
       /\ UNCHANGED mem
    \/ Step("proxy", "connect", "exited") /\ UNCHANGED mem

\* co_await (... && ...) returns when all four have ended.
Join == (\A p \in Procs : Ended(p)) /\ Step("proxy", "join", "exited") /\ UNCHANGED mem

\* A coroutine that waits ends when another one has thrown.
Cancelled(p) ==
    /\ mem.thrown
    /\ pc[p] \notin {"new", "exited"}
    /\ Step(p, pc[p], "exited")
    /\ UNCHANGED mem

-----------------------------------------------------------------------------
(* produce_tokens()                                                        *)

\* Fault: the channel has no bound.
SendToken_Unbounded(d) ==
    /\ Step(Produce[d], "send", "wait")
    /\ mem' = [mem EXCEPT !.tokens[d] = @ + 1]

SendToken(d) ==
    /\ mem.tokens[d] < NumberOfTokens
    /\ Step(Produce[d], "send", "wait")
    /\ mem' = [mem EXCEPT !.tokens[d] = @ + 1]

Tick(d) ==
    /\ mem.ticks[d] < MaxTicks
    /\ Step(Produce[d], "wait", "send")
    /\ mem' = [mem EXCEPT !.ticks[d] = @ + 1]

-----------------------------------------------------------------------------
(* transfer()                                                              *)

ReceiveToken(d) ==
    /\ mem.tokens[d] > 0
    /\ Step(Transfer[d], "receive", "read")
    /\ mem' = [mem EXCEPT !.tokens[d] = @ - 1, !.available[d] = BytesPerToken]

\* Fault: the read is bounded by the array alone.
Readable_Unbounded(d) == Min({BufferSize, mem.sent[d] - mem.read[d]})

\* The most that async_read_some() returns.
Readable(d) == Min({BufferSize, mem.available[d], mem.sent[d] - mem.read[d]})

ReadSome(d) ==
    \E n \in 1..Readable(d) :
      /\ Step(Transfer[d], "read", "write")
      /\ mem' = [mem EXCEPT !.data[d] = n, !.read[d] = @ + n]

Write(d) ==
    /\ Step(Transfer[d], "write", IF mem.available[d] - mem.data[d] > 0 THEN "read" ELSE "receive")
    /\ mem' = [mem EXCEPT !.available[d] = @ - mem.data[d], !.delivered[d] = @ + mem.data[d], !.data[d] = 0]

\* The end of the stream, or an error of a read or of a write.
Throw(d) ==
    \E from \in {"read", "write"} :
      Step(Transfer[d], from, "exited") /\ mem' = [mem EXCEPT !.thrown = TRUE]

\* The peers send when they like.
Peer(d) ==
    /\ mem.sent[d] < Bytes[d] /\ pc["proxy"] = "join"
    /\ mem' = [mem EXCEPT !.sent[d] = Bytes[d]]
    /\ UNCHANGED pc

Coroutines ==
    \/ \E d \in Directions :
         SendToken(d) \/ Tick(d) \/ ReceiveToken(d) \/ ReadSome(d) \/ Write(d) \/ Throw(d)
    \/ Connect \/ Join \/ (\E p \in Procs : Cancelled(p))

Next == Listen \/ Coroutines \/ (\E d \in Directions : Peer(d))

\* Coroutines whose operation has completed are resumed; peers need not send.
Spec == Init /\ [][Next]_vars /\ WF_vars(Coroutines)

-----------------------------------------------------------------------------
(* Correctness                                                             *)

\* The rate is kept in each direction, whatever the other one does: what was
\* read and what may be read is at most one token and one more per interval;
\* after any pause, the credit for a burst is at most a full channel and the
\* token in hand.
\* What was read and not delivered is in the buffer, or was when a coroutine
\* was cancelled.
Throttled ==
    \A d \in Directions :
      LET credit == mem.available[d] - mem.data[d] + BytesPerToken * mem.tokens[d] IN
      /\ mem.available[d] - mem.data[d] >= 0
      /\ mem.read[d] + credit <= BytesPerToken * (mem.ticks[d] + 1)
      /\ credit <= BytesPerToken * (NumberOfTokens + 1)
      /\ mem.delivered[d] + mem.data[d] = mem.read[d]

\* From some time on, the proxy has ended if one of its four coroutines has
\* thrown: the others do not wait for tokens, for the timer or for a peer that
\* stays connected.
EndsAfterThrow == mem.thrown => Ended("proxy")
=============================================================================
