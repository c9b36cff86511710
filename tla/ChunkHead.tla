----------------------------- MODULE ChunkHead -----------------------------
(***************************************************************************)
(* 002.chunk_head: a chunk holds a header, an optional user header, a      *)
(* back-offset of four bytes and an aligned payload, from which the header *)
(* is found again.  The bytes of the chunk are modelled by who wrote each  *)
(* of them last.                                                           *)
(***************************************************************************)
EXTENDS Threads, Integers, FiniteSetsExt

CONSTANTS PayloadSizes, HeaderSizes, \* sizes of the payload and of the user header
          Alignments                 \* alignments of the payload: powers of two

HeaderSize == 16   \* sizeof(ChunkHeader)
WordSize   == 4    \* sizeof(uint32_t), alignof(uint32_t), alignof(ChunkHeader)

\* Fault: the value is rounded down.
Align_Down(value, alignment) == value - (value % alignment)

\* align(): the mask clears the low bits, so an alignment is a power of two.
Align(value, alignment) == (value + alignment - 1) - ((value + alignment - 1) % alignment)

\* Steps 1 to 4 of allocateChunk()
AlignedPayload(alignment, userHeaderSize) ==
    Align(Align(HeaderSize + userHeaderSize, WordSize) + WordSize, alignment)

MinAlign(alignment) == Max({alignment, WordSize})

\* The system's choice of the address: some multiple of the alignment.
Init ==
    \E size \in PayloadSizes, alignment \in Alignments, uh \in HeaderSizes, k \in 1..2 :
      /\ pc = [main |-> "allocate"]
      /\ mem = [size |-> size, alignment |-> alignment, userHeaderSize |-> uh,
                raw |-> k * MinAlign(alignment), owner |-> <<>>, userPayloadOffset |-> 0,
                backOffset |-> 0, recovered |-> 0, clash |-> FALSE]

-----------------------------------------------------------------------------
\* A write of n bytes at an offset: outside the chunk, or over the bytes of
\* another part, it is a clash.
Written(m, who, from, n) ==
    LET cells == from..(from + n - 1) IN
    [m EXCEPT !.clash = @ \/ \E c \in cells : c \notin DOMAIN m.owner \/ m.owner[c] # "raw",
              !.owner = [c \in DOMAIN @ |-> IF c \in cells THEN who ELSE @[c]]]

\* Steps 5 and 6: aligned_alloc() of a multiple of its alignment.
Allocate ==
    LET total == Align(AlignedPayload(mem.alignment, mem.userHeaderSize) + mem.size, MinAlign(mem.alignment))
    IN  Step("main", "allocate", "header") /\ mem' = [mem EXCEPT !.owner = [c \in 0..(total - 1) |-> "raw"]]

\* Step 7
FillHeader ==
    /\ Step("main", "header", "backOffset")
    /\ mem' = [Written(mem, "header", 0, HeaderSize) EXCEPT
                 !.userPayloadOffset = AlignedPayload(mem.alignment, mem.userHeaderSize)]

\* Step 8
WriteBackOffset ==
    /\ Step("main", "backOffset", "payload")
    /\ mem' = [Written(mem, "backOffset", mem.userPayloadOffset - WordSize, WordSize) EXCEPT
                 !.backOffset = mem.userPayloadOffset]

\* The demos fill the payload at userPayload() and, if there is one, the
\* header at userHeader(), then call fromUserPayload().
WritePayload ==
    /\ Step("main", "payload", IF mem.userHeaderSize = 0 THEN "recover" ELSE "userHeader")
    /\ mem' = Written(mem, "payload", mem.userPayloadOffset, mem.size)

WriteUserHeader ==
    /\ Step("main", "userHeader", "recover")
    /\ mem' = Written(mem, "userHeader", HeaderSize, mem.userHeaderSize)

\* The four bytes before the payload are subtracted from its address.
FromUserPayload ==
    /\ Step("main", "recover", "exited")
    /\ mem' = [mem EXCEPT !.recovered = mem.raw + mem.userPayloadOffset - mem.backOffset]

Next ==
    Allocate \/ FillHeader \/ WriteBackOffset \/ WritePayload \/ WriteUserHeader \/ FromUserPayload

Spec == Init /\ [][Next]_vars /\ WF_vars(Next)

-----------------------------------------------------------------------------
(* Correctness                                                             *)

\* No part of a chunk overlaps another or leaves it, the payload has the
\* alignment asked for at every address the system may choose, the back-offset
\* is whole when it is read, and it leads back to the header.
LayoutSound ==
    /\ ~mem.clash
    /\ pc["main"] \notin {"allocate", "header"} => (mem.raw + mem.userPayloadOffset) % mem.alignment = 0
    /\ Ended("main") =>
         /\ mem.recovered = mem.raw
         /\ \A c \in (mem.userPayloadOffset - WordSize)..(mem.userPayloadOffset - 1) : mem.owner[c] = "backOffset"
=============================================================================
