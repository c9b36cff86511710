------------------------------ MODULE AppendLog ------------------------------
(***************************************************************************)
(* What utils::LogStruct promises: an append-only log.  Records are        *)
(* accepted into a stream; the file receives the bytes of the stream in    *)
(* order; a byte that is accepted is persisted at most once, and only a    *)
(* failed ::write may skip bytes.                                          *)
(***************************************************************************)
EXTENDS Integers, Sequences

CONSTANTS StructSize,   \* bytes of one record
          MaxBytes      \* bound: bytes accepted in one behaviour

VARIABLES file,         \* bytes in the file; byte i of the stream is i
          accepted,     \* length of the stream
          dropped       \* bytes skipped by failed writes

vars == <<file, accepted, dropped>>

\* Bytes accepted whose fate is still open.
Outstanding == accepted - Len(file) - dropped

Init ==
    /\ file = <<>>
    /\ accepted = 0
    /\ dropped = 0

Accept ==
    /\ accepted + StructSize <= MaxBytes
    /\ accepted' = accepted + StructSize
    /\ UNCHANGED <<file, dropped>>

Persist ==
    /\ \E n \in 1..Outstanding :
         file' = file \o [i \in 1..n |-> Len(file) + dropped + i]
    /\ UNCHANGED <<accepted, dropped>>

GiveUp ==
    /\ \E n \in 1..Outstanding : dropped' = dropped + n
    /\ UNCHANGED <<file, accepted>>

Next == Accept \/ Persist \/ GiveUp

Spec == Init /\ [][Next]_vars

-----------------------------------------------------------------------------
TypeOK ==
    /\ file \in Seq(Nat)
    /\ accepted \in Nat
    /\ dropped \in Nat

\* The file holds bytes of the stream in order and none of them twice; while
\* no write failed it is a prefix of the stream.
InOrder ==
    /\ Len(file) + dropped <= accepted
    /\ \A i, j \in 1..Len(file) : i < j => file[i] < file[j]
    /\ \A i \in 1..Len(file) : file[i] <= Len(file) + dropped
    /\ dropped = 0 => \A i \in 1..Len(file) : file[i] = i
=============================================================================
