--------------------------- MODULE LogStructProofs ---------------------------
(***************************************************************************)
(* The double buffer for every record size, buffer size and number of      *)
(* records: the two threads never share a buffer, no accepted byte is lost *)
(* or duplicated, and the log implements AppendLog.                        *)
(***************************************************************************)
EXTENDS LogStruct, TLAPS

\* The protocol of is_writing_ and has_data_to_write: who may touch which
\* buffer, and when the batch buffer is empty.
Handshake ==
    /\ cur # nxt
    /\ wpc \in {"load", "write", "resize", "done"} =>
         is_writing /\ has_data /\ ppc \notin {"swap", "signal"}
    /\ wpc = "clear" => has_data
    /\ (has_data /\ wpc # "clear") =>
         is_writing /\ ppc \notin {"swap", "signal"}
    /\ ppc \in {"swap", "signal"} => is_writing
    /\ wpc \in {"write", "resize"} => target = nxt
    /\ (~is_writing \/ ppc = "swap" \/ wpc = "done") => vec[nxt] = <<>>

\* Bytes of the stream that are in the file or given up.
Settled == Len(file) + dropped

\* What the buffers hold: consecutive pieces of the stream, the batch first.
Contents ==
    /\ wpc = "write" => written < Len(vec[target])
    /\ wpc # "resize" => \A i \in 1..Len(vec[nxt]) :
         vec[nxt][i] = (Settled + Unwritten) - Len(vec[nxt]) + i
    /\ \A i \in 1..Len(vec[cur]) : vec[cur][i] = Settled + Unwritten + i
    /\ StreamConserved

IInv == TypeOK /\ NoReallocation /\ Handshake /\ Contents

\* byte_size_ is a number; nothing else about it matters below.
LEMMA ByteSizeNat == ByteSize \in Nat
BY LogStructAssumption DEF ByteSize

\* What appending t to s does, element by element.
LEMMA Appended ==
  ASSUME NEW s \in Seq(Nat), NEW t \in Seq(Nat)
  PROVE  /\ s \o t \in Seq(Nat)
         /\ Len(s \o t) = Len(s) + Len(t)
         /\ \A i \in 1..Len(s) : (s \o t)[i] = s[i]
         /\ \A i \in (Len(s) + 1)..(Len(s) + Len(t)) :
              (s \o t)[i] = t[i - Len(s)]
OBVIOUS

\* The constructor establishes the invariant.
LEMMA InitIInv == Init => IInv
<1> SUFFICES ASSUME Init PROVE IInv
  OBVIOUS
<1> USE DEF Init
<1>1. \A v \in Vectors : vec[v] = <<>> /\ Len(vec[v]) = 0
  OBVIOUS
<1>2. TypeOK
  <2>1. vec \in [Vectors -> Seq(Nat)]
    OBVIOUS
  <2>2. QED
    BY <2>1 DEF TypeOK, Vectors, ProducerPCs, WriterPCs
<1>3. NoReallocation
  BY <1>1, ByteSizeNat DEF NoReallocation
<1>4. Handshake
  BY <1>1 DEF Handshake, Vectors
<1>5. Contents
  BY <1>1 DEF Contents, Settled, Unwritten, StreamConserved, Vectors
<1>6. QED
  BY <1>2, <1>3, <1>4, <1>5 DEF IInv

\* A step that leaves the buffers, the batch and the history alone and moves
\* neither thread into or out of the critical part keeps Contents.
LEMMA ContentsFrame ==
  ASSUME IInv, UNCHANGED <<buffers, wpc, target, written, history>>
  PROVE  NoReallocation' /\ Contents'
BY DEF IInv, Contents, NoReallocation, Settled, Unwritten, StreamConserved,
       buffers, history

\* write(), flush() and the destructor keep the invariant.
LEMMA ProducerKeepsIInv == IInv /\ (UserCall \/ ProducerStep) => IInv'
<1> SUFFICES ASSUME IInv, UserCall \/ ProducerStep
             PROVE  IInv'
  OBVIOUS
<1> USE DEF IInv, buffers, flags, resource, producer, writer, history
<1>1. ASSUME NEW elapsed \in BOOLEAN, Write(elapsed)
      PROVE  IInv'
  <2>1. NewRecord \in Seq(Nat) /\ Len(NewRecord) = StructSize
    BY LogStructAssumption DEF TypeOK, NewRecord
  <2>2. /\ vec' \in [Vectors -> Seq(Nat)]
        /\ vec'[cur] = vec[cur] \o NewRecord
        /\ \A v \in Vectors \ {cur} : vec'[v] = vec[v]
    BY <1>1, <2>1 DEF TypeOK, Write
  <2>3. /\ Len(vec'[cur]) = Len(vec[cur]) + StructSize
        /\ \A i \in 1..Len(vec[cur]) : vec'[cur][i] = vec[cur][i]
        /\ \A i \in (Len(vec[cur]) + 1)..(Len(vec[cur]) + StructSize) :
             vec'[cur][i] = accepted + (i - Len(vec[cur]))
    <3>1. vec[cur] \in Seq(Nat) /\ accepted \in Nat
      BY DEF TypeOK
    <3>2. \A i \in 1..StructSize : NewRecord[i] = accepted + i
      BY DEF NewRecord
    <3>3. ASSUME NEW i \in (Len(vec[cur]) + 1)..(Len(vec[cur]) + StructSize)
          PROVE  vec'[cur][i] = accepted + (i - Len(vec[cur]))
      <4>1. i - Len(vec[cur]) \in 1..StructSize
        BY <3>1, LogStructAssumption
      <4>2. vec'[cur][i] = NewRecord[i - Len(vec[cur])]
        BY <2>1, <2>2, <3>1, Appended
      <4>3. QED
        BY <3>2, <4>1, <4>2
    <3>4. Len(vec'[cur]) = Len(vec[cur]) + StructSize
      BY <2>1, <2>2, <3>1, Appended
    <3>5. \A i \in 1..Len(vec[cur]) : vec'[cur][i] = vec[cur][i]
      BY <2>1, <2>2, <3>1, Appended
    <3>6. QED
      BY <3>3, <3>4, <3>5
  <2>4. TypeOK'
    <3>1. accepted' \in Nat
      BY <1>1, LogStructAssumption DEF TypeOK, Write
    <3>2. /\ ppc' \in ProducerPCs
          /\ caller' \in {"write", "flush", "dtor"}
          /\ result' \in BOOLEAN
      BY <1>1 DEF TypeOK, Write, TailOfWrite, ProducerPCs
    <3>3. QED
      BY <1>1, <2>2, <3>1, <3>2 DEF TypeOK, Write
  <2>5. NoReallocation'
    BY <1>1, <2>2, <2>3 DEF TypeOK, NoReallocation, Write
  <2>6. Handshake'
    BY <1>1, <2>2 DEF TypeOK, Handshake, Write, TailOfWrite
  <2>7. /\ UNCHANGED <<cur, nxt, wpc, target, written, file, dropped>>
        /\ vec'[nxt] = vec[nxt]
        /\ wpc = "write" => target = nxt
        /\ accepted' = accepted + StructSize
    BY <1>1, <2>2 DEF TypeOK, Handshake, Write
  <2>8. Unwritten' = Unwritten /\ Settled' = Settled
    BY <2>7 DEF Unwritten, Settled
  <2>9. Contents'
    <3>1. /\ accepted = Settled + Unwritten + Len(vec[cur])
          /\ Settled \in Int /\ Unwritten \in Int /\ Len(vec[cur]) \in Nat
      BY DEF TypeOK, Contents, StreamConserved, Settled, Unwritten
    <3>2. \A i \in 1..Len(vec'[cur]) : vec'[cur][i] = Settled + Unwritten + i
      <4> SUFFICES ASSUME NEW i \in 1..Len(vec'[cur])
                   PROVE  vec'[cur][i] = Settled + Unwritten + i
        OBVIOUS
      <4>1. CASE i <= Len(vec[cur])
        BY <2>3, <3>1, <4>1 DEF Contents
      <4>2. CASE i > Len(vec[cur])
        <5>1. i \in (Len(vec[cur]) + 1)..(Len(vec[cur]) + StructSize)
          BY <2>3, <3>1, <4>2, LogStructAssumption
        <5>2. vec'[cur][i] = accepted + (i - Len(vec[cur]))
          BY <2>3, <5>1
        <5>3. i \in Int
          BY <3>1, <5>1, LogStructAssumption
        <5>4. accepted + (i - Len(vec[cur])) = Settled + Unwritten + i
          <6> DEFINE l == Len(vec[cur])
          <6>1. /\ Settled \in Int /\ Unwritten \in Int /\ l \in Int
                /\ accepted = Settled + Unwritten + l
            BY <3>1
          <6> HIDE DEF l
          <6>2. accepted + (i - l) = Settled + Unwritten + i
            BY <5>3, <6>1
          <6>3. QED
            BY <6>2 DEF l
        <5>5. QED
          BY <5>2, <5>4
      <4>3. QED
        BY <2>3, <3>1, <4>1, <4>2, LogStructAssumption
    <3>3. StreamConserved'
      BY <2>3, <2>7, <2>8, <3>1, LogStructAssumption DEF StreamConserved, Settled
    <3>4. QED
      BY <2>7, <2>8, <3>2, <3>3 DEF Contents
  <2>10. QED
    BY <2>4, <2>5, <2>6, <2>9
<1>2. ASSUME NEW elapsed \in BOOLEAN, Poll(elapsed)
      PROVE  IInv'
  <2>1. TypeOK' /\ Handshake'
    BY <1>2 DEF TypeOK, Handshake, Poll, TailOfWrite, ProducerPCs
  <2>2. QED
    BY <1>2, <2>1, ContentsFrame DEF Poll
<1>3. CASE WriteRejected
  <2>1. TypeOK' /\ Handshake'
    BY <1>3 DEF TypeOK, Handshake, WriteRejected
  <2>2. QED
    BY <1>3, <2>1, ContentsFrame DEF WriteRejected
<1>4. CASE Flush
  <2>1. TypeOK' /\ Handshake'
    BY <1>4 DEF TypeOK, Handshake, Flush, ProducerPCs
  <2>2. QED
    BY <1>4, <2>1, ContentsFrame DEF Flush
<1>5. CASE Destroy
  <2>1. TypeOK' /\ Handshake'
    BY <1>5 DEF TypeOK, Handshake, Destroy, ProducerPCs
  <2>2. QED
    BY <1>5, <2>1, ContentsFrame DEF Destroy
<1>6. CASE FlushRefused
  <2>1. TypeOK' /\ Handshake'
    BY <1>6 DEF TypeOK, Handshake, FlushRefused, FlushReturns, ProducerPCs
  <2>2. QED
    BY <1>6, <2>1, ContentsFrame DEF FlushRefused
<1>7. CASE FlushBegin
  <2>1. TypeOK' /\ Handshake'
    BY <1>7 DEF TypeOK, Handshake, FlushBegin, ProducerPCs
  <2>2. QED
    BY <1>7, <2>1, ContentsFrame DEF FlushBegin
<1>8. CASE FlushSwap
  <2>1. TypeOK'
    BY <1>8 DEF TypeOK, FlushSwap, ProducerPCs
  <2>2. Handshake'
    BY <1>8 DEF Handshake, FlushSwap
  <2>3. NoReallocation'
    BY <1>8 DEF NoReallocation, FlushSwap
  <2>4. /\ vec[nxt] = <<>> /\ Len(vec[nxt]) = 0
        /\ wpc \notin {"write", "resize"} /\ wpc' = wpc
        /\ cur' = nxt /\ nxt' = cur /\ UNCHANGED <<vec, history>>
    BY <1>8 DEF Handshake, FlushSwap
  <2>5. Unwritten = 0 /\ Unwritten' = Len(vec[cur]) /\ Settled' = Settled
    BY <2>4 DEF Unwritten, Settled
  <2>6. Contents'
    <3>1. /\ accepted = Settled + Len(vec[cur])
          /\ Settled \in Nat /\ Len(vec[cur]) \in Nat
          /\ \A i \in 1..Len(vec[cur]) : vec[cur][i] = Settled + i
      BY <2>4, <2>5 DEF TypeOK, Contents, StreamConserved, Settled
    <3>2. StreamConserved'
      BY <2>4, <2>5, <3>1 DEF StreamConserved, Settled
    <3>3. QED
      BY <2>4, <2>5, <3>1, <3>2 DEF Contents
  <2>7. QED
    BY <2>1, <2>2, <2>3, <2>6
<1>9. CASE FlushSignal
  <2>1. TypeOK' /\ Handshake'
    BY <1>9 DEF TypeOK, Handshake, FlushSignal, FlushReturns, ProducerPCs
  <2>2. QED
    BY <1>9, <2>1, ContentsFrame DEF FlushSignal
<1>10. CASE CloseFile
  <2>1. TypeOK' /\ Handshake'
    BY <1>10 DEF TypeOK, Handshake, CloseFile, ProducerPCs
  <2>2. QED
    BY <1>10, <2>1, ContentsFrame DEF CloseFile
<1>11. CASE FreeBuffers
  <2>1. TypeOK' /\ Handshake'
    BY <1>11 DEF TypeOK, Handshake, FreeBuffers, ProducerPCs
  <2>2. QED
    BY <1>11, <2>1, ContentsFrame DEF FreeBuffers
<1>12. CASE RequestStop
  <2>1. TypeOK' /\ Handshake'
    BY <1>12 DEF TypeOK, Handshake, RequestStop, ProducerPCs
  <2>2. QED
    BY <1>12, <2>1, ContentsFrame DEF RequestStop
<1>13. CASE Join
  <2>1. TypeOK' /\ Handshake'
    BY <1>13 DEF TypeOK, Handshake, Join, ProducerPCs
  <2>2. QED
    BY <1>13, <2>1, ContentsFrame DEF Join
<1>14. QED
  BY <1>1, <1>2, <1>3, <1>4, <1>5, <1>6, <1>7, <1>8, <1>9, <1>10, <1>11,
     <1>12, <1>13
     DEF UserCall, ProducerStep

\* A step of the writer that moves bytes out of the batch, or only moves the
\* writer, and accounts for every byte it moves keeps Contents.
LEMMA AccountedFor ==
  ASSUME IInv, TypeOK', UNCHANGED <<vec, cur, nxt, accepted>>, wpc # "resize",
         Settled' + Unwritten' = Settled + Unwritten,
         wpc' = "write" => written' < Len(vec[target'])
  PROVE  NoReallocation' /\ Contents'
<1>1. NoReallocation'
  BY DEF IInv, NoReallocation
<1>2. /\ Settled \in Int /\ Settled' \in Int
      /\ Unwritten \in Int /\ Unwritten' \in Int
  <2>1. Settled \in Int /\ Settled' \in Int
    BY DEF IInv, TypeOK, Settled
  <2>2. Unwritten \in Int
    BY DEF IInv, TypeOK, Unwritten
  <2>3. Unwritten' \in Int
    BY DEF TypeOK, Unwritten
  <2>4. QED
    BY <2>1, <2>2, <2>3
<1>3. StreamConserved'
  BY <1>2 DEF IInv, Contents, StreamConserved, Settled
<1>4. wpc' = "write" => written' < Len(vec'[target'])
  OBVIOUS
<1>5. \A i \in 1..Len(vec[nxt]) :
          vec[nxt][i] = (Settled + Unwritten) - Len(vec[nxt]) + i
  BY DEF IInv, Contents
<1>6. \A i \in 1..Len(vec[cur]) : vec[cur][i] = Settled + Unwritten + i
  BY DEF IInv, Contents
<1>7. /\ \A i \in 1..Len(vec'[nxt']) :
           vec'[nxt'][i] = (Settled' + Unwritten') - Len(vec'[nxt']) + i
      /\ \A i \in 1..Len(vec'[cur']) : vec'[cur'][i] = Settled' + Unwritten' + i
  BY <1>5, <1>6
<1>8. QED
  BY <1>1, <1>3, <1>4, <1>7 DEF Contents

\* writeToFile() keeps the invariant.
LEMMA WriterKeepsIInv == IInv /\ WriterStep => IInv'
<1> SUFFICES ASSUME IInv, WriterStep
             PROVE  IInv'
  OBVIOUS
<1> USE DEF IInv, buffers, flags, resource, producer, writer, history
<1>1. CASE LoopTest
  <2>1. TypeOK' /\ Handshake'
    BY <1>1 DEF TypeOK, Handshake, LoopTest, WriterPCs
  <2>2. QED
    BY <1>1, <2>1, AccountedFor DEF LoopTest, Settled, Unwritten
<1>2. CASE WaitForData
  <2>1. TypeOK' /\ Handshake'
    BY <1>2 DEF TypeOK, Handshake, WaitForData, WriterPCs
  <2>2. QED
    BY <1>2, <2>1, AccountedFor DEF WaitForData, Settled, Unwritten
<1>3. CASE LoadTarget
  <2>1. TypeOK'
    BY <1>3 DEF TypeOK, LoadTarget, WriterPCs
  <2>2. Handshake'
    BY <1>3 DEF Handshake, LoadTarget
  <2>3. vec[nxt] # <<>> => 0 < Len(vec[nxt])
    BY DEF TypeOK
  <2>4. Settled' = Settled /\ Unwritten' = Unwritten
    BY <1>3, <2>3 DEF TypeOK, LoadTarget, Settled, Unwritten
  <2>5. QED
    BY <1>3, <2>1, <2>2, <2>3, <2>4, AccountedFor DEF LoadTarget
<1>4. CASE WriteSome
  <2> DEFINE size == Len(vec[target])
  <2>1. size \in Nat /\ written < size /\ written \in Nat /\ target = nxt
    BY <1>4 DEF TypeOK, Handshake, Contents, WriteSome
  <2>2. PICK n \in 1..(size - written) :
            /\ file' = file \o SubSeq(vec[target], written + 1, written + n)
            /\ written' = written + n
            /\ wpc' = IF written + n < size THEN "write" ELSE "resize"
    BY <1>4 DEF WriteSome
  <2>3. n \in Nat /\ written + n <= size
    BY <2>1, <2>2
  <2>4. /\ SubSeq(vec[target], written + 1, written + n) \in Seq(Nat)
        /\ Len(SubSeq(vec[target], written + 1, written + n)) = n
    BY <2>1, <2>3 DEF TypeOK
  <2>5. file' \in Seq(Nat) /\ Len(file') = Len(file) + n
    BY <2>2, <2>4, Appended DEF TypeOK
  <2>6. TypeOK'
    BY <1>4, <2>1, <2>2, <2>3, <2>5 DEF TypeOK, WriteSome, WriterPCs
  <2>7. Handshake'
    BY <1>4, <2>2 DEF Handshake, WriteSome
  <2>8. /\ UNCHANGED <<vec, cur, nxt, accepted, target, dropped>>
        /\ wpc = "write"
    BY <1>4 DEF WriteSome
  <2>9. Unwritten = size - written /\ Unwritten' = size - (written + n)
    BY <2>1, <2>2, <2>3, <2>8 DEF Unwritten
  <2>10. Settled' + Unwritten' = Settled + Unwritten
    <3> HIDE DEF size
    <3>1. Len(file) \in Nat /\ dropped \in Nat
      BY DEF TypeOK
    <3>2. QED
      BY <2>1, <2>3, <2>5, <2>8, <2>9, <3>1 DEF Settled
  <2>11. wpc' = "write" => written' < Len(vec[target'])
    BY <2>2, <2>8
  <2>12. QED
    BY <2>6, <2>7, <2>8, <2>10, <2>11, AccountedFor
<1>5. CASE WriteFails
  <2> DEFINE size == Len(vec[target])
  <2>1. size \in Nat /\ written < size /\ written \in Nat /\ dropped \in Nat
    BY <1>5 DEF TypeOK, Contents, WriteFails
  <2>2. TypeOK'
    BY <1>5, <2>1 DEF TypeOK, WriteFails, WriterPCs
  <2>3. Handshake'
    BY <1>5 DEF Handshake, WriteFails
  <2>4. Unwritten = size - written /\ Unwritten' = 0
    BY <1>5 DEF WriteFails, Unwritten
  <2>5. Settled' = Settled + (size - written) /\ Settled \in Nat
    BY <1>5, <2>1 DEF TypeOK, WriteFails, Settled
  <2>6. QED
    BY <1>5, <2>1, <2>2, <2>3, <2>4, <2>5, AccountedFor DEF WriteFails
<1>6. CASE ResizeTarget
  <2>1. /\ target = nxt /\ cur # nxt /\ wpc' = "done" /\ wpc = "resize"
        /\ UNCHANGED <<cur, nxt, file, accepted, dropped>>
        /\ vec' \in [Vectors -> Seq(Nat)]
        /\ vec'[nxt] = <<>> /\ Len(vec'[nxt]) = 0
        /\ \A v \in Vectors \ {nxt} : vec'[v] = vec[v]
    BY <1>6 DEF TypeOK, Handshake, ResizeTarget
  <2>2. TypeOK'
    BY <1>6, <2>1 DEF TypeOK, ResizeTarget, WriterPCs
  <2>3. Handshake'
    BY <1>6, <2>1 DEF Handshake, ResizeTarget
  <2>4. NoReallocation'
    <3> SUFFICES ASSUME NEW v \in Vectors PROVE Len(vec'[v]) <= ByteSize
      BY DEF NoReallocation
    <3>1. CASE v = nxt
      BY <2>1, <3>1, ByteSizeNat
    <3>2. CASE v # nxt
      BY <2>1, <3>2 DEF NoReallocation
    <3>3. QED
      BY <3>1, <3>2
  <2>5. Unwritten = 0 /\ Unwritten' = 0 /\ Settled' = Settled
    BY <2>1 DEF Unwritten, Settled
  <2>6. vec'[cur] = vec[cur]
    BY <2>1 DEF TypeOK
  <2>7. StreamConserved'
    BY <2>1, <2>5, <2>6 DEF Contents, StreamConserved
  <2>8. Contents'
    BY <2>1, <2>5, <2>6, <2>7 DEF Contents
  <2>9. QED
    BY <2>2, <2>3, <2>4, <2>8
<1>7. CASE ClearWriting
  <2>1. TypeOK' /\ Handshake'
    BY <1>7 DEF TypeOK, Handshake, ClearWriting, WriterPCs
  <2>2. QED
    BY <1>7, <2>1, AccountedFor DEF ClearWriting, Settled, Unwritten
<1>8. CASE ClearData
  <2>1. TypeOK' /\ Handshake'
    BY <1>8 DEF TypeOK, Handshake, ClearData, WriterPCs
  <2>2. QED
    BY <1>8, <2>1, AccountedFor DEF ClearData, Settled, Unwritten
<1>9. CASE CheckExit
  <2>1. TypeOK' /\ Handshake'
    BY <1>9 DEF TypeOK, Handshake, CheckExit, WriterPCs
  <2>2. QED
    BY <1>9, <2>1, AccountedFor DEF CheckExit, Settled, Unwritten
<1>10. QED
  BY <1>1, <1>2, <1>3, <1>4, <1>5, <1>6, <1>7, <1>8, <1>9 DEF WriterStep

\* The inductive invariant holds in every reachable state of the two threads.
THEOREM Invariance == Spec => []IInv
<1>1. IInv /\ UNCHANGED vars => IInv'
  BY DEF IInv, TypeOK, NoReallocation, Handshake, Contents, Settled,
         Unwritten, StreamConserved, vars, buffers, flags, resource, producer,
         writer, history
<1>2. IInv /\ [Next]_vars => IInv'
  BY <1>1, ProducerKeepsIInv, WriterKeepsIInv DEF Next
<1>3. QED
  BY <1>2, InitIInv, PTL DEF Spec

\* The types of all variables, for every record size, buffer size and bound.
THEOREM TypeCorrect == Spec => []TypeOK
BY Invariance, PTL DEF IInv

\* While writeToFile() works on its batch, write() and the swap in flush()
\* never touch it.
THEOREM DisjointBuffers == Spec => []BuffersDisjoint
<1>1. IInv => BuffersDisjoint
  BY DEF IInv, Handshake, BuffersDisjoint
<1>2. QED
  BY <1>1, Invariance, PTL

\* The vectors never outgrow what the constructor reserved.
THEOREM WithinReserve == Spec => []NoReallocation
BY Invariance, PTL DEF IInv

\* No accepted byte is lost or kept twice.
THEOREM NoByteLost == Spec => []StreamConserved
<1>1. IInv => StreamConserved
  BY DEF IInv, Contents
<1>2. QED
  BY <1>1, Invariance, PTL

\* A ::write that takes n bytes of the batch persists the next n bytes of the
\* stream.
LEMMA WriteSomePersists == IInv /\ WriteSome => Log!Persist
<1> SUFFICES ASSUME IInv, WriteSome
             PROVE  Log!Persist
  OBVIOUS
<1> DEFINE size == Len(vec[nxt])
           batch == vec[nxt]
           rest(n) == SubSeq(batch, written + 1, written + n)
           next(n) == [i \in 1..n |-> Len(file) + dropped + i]
<1>1. /\ target = nxt /\ batch \in Seq(Nat) /\ size \in Nat
      /\ written \in Nat /\ written < size
      /\ Len(file) \in Nat /\ dropped \in Nat /\ Len(vec[cur]) \in Nat
      /\ UNCHANGED <<accepted, dropped>>
  BY DEF IInv, TypeOK, Handshake, Contents, WriteSome
<1>2. PICK n \in 1..(size - written) : file' = file \o rest(n)
  BY <1>1 DEF WriteSome
<1>3. n \in Nat /\ 1 <= n /\ written + n <= size
  BY <1>1, <1>2
<1>4. Unwritten = size - written
  BY <1>1 DEF WriteSome, Unwritten
<1>5. \A j \in 1..size : batch[j] = (Settled + Unwritten) - size + j
  BY DEF IInv, Contents, WriteSome
<1>6. n \in 1..Log!Outstanding
  <2> DEFINE c == Len(vec[cur])
             u == size - written
  <2>1. accepted = Len(file) + dropped + u + c
    BY <1>4 DEF IInv, Contents, StreamConserved
  <2>2. u \in Nat /\ c \in Nat /\ n <= u
    BY <1>1, <1>3
  <2> HIDE DEF u, c
  <2>3. QED
    BY <1>1, <1>3, <2>1, <2>2 DEF Log!Outstanding
<1>7. rest(n) = next(n)
  <2>1. rest(n) \in Seq(Nat) /\ Len(rest(n)) = n
    BY <1>1, <1>3
  <2>2. \A i \in 1..n : rest(n)[i] = batch[written + i]
    BY <1>1, <1>3
  <2>3. ASSUME NEW i \in 1..n
        PROVE  batch[written + i] = Len(file) + dropped + i
    <3>1. written + i \in 1..size
      BY <1>1, <1>3
    <3>2. batch[written + i] = (Settled + Unwritten) - size + (written + i)
      BY <1>5, <3>1
    <3> HIDE DEF size, batch
    <3>3. QED
      BY <1>1, <1>3, <1>4, <3>2 DEF Settled
  <2>4. next(n) \in Seq(Nat) /\ Len(next(n)) = n
    BY <1>1, <1>3
  <2>5. \A i \in 1..n : rest(n)[i] = next(n)[i]
    BY <2>2, <2>3
  <2> HIDE DEF rest, batch, next
  <2>6. QED
    BY <1>3, <2>1, <2>4, <2>5
<1>8. QED
  BY <1>1, <1>2, <1>6, <1>7 DEF Log!Persist

\* A failed ::write gives up the rest of the batch.
LEMMA WriteFailsGivesUp == IInv /\ WriteFails => Log!GiveUp
<1> SUFFICES ASSUME IInv, WriteFails
             PROVE  Log!GiveUp
  OBVIOUS
<1> DEFINE n == Len(vec[target]) - written
           c == Len(vec[cur])
<1>1. /\ n \in Nat /\ 1 <= n /\ Unwritten = n /\ c \in Nat
      /\ Len(file) \in Nat /\ dropped \in Nat
  BY DEF IInv, TypeOK, Contents, WriteFails, Unwritten
<1>2. dropped' = dropped + n /\ UNCHANGED <<file, accepted>>
  BY DEF WriteFails
<1>3. accepted = Len(file) + dropped + n + c
  BY <1>1 DEF IInv, Contents, StreamConserved
<1> HIDE DEF n, c
<1>4. n \in 1..Log!Outstanding
  BY <1>1, <1>3 DEF Log!Outstanding
<1>5. QED
  BY <1>2, <1>4 DEF Log!GiveUp

\* The double buffer implements the append-only log: write() accepts a record,
\* ::write persists or gives up the oldest bytes, and no other step of either
\* thread is visible.
THEOREM Refinement == Spec => ImplementsAppendLog
<1>1. Init => Log!Init
  BY DEF Init, Log!Init
<1>2. IInv /\ [Next]_vars => [Log!Next]_(Log!vars)
  <2> SUFFICES ASSUME IInv, [Next]_vars
               PROVE  Log!Next \/ UNCHANGED Log!vars
    BY DEF Log!vars
  <2> USE DEF history, Log!vars
  <2>1. ASSUME NEW elapsed \in BOOLEAN, Write(elapsed)
        PROVE  Log!Next
    BY <2>1 DEF Write, Log!Next, Log!Accept
  <2>2. ASSUME NEW elapsed \in BOOLEAN, Poll(elapsed)
        PROVE  UNCHANGED Log!vars
    BY <2>2 DEF Poll
  <2>3. CASE WriteRejected \/ Flush \/ Destroy
    BY <2>3 DEF WriteRejected, Flush, Destroy
  <2>4. CASE ProducerStep
    BY <2>4 DEF ProducerStep, FlushRefused, FlushBegin, FlushSwap, FlushSignal,
                CloseFile, FreeBuffers, RequestStop, Join
  <2>5. CASE WriteSome
    BY <2>5, WriteSomePersists DEF Log!Next
  <2>6. CASE WriteFails
    BY <2>6, WriteFailsGivesUp DEF Log!Next
  <2>7. CASE LoopTest \/ WaitForData \/ LoadTarget
    BY <2>7 DEF LoopTest, WaitForData, LoadTarget
  <2>8. CASE ResizeTarget \/ ClearWriting \/ ClearData \/ CheckExit
    BY <2>8 DEF ResizeTarget, ClearWriting, ClearData, CheckExit
  <2>9. CASE UNCHANGED vars
    BY <2>9 DEF vars
  <2>10. QED
    BY <2>1, <2>2, <2>3, <2>4, <2>5, <2>6, <2>7, <2>8, <2>9
       DEF Next, UserCall, WriterStep
<1>3. QED
  BY <1>1, <1>2, Invariance, PTL DEF Spec, ImplementsAppendLog, Log!Spec

\* The theorems about the append-only log hold of the log that the double
\* buffer implements.
Abstract == INSTANCE AppendLogProofs

\* For every size: the file holds bytes of the stream in order, none twice, and
\* is a prefix of the stream as long as no ::write failed.
THEOREM FileAlwaysInOrder == Spec => []FileInOrder
<1>1. Abstract!Sizes
  BY LogStructAssumption DEF Abstract!Sizes
<1>2. Abstract!Spec => []Abstract!InOrder
  BY <1>1, Abstract!AppendLogInOrder
<1>3. Log!Spec <=> Abstract!Spec
  BY DEF Log!Spec, Abstract!Spec, Log!Init, Abstract!Init, Log!Next,
         Abstract!Next, Log!vars, Abstract!vars, Log!Accept, Abstract!Accept,
         Log!Persist, Abstract!Persist, Log!GiveUp, Abstract!GiveUp,
         Log!Outstanding, Abstract!Outstanding
<1>4. Abstract!InOrder <=> FileInOrder
  BY DEF Abstract!InOrder, FileInOrder, Log!InOrder
<1>5. QED
  BY <1>2, <1>3, <1>4, Refinement, PTL DEF ImplementsAppendLog
=============================================================================
