-------------------------- MODULE RelativePointer --------------------------
(***************************************************************************)
(* 003.relative_pointer: roudi creates shared-memory segments, senders     *)
(* store a number in a data segment and announce its place (segment id and *)
(* offset) in the control segment, and a receiver polls for such messages. *)
(*                                                                         *)
(* Addresses differ between the processes; what each of them shares is the *)
(* place, and the registry of a process says which segments it has mapped. *)
(* Segment 0 is the control segment.  A sender stores its own name.        *)
(***************************************************************************)
EXTENDS Integers, SequencesExt

CONSTANTS Senders,      \* sender processes, positive numbers
          DataSegs,     \* NUM_DATA_SEGMENTS
          SegSize,      \* DATA_SEGMENT_SIZE
          Arguments     \* command lines: records of index, offset and zero

Receiver  == 0
Processes == Senders \cup {Receiver}
Segments  == 0..DataSegs
Word      == 8

VARIABLES rpc,        \* where roudi is
          names,      \* segments that shm_open() finds
          pc,         \* where each process is
          registry,   \* segments that it has mapped
          arg,        \* arguments of each sender
          ready, segment_id, offset,   \* ControlMessage
          data,       \* words of the data segments
          seg_id, off,                 \* locals of the receiver
          published,  \* history: places announced
          received,   \* history: places and values that the receiver read
          overlap     \* history: two senders used the control segment at once

control == <<ready, segment_id, offset>>
locals  == <<seg_id, off>>
history == <<published, received, overlap>>
vars    == <<rpc, names, pc, registry, arg, control, data, locals, history>>

Places == (1..DataSegs) \X {n \in 0..(SegSize - Word) : n % Word = 0}
Nothing == 0

Init ==
    /\ rpc = "create"
    /\ names = {}
    /\ pc = [p \in Processes |-> "start"]
    /\ registry = [p \in Processes |-> {}]
    /\ arg \in [Senders -> Arguments]
    /\ ready = 0 /\ segment_id = 0 /\ offset = 0
    /\ data = [x \in Places |-> Nothing]
    /\ seg_id = 0 /\ off = 0
    /\ published = <<>> /\ received = <<>>
    /\ overlap = FALSE

GoTo(p, at) == pc' = [pc EXCEPT ![p] = at]

-----------------------------------------------------------------------------
(* roudi                                                                   *)

\* createSegment() of the next segment; after the last one roudi listens.
CreateSegment ==
    /\ rpc = "create"
    /\ \E i \in Segments \ names :
         /\ \A j \in Segments \ names : i <= j
         /\ names' = names \cup {i}
    /\ rpc' = IF names' = Segments THEN "accept" ELSE "create"
    /\ UNCHANGED <<pc, registry, arg, control, data, locals, history>>

\* A signal, or a call that fails while roudi starts: what is mapped stays.
Cleanup ==
    /\ rpc # "gone"
    /\ names' = {}
    /\ rpc' = "gone"
    /\ UNCHANGED <<pc, registry, arg, control, data, locals, history>>

-----------------------------------------------------------------------------
(* What sender and receiver begin with                                     *)

\* The command line of a sender is refused.  The index counts data segments
\* from 0, the id from 1.
Id(a)      == a.index + 1
Place(s)   == <<Id(arg[s]), arg[s].offset>>
Refused(a) == \/ a.zero
              \/ a.offset % Word # 0
              \/ a.index >= DataSegs
              \/ a.offset + Word > SegSize

\* getSegmentsFromRoudi(): nobody accepts, or all segments are listed.  A
\* sender looks at its arguments before and after.
GetSegments(p) ==
    /\ pc[p] = "start"
    /\ IF rpc # "accept" \/ (p \in Senders /\ Refused(arg[p]))
       THEN GoTo(p, "failed")
       ELSE GoTo(p, "map")
    /\ UNCHANGED <<rpc, names, registry, arg, control, data, locals, history>>

\* shm_open() and mmap() of the next segment; either may fail.
MapSegment(p) ==
    /\ pc[p] = "map"
    /\ \E i \in Segments \ registry[p] :
         /\ \A j \in Segments \ registry[p] : i <= j
         /\ \/ /\ i \in names
               /\ registry' = [registry EXCEPT ![p] = @ \cup {i}]
               /\ IF registry'[p] = Segments
                  THEN GoTo(p, IF p = Receiver THEN "poll" ELSE "store")
                  ELSE UNCHANGED pc
            \/ GoTo(p, "failed") /\ UNCHANGED registry
    /\ UNCHANGED <<rpc, names, arg, control, data, locals, history>>

-----------------------------------------------------------------------------
(* Sender                                                                  *)

\* Fault: the index is taken for the id.
StoreData_Index(s) ==
    /\ pc[s] = "store"
    /\ data' = [x \in Places |->
                  IF x = <<arg[s].index, arg[s].offset>> THEN s ELSE data[x]]
    /\ GoTo(s, "check")
    /\ UNCHANGED <<rpc, names, registry, arg, control, locals, history>>

StoreData(s) ==
    /\ pc[s] = "store"
    /\ data' = [data EXCEPT ![Place(s)] = s]
    /\ GoTo(s, "check")
    /\ UNCHANGED <<rpc, names, registry, arg, control, locals, history>>

Sending(s) == pc[s] \in {"segment_id", "offset", "publish"}

\* Fault: the sender does not wait for the previous message to be taken.
CheckReady_NoWait(s) ==
    /\ pc[s] = "check"
    /\ GoTo(s, "segment_id")
    /\ overlap' = (overlap \/ \E t \in Senders : Sending(t))
    /\ UNCHANGED <<rpc, names, registry, arg, control, data, locals,
                   published, received>>

\* The compare_exchange of 0 with 0 claims nothing: another sender may pass.
CheckReady(s) ==
    /\ pc[s] = "check"
    /\ ready = 0
    /\ GoTo(s, "segment_id")
    /\ overlap' = (overlap \/ \E t \in Senders : Sending(t))
    /\ UNCHANGED <<rpc, names, registry, arg, control, data, locals,
                   published, received>>

WriteSegmentId(s) ==
    /\ pc[s] = "segment_id"
    /\ segment_id' = Id(arg[s])
    /\ GoTo(s, "offset")
    /\ UNCHANGED <<rpc, names, registry, arg, ready, offset, data, locals, history>>

WriteOffset(s) ==
    /\ pc[s] = "offset"
    /\ offset' = arg[s].offset
    /\ GoTo(s, "publish")
    /\ UNCHANGED <<rpc, names, registry, arg, ready, segment_id, data, locals, history>>

Publish(s) ==
    /\ pc[s] = "publish"
    /\ ready' = 1
    /\ published' = Append(published, Place(s))
    /\ GoTo(s, "done")
    /\ UNCHANGED <<rpc, names, registry, arg, segment_id, offset, data, locals,
                   received, overlap>>

Send(s) ==
    \/ GetSegments(s) \/ MapSegment(s) \/ StoreData(s) \/ CheckReady(s)
    \/ WriteSegmentId(s) \/ WriteOffset(s) \/ Publish(s)

-----------------------------------------------------------------------------
(* Receiver                                                                *)

Poll ==
    /\ pc[Receiver] = "poll"
    /\ ready # 0
    /\ GoTo(Receiver, "read_id")
    /\ UNCHANGED <<rpc, names, registry, arg, control, data, locals, history>>

ReadSegmentId ==
    /\ pc[Receiver] = "read_id"
    /\ seg_id' = segment_id
    /\ GoTo(Receiver, "read_offset")
    /\ UNCHANGED <<rpc, names, registry, arg, control, data, off, history>>

ReadOffset ==
    /\ pc[Receiver] = "read_offset"
    /\ off' = offset
    /\ GoTo(Receiver, "load")
    /\ UNCHANGED <<rpc, names, registry, arg, control, data, seg_id, history>>

\* The word at a place: RelativePointer::get(), and the load.
WordAt(i, n) ==
    CASE i # 0 -> data[<<i, n>>]
      [] i = 0 /\ n = 0 -> ready
      [] i = 0 /\ n = Word -> segment_id
      [] i = 0 /\ n = 2 * Word -> offset
      [] OTHER -> Nothing

\* A segment that the registry does not know is reported and skipped.
LoadData ==
    /\ pc[Receiver] = "load"
    /\ received' = IF seg_id \in registry[Receiver]
                   THEN Append(received, [place |-> <<seg_id, off>>,
                                          value |-> WordAt(seg_id, off)])
                   ELSE received
    /\ GoTo(Receiver, "clear_id")
    /\ UNCHANGED <<rpc, names, registry, arg, control, data, locals,
                   published, overlap>>

\* Fault: ready is cleared first.
ClearSegmentId_ReadyFirst ==
    /\ pc[Receiver] = "clear_id"
    /\ segment_id' = 0
    /\ ready' = 0
    /\ GoTo(Receiver, "clear_offset")
    /\ UNCHANGED <<rpc, names, registry, arg, offset, data, locals, history>>

ClearSegmentId ==
    /\ pc[Receiver] = "clear_id"
    /\ segment_id' = 0
    /\ GoTo(Receiver, "clear_offset")
    /\ UNCHANGED <<rpc, names, registry, arg, ready, offset, data, locals, history>>

ClearOffset ==
    /\ pc[Receiver] = "clear_offset"
    /\ offset' = 0
    /\ GoTo(Receiver, "clear_ready")
    /\ UNCHANGED <<rpc, names, registry, arg, ready, segment_id, data, locals, history>>

ClearReady ==
    /\ pc[Receiver] = "clear_ready"
    /\ ready' = 0
    /\ GoTo(Receiver, "poll")
    /\ UNCHANGED <<rpc, names, registry, arg, segment_id, offset, data, locals, history>>

Receive ==
    \/ GetSegments(Receiver) \/ MapSegment(Receiver) \/ Poll \/ ReadSegmentId
    \/ ReadOffset \/ LoadData \/ ClearSegmentId \/ ClearOffset \/ ClearReady

Next ==
    \/ CreateSegment \/ Cleanup
    \/ \E s \in Senders : Send(s)
    \/ Receive

-----------------------------------------------------------------------------
(* Correctness                                                             *)

Receiving == pc[Receiver] \notin {"start", "map", "failed"}

\* Messages arrive whole, once and in order, as long as no two senders use the
\* control segment at once: a sender that sees ready = 0 finds a control
\* segment that the receiver no longer clears.
MessagesWhole ==
    ~overlap => /\ Len(received) <= Len(published)
                /\ \A i \in 1..Len(received) : received[i].place = published[i]

\* With the message arrives its data: the value is that of a sender to this
\* place (not necessarily of the message's own, since a later sender stores
\* before it waits for the control segment).
DataBeforeMessage ==
    ~overlap => \A i \in 1..Len(received) :
                  received[i].value \in {s \in Senders : Place(s) = received[i].place}

\* A published message is received, also when roudi is gone by then.
MessagesArrive ==
    \A n \in Senders :
      (Receiving /\ Len(published) >= n) ~> (overlap \/ Len(received) >= n)

=============================================================================
