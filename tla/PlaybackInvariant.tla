--------------------------- MODULE PlaybackInvariant ---------------------------
(***************************************************************************)
(* Why downstream plays what the segment says in pull mode: the inductive  *)
(* invariant, on top of PullInv, from which TypeOK, SamplesInPlace,        *)
(* BuffersFollowSegment, EosMeansAllPlayed and the safety half of          *)
(* ImplementsSeekContract follow.                                          *)
(***************************************************************************)
EXTENDS DsdMediaPullInvariant

\* A thread that has moved the fields, and has not told downstream yet.
Moving(t) == seeker[t].moved /\ seeker[t].place \in {"stop_up", "stop_down", "segment"}

FieldsTyped ==
  /\ payload \in Payloads
  /\ parse_stage \in {"ScanningInfo", "Streaming", "StreamFailure"} /\ flushing \in BOOLEAN
  /\ segment \in [start : -1 .. Duration, position : -1 .. Duration, stop : NoStop .. Duration]
  /\ task \in {"started", "paused"} /\ stream_lock \in Seekers \cup {"task", "flusher", Nobody}
  /\ pc \in {"scan", "announce", "top", "produce", "push"}
  /\ next_buffer_is_discont \in BOOLEAN
  /\ num_seeks \in 0 .. MaxSeeks /\ num_flushes \in Nat
  /\ flusher # "idle" => num_flushes # 0

\* What downstream has heard is numbers, and no index past the last whole block group.
HeardTyped ==
  /\ downstream.seqnum \in Int /\ downstream.start \in Int
  /\ downstream.stop \in NoStop .. Duration
  /\ downstream.first \in {NoIndex} \cup 0 .. WholeGroups
  /\ downstream.next \in {NoIndex} \cup 1 .. WholeGroups

\* Position, index and segment belong together, except for the scan.
PositionInv ==
  /\ pc = "scan" <=> parse_stage = "ScanningInfo"
  /\ byte_position \in PayloadPosition .. EndOfPayload
  /\ current_index \in 0 .. TotalNumIndices
  /\ pc # "scan" =>
       /\ byte_position = PayloadPosition + BytesOf(current_index)
       /\ segment.start >= 0 /\ segment.position >= 0
       /\ segment.start <= TimeOf(current_index + 1)
       /\ current_seqnum = accepted

\* Until the first segment is announced, nothing has moved.
StartInv ==
  /\ pc \in {"scan", "announce"} =>
       /\ current_index = 0 /\ next_buffer_is_discont /\ accepted = FirstSeqnum
       /\ downstream.seqnum = NoSeqnum
  /\ pc = "announce" => segment.start = 0

\* The buffer that the task holds is the one before the index.
OutputInv ==
  pc = "push" =>
    /\ output_buffer.index \in Nat /\ output_buffer.discont \in BOOLEAN
    /\ current_index = output_buffer.index + 1 /\ ~next_buffer_is_discont
    /\ current_index <= WholeGroups
    /\ SamplesInPlace

\* A thread moves the fields only with the stream lock and after it has flushed both sides, so
\* that downstream is silent when it is told of the new segment.
MovingInv ==
  \A t \in Seekers :
    /\ seeker[t].place \in {"flush_up", "flush_down"} => ~seeker[t].moved
    /\ seeker[t].place \in {"pause", "lock", "locked"} =>
         ~seeker[t].moved /\ seeker[t].up /\ seeker[t].down
    /\ seeker[t].moved /\ seeker[t].place \in {"stop_up", "stop_down", "segment", "restart"} =>
         stream_lock = t /\ seeker[t].up /\ seeker[t].down
    /\ Moving(t) =>
         /\ next_buffer_is_discont /\ TimeOf(current_index) <= segment.start
         /\ current_seqnum = seeker[t].seqnum
         /\ At(t, "segment") => downstream.seqnum = NoSeqnum /\ ~downstream.eos

\* A segment's first buffer is the one at its start.
Begins(index) ==
  /\ num_flushes = 0 => TimeOf(index) <= downstream.start
  /\ downstream.start <= TimeOf(index + 1)

\* What downstream expects next is what the task has in hand, or produces next.
InStep ==
  /\ downstream.start = segment.start /\ downstream.stop = segment.stop
  /\ IF downstream.next = NoIndex
     THEN IF pc = "push" THEN output_buffer.discont /\ Begins(output_buffer.index)
                         ELSE next_buffer_is_discont /\ Begins(current_index)
     ELSE IF pc = "push" THEN ~output_buffer.discont /\ output_buffer.index = downstream.next
                         ELSE ~next_buffer_is_discont /\ current_index = downstream.next

HeardInv ==
  (/\ downstream.seqnum # NoSeqnum /\ ~downstream.flushing /\ ~downstream.eos
   /\ \A t \in Seekers : ~Moving(t)) => InStep

\* Every seek has a seqnum of its own.
SeqnumInv ==
  /\ accepted \in 0 .. num_seeks
  /\ \A t \in Seekers : ~At(t, "idle") => seeker[t].seqnum \in 1 .. num_seeks
  /\ \A t \in Seekers :
       seeker[t].place \in {"flush_up", "flush_down", "pause", "lock", "locked"} =>
         seeker[t].seqnum # accepted
  /\ \A t, other \in Seekers :
       ~At(t, "idle") /\ ~At(other, "idle") /\ seeker[t].seqnum = seeker[other].seqnum => t = other

\* When nothing is refused and nobody else flushes, downstream only has no segment when it is about
\* to get one.
NoFaults == MaxFlushes = 0 /\ ~SeeksMayFail /\ ~FlushesMayFail

SegmentInv ==
  NoFaults =>
    /\ flusher = "idle"
    /\ \A t \in Seekers : At(t, "flush_down") => seeker[t].up
    /\ \A t \in Seekers : seeker[t].place \in {"stop_up", "stop_down", "segment"} => seeker[t].moved
    /\ downstream.seqnum = NoSeqnum =>
         downstream.flushing \/ pc \in {"scan", "announce"} \/ \E t \in Seekers : Moving(t)

\* However seeks, flushes and refusals interleave with the loop, the fields of the loop belong
\* together, and what the task pushes next is what the segment makes downstream expect.
PlaybackInv ==
  /\ PullInv /\ FieldsTyped /\ HeardTyped /\ PositionInv /\ StartInv /\ OutputInv
  /\ MovingInv /\ HeardInv /\ SeqnumInv /\ SegmentInv

===============================================================================
