-------------------------- MODULE DsdMediaPushInvariant --------------------------
(***************************************************************************)
(* Why push mode plays what the segment says: the inductive invariant from *)
(* which the properties of DsdMediaPush follow.  Its parts need more and   *)
(* more quiet: the first five hold whoever seeks and flushes, SyncInv when *)
(* only one thread seeks, and the others when nobody else flushes either.  *)
(***************************************************************************)
EXTENDS DsdMediaPush

Stages == {"ScanningInfo", "AwaitingSegment", "Streaming", "StreamFailure"}

FieldsTyped ==
  /\ upstream_is_seekable \in BOOLEAN /\ parse_stage \in Stages
  /\ flushing \in BOOLEAN /\ expecting_upstream_segment \in BOOLEAN
  /\ internal_seek_seqnum \in {NoSeqnum, InternalSeqnum}
  /\ pending \in [position : 0 .. EndOfPayload, index : 0 .. TotalIndices,
                  seqnum : {NoSeqnum} \cup InternalSeqnum .. MaxSeeks, start : 0 .. Duration, bootstrapping : BOOLEAN]
  /\ segment_start \in 0 .. Duration /\ current_seqnum \in FlushSeqnum .. MaxSeeks
  /\ next_buffer_is_discont \in BOOLEAN
  /\ input_adapter \in Seq(0 .. MediumSize - 1)
  /\ byte_position \in 0 .. MediumSize - 1 /\ current_index \in Nat
  /\ pc \in Places /\ flow_ret \in {"OK", "EOS", "FLUSHING", "ERROR"}
  /\ output_buffer \in [index : Nat, data : Seq(0 .. MediumSize - 1), discont : BOOLEAN]
  /\ Len(output_buffer.data) % FrameSize = 0
  /\ sink_segment \in [seqnum : Int, start : Nat, index : 0 .. TotalIndices,
                       return : {"source", "in_seek", "loop"}]

PartiesTyped ==
  /\ upstream \in [position : 0 .. MediumSize, state : {"playing", "draining", "eos"}]
  /\ job \in [phase : {"none", "requested", "forwarding", "flushing", "flushed"},
              seqnum : NoSeqnum .. MaxSeeks, start : 0 .. EndOfPayload]
  /\ downstream \in [flushing : BOOLEAN, seqnum : Int, start : Int, first : Int, next : Int, eos : BOOLEAN]
  /\ seeker \in [Seekers -> [place : {"idle", "checked", "pushing"}, seqnum : NoSeqnum .. MaxSeeks,
                             position : 0 .. EndOfPayload]]
  /\ num_seeks \in 0 .. MaxSeeks /\ num_flushes \in 0 .. MaxFlushes
  /\ accepted \in {NoSeqnum} \cup 1 .. MaxSeeks

\* The stages and the places of the streaming thread, the position, and who is in a flush.
PlacesInv ==
  /\ parse_stage = "Streaming" \/ pc \in {"adopt", "resume", "produce"} =>
       byte_position \in PayloadPosition .. EndOfPayload
  /\ parse_stage = "AwaitingSegment" \/ pc = "adopt" => pending.seqnum # NoSeqnum
  /\ pending.seqnum # NoSeqnum => pending.position >= PayloadPosition
  /\ pc \in {"adopt", "resume"} => parse_stage \in {"AwaitingSegment", "StreamFailure"}
  /\ job.phase = "none" <=> job.seqnum = NoSeqnum
  /\ flushing => job.phase \in {"forwarding", "flushing"}
  /\ downstream.flushing => job.phase = "flushing"
  /\ \A t \in Seekers : seeker[t].place # "idle" => seeker[t].seqnum \in 1 .. num_seeks

\* What the adapter holds is what upstream has sent last, except while buffers are refused.
AdapterInv ==
  /\ ~flushing /\ ~expecting_upstream_segment =>
       \A k \in 1 .. Len(input_adapter) : input_adapter[k] = upstream.position - Len(input_adapter) + k - 1
  /\ job.phase = "flushed" =>
       input_adapter = << >> /\ pc \in {"source", "in_seek", "loop"} /\ downstream = Silent
  /\ pc \in {"adopt", "resume", "adopt_own"} => input_adapter = << >>

\* The seek that ends the scan comes before everything else.
InternalSeekInv ==
  /\ parse_stage = "ScanningInfo" \/ pc = "scan" =>
       /\ parse_stage = "ScanningInfo" /\ pc = "scan" /\ job.phase = "none"
       /\ downstream = Silent /\ accepted = NoSeqnum
       /\ \A t \in Seekers : seeker[t].place = "idle"
  /\ job.seqnum = InternalSeqnum =>
       /\ internal_seek_seqnum = InternalSeqnum /\ ~flushing /\ downstream = Silent
       /\ parse_stage \in {"AwaitingSegment", "StreamFailure"} /\ job.phase # "forwarding"
       /\ pc \in {"source", "enter", "loop", "dispatched", "in_seek"}

\* A second seek can be checked before the first one is accepted, and write the pending_* fields
\* after that; a single thread's seeks come one after the other.
SingleSeeker == \A s, t \in Seekers : s = t

InSync(index) == byte_position = PayloadPosition + index * FrameSize

\* Position and index, which are set one after the other, belong together.
SyncInv ==
  /\ \A t \in Seekers :
       seeker[t].place = "checked" => pc \notin {"adopt", "resume"} /\ parse_stage # "AwaitingSegment"
  /\ parse_stage = "AwaitingSegment" \/ pc = "adopt" =>
       pending.position = PayloadPosition + pending.index * FrameSize
  /\ pc = "adopt" => InSync(pending.index)
  /\ pc = "resume" => InSync(sink_segment.index)
  /\ parse_stage = "Streaming" \/ pc \in {"produce", "push"} => InSync(current_index)
  /\ current_index \in 0 .. TotalIndices
  /\ output_buffer.index + Len(output_buffer.data) \div FrameSize \in 0 .. TotalIndices

Undisturbed == SingleSeeker /\ MaxFlushes = 0

\* While nobody seeks, nothing stands between upstream and the position.
StreamInv ==
  /\ job.seqnum # FlushSeqnum /\ pc # "adopt_own"
  /\ parse_stage = "Streaming" => job.phase = "none" /\ ~expecting_upstream_segment
  /\ \A t \in Seekers :
       seeker[t].place = "pushing" =>
         job.phase = "none" /\ parse_stage # "Streaming" /\ pc \notin {"adopt", "resume"}
  /\ pc \in {"adopt", "resume"} =>
       /\ job.phase = "none" /\ parse_stage = "AwaitingSegment"
       /\ upstream.state = "playing" /\ input_adapter = << >>
  /\ pc = "resume" => ~expecting_upstream_segment
  /\ parse_stage = "Streaming" \/ pc \in {"adopt", "resume"} =>
       byte_position = upstream.position - Len(input_adapter)
  /\ BuffersMatchTimestamps

\* The segment starts at the index, or before the next one, if there is one.
Begins(start, index) ==
  TimeOf(index) <= start /\ (index < TotalIndices => start <= TimeOf(index + 1))

\* What is announced is what was asked for.
SegmentInv ==
  /\ parse_stage = "AwaitingSegment" \/ pc = "adopt" =>
       /\ pending.seqnum = (IF accepted = NoSeqnum THEN InternalSeqnum ELSE accepted)
       /\ Begins(pending.start, pending.index)
  /\ pending.bootstrapping => pending.start = 0
  /\ pc = "resume" => next_buffer_is_discont /\ Begins(segment_start, sink_segment.index)
  /\ pc = "announce" => next_buffer_is_discont /\ Begins(segment_start, current_index)
  /\ current_seqnum >= InternalSeqnum
  /\ accepted <= num_seeks
  /\ \A t \in Seekers : seeker[t].place = "checked" => seeker[t].seqnum > accepted

\* What downstream expects next is what the thread has in hand, or produces next.
InStep ==
  IF downstream.next = NoIndex
  THEN IF pc = "push" THEN output_buffer.discont /\ Begins(downstream.start, output_buffer.index)
                      ELSE next_buffer_is_discont /\ Begins(downstream.start, current_index)
  ELSE IF pc = "push" THEN ~output_buffer.discont /\ output_buffer.index = downstream.next
                      ELSE ~next_buffer_is_discont /\ current_index = downstream.next

HeardInv ==
  /\ pc \in {"adopt", "resume", "announce"} =>
       downstream.seqnum = NoSeqnum /\ downstream.next = NoIndex /\ ~downstream.eos
  /\ (parse_stage = "Streaming" /\ pc # "announce") \/ pc \in {"produce", "push"} =>
       downstream.seqnum # NoSeqnum /\ InStep
  /\ pc = "push" =>
       /\ current_index = output_buffer.index + Len(output_buffer.data) \div FrameSize
       /\ Len(output_buffer.data) > 0 /\ ~next_buffer_is_discont
  /\ downstream.seqnum # FlushSeqnum

\* The thread only stops at the end of the payload, or for more input.
EndInv ==
  /\ downstream.eos => upstream.state = "eos"
  /\ upstream.state = "eos" => pc = "source"
  /\ parse_stage = "Streaming" /\ upstream.state # "playing" => pc = "source" /\ current_index = TotalIndices
  /\ pc = "announce" /\ sink_segment.return # "loop" => input_adapter = << >>
  /\ parse_stage = "Streaming" /\ pc = "source" /\ upstream.state = "playing" =>
       \/ input_adapter = << >>
       \/ Len(input_adapter) < NumIndicesInBuffer(EndOfPayload - byte_position) * FrameSize

\* gst_dsd_media_parse_sink_chain(), _sink_event() and seek_in_push_mode(): the three threads that
\* write the element's fields keep them in their ranges, whoever seeks and flushes; while one
\* thread seeks, position and index name the same byte; and while nobody else flushes, upstream,
\* adapter, position, segment and what downstream has heard go together at every step.
PushInv ==
  /\ FieldsTyped /\ PartiesTyped /\ PlacesInv /\ AdapterInv /\ InternalSeekInv
  /\ SingleSeeker => SyncInv
  /\ Undisturbed => StreamInv /\ SegmentInv /\ HeardInv /\ EndInv

===============================================================================
