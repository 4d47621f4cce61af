----------------------------- MODULE DsdMediaPush -----------------------------
(***************************************************************************)
(* GstDsdMediaParse in push mode from the end of the scan on: the chain    *)
(* function in the Streaming stage, the segment, flush and EOS events of   *)
(* upstream, and the seeks of application threads (gstdsdmediaparse.cpp),  *)
(* with GstDFFParse's produce_output() and index conversions.              *)
(*                                                                         *)
(* Three kinds of process: the streaming thread, which holds the stream    *)
(* lock except when it is in upstream's own code (pc = "source"); seeking  *)
(* threads; and whoever performs a seek or a flush for upstream (job): the *)
(* thread that asked for it, or upstream's own.  A critical section of     *)
(* field_mutex is one action; what lies between two of them is not.        *)
(*                                                                         *)
(* Positions are bytes and times are in units of which SampleRate indices  *)
(* last Second.  A seek has no stop value, and a flush resets the running  *)
(* time.                                                                   *)
(***************************************************************************)
EXTENDS Integers, Sequences

CONSTANTS
  FrameSize,        \* num_channels: bytes per index
  SampleRate, Second,
  OutputBufferSize, \* output_buffer_size, a multiple of FrameSize
  PayloadPosition, PayloadSize, MediumSize,
  BufferSizes,      \* the sizes of the buffers upstream pushes
  SeekValues,       \* the values that seek events ask for
  Seekers,          \* the threads that seek
  MaxSeeks,         \* bound: seeks that pass the first check
  MaxFlushes,       \* bound: flushes that are not part of a seek
  MayDefer          \* upstream may defer the seek that ends the scan to another thread

ASSUME SizesAssumption ==
  /\ FrameSize \in Nat \ {0} /\ OutputBufferSize \in Nat \ {0}
  /\ OutputBufferSize % FrameSize = 0
  /\ SampleRate \in Nat \ {0} /\ Second \in Nat \ {0}
  /\ PayloadPosition \in Nat /\ PayloadSize \in Nat /\ PayloadSize >= FrameSize
  /\ MediumSize \in Nat /\ MediumSize > PayloadPosition + PayloadSize
  /\ BufferSizes \subseteq Nat \ {0} /\ SeekValues \subseteq Nat
  /\ MaxSeeks \in Nat /\ MaxFlushes \in Nat /\ MayDefer \in BOOLEAN

NoSeqnum       == -2
FlushSeqnum    == -1
InternalSeqnum == 0   \* the seek of scanning_finished(); external seeks count from 1
NoIndex        == -1
EndOfPayload   == PayloadPosition + PayloadSize
Least(a, b)    == IF a <= b THEN a ELSE b

VARIABLES
  upstream_is_seekable,
  \* fields of the element
  parse_stage, flushing, expecting_upstream_segment, internal_seek_seqnum,
  pending,            \* pending_seek_position, _index, _seqnum, _segment.start, _bootstrapping
  segment_start,      \* downstream_segment.start
  current_seqnum, next_buffer_is_discont,
  input_adapter,      \* the positions of the bytes it holds
  byte_position, current_index,
  \* the streaming thread
  pc, flow_ret,       \* flow_ret: what the chain function returned last
  output_buffer, sink_segment,
  \* upstream, downstream, and the seeking threads
  upstream, job, downstream, seeker, num_seeks, num_flushes,
  accepted            \* seqnum of the last seek that changed the stage

event_vars   == <<flushing, expecting_upstream_segment, internal_seek_seqnum>>
segment_vars == <<segment_start, current_seqnum>>
data_vars    == <<input_adapter, byte_position, current_index, next_buffer_is_discont>>
seek_vars    == <<pending, seeker, num_seeks, accepted>>
other_vars   == <<output_buffer, sink_segment, num_flushes, upstream_is_seekable>>
vars == <<parse_stage, event_vars, segment_vars, data_vars, seek_vars, other_vars,
          pc, flow_ret, upstream, job, downstream>>

\* source    in upstream's code
\* enter     in the chain function, which has not looked at its flags yet
\* loop, dispatched, produce, push   in the loop of the chain function
\* scan      in scan_info(), about to finish the scan; in_seek: in the seek that this issues
\* adopt, resume, adopt_own, announce   in the handler of a segment
Places == {"source", "enter", "loop", "dispatched", "produce", "push", "scan", "in_seek",
           "adopt", "resume", "adopt_own", "announce"}

\* gst_dffparse_to_index(), gst_dffparse_from_index(), and the duration.
TotalIndices == PayloadSize \div FrameSize
Duration     == (TotalIndices * Second + SampleRate - 1) \div SampleRate
TimeOf(index)  == Least((index * Second) \div SampleRate, Duration)
BytesOf(index) == Least(index * FrameSize, PayloadSize)
\* Mutant of ToIndex: rounds up.
ToIndexRoundingUp(format, value) ==
  Least(IF format = "BYTES" THEN (value + FrameSize - 1) \div FrameSize
                            ELSE (value * SampleRate + Second - 1) \div Second, TotalIndices)
ToIndex(format, value) ==
  Least(IF format = "BYTES" THEN value \div FrameSize
                            ELSE (value * SampleRate) \div Second, TotalIndices)

NoJob    == [phase |-> "none", seqnum |-> NoSeqnum, start |-> 0]
Silent   == [flushing |-> FALSE, seqnum |-> NoSeqnum, start |-> 0, first |-> NoIndex, next |-> NoIndex,
             eos |-> FALSE]
Bytes(first, n) == [k \in 1 .. n |-> first + k - 1]

-------------------------------------------------------------------------------
(***************************************************************************)
(* The scan has found the payload.  With a seekable upstream it stands     *)
(* past it and has to go back; otherwise report_payload_found() has just   *)
(* entered the Streaming stage and streaming is about to start.            *)
(***************************************************************************)

Init ==
  /\ upstream_is_seekable \in BOOLEAN
  /\ flushing = FALSE /\ expecting_upstream_segment = FALSE
  /\ internal_seek_seqnum = NoSeqnum
  /\ pending = [position |-> 0, index |-> 0, seqnum |-> NoSeqnum, start |-> 0, bootstrapping |-> FALSE]
  /\ segment_start = 0 /\ current_seqnum = InternalSeqnum
  /\ next_buffer_is_discont = TRUE /\ current_index = 0
  /\ flow_ret = "OK"
  /\ output_buffer = [index |-> 0, data |-> << >>, discont |-> FALSE]
  /\ sink_segment = [seqnum |-> NoSeqnum, start |-> 0, index |-> 0, return |-> "loop"]
  /\ IF upstream_is_seekable
     THEN /\ parse_stage = "ScanningInfo" /\ pc = "scan"
          /\ byte_position = MediumSize - 1
          /\ input_adapter \in {<< >>, << MediumSize - 1 >>}
     ELSE /\ parse_stage = "Streaming" /\ pc = "announce"
          /\ byte_position = PayloadPosition
          /\ input_adapter = << PayloadPosition >>
  /\ upstream = [position |-> byte_position + Len(input_adapter), state |-> "playing"]
  /\ job = NoJob
  /\ downstream = Silent
  /\ seeker = [t \in Seekers |-> [place |-> "idle", seqnum |-> NoSeqnum, position |-> 0]]
  /\ num_seeks = 0 /\ num_flushes = 0
  /\ accepted = NoSeqnum

\* gst_dsd_media_parse_stream_failed()
StreamFailed == parse_stage' = "StreamFailure"

\* gst_dsd_media_parse_scanning_finished(): the seek back to the payload.
ScanningFinished ==
  /\ pc = "scan"
  /\ job.phase = "none"
  /\ internal_seek_seqnum' = InternalSeqnum
  /\ expecting_upstream_segment' = TRUE
  /\ pending' = [position |-> PayloadPosition, index |-> 0, seqnum |-> InternalSeqnum,
                 start |-> 0, bootstrapping |-> TRUE]
  /\ \/ /\ parse_stage' = "AwaitingSegment"
        /\ job' = [phase |-> "requested", seqnum |-> InternalSeqnum, start |-> PayloadPosition]
        /\ pc' = "in_seek"
     \/ /\ StreamFailed \* upstream refuses
        /\ pc' = "loop"
        /\ UNCHANGED job
  /\ UNCHANGED <<flushing, segment_vars, data_vars, seeker, num_seeks, accepted, other_vars,
                 flow_ret, upstream, downstream>>

\* Mutant of InternalSeekReturns: the seqnum is withdrawn when the seek call returns.
InternalSeekReturnsWithdrawing ==
  /\ pc = "in_seek"
  /\ job.phase = "none" \/ MayDefer
  /\ pc' = "loop"
  /\ internal_seek_seqnum' = NoSeqnum
  /\ UNCHANGED <<parse_stage, flushing, expecting_upstream_segment, segment_vars, data_vars,
                 seek_vars, other_vars, flow_ret, upstream, job, downstream>>

\* The seek call returns, with the seek done or, if upstream defers it, at any time.
InternalSeekReturns ==
  /\ pc = "in_seek"
  /\ job.phase = "none" \/ MayDefer
  /\ pc' = "loop"
  /\ UNCHANGED <<parse_stage, event_vars, segment_vars, data_vars, seek_vars, other_vars,
                 flow_ret, upstream, job, downstream>>

-------------------------------------------------------------------------------
(***************************************************************************)
(* gst_dsd_media_parse_sink_chain(), in upstream's thread.                 *)
(***************************************************************************)

\* The chain function returns.  An end or an error makes upstream stop and send EOS.
Return(flow) ==
  /\ flow_ret' = flow
  /\ pc' = "source"
  /\ upstream' = [upstream EXCEPT !.state = IF flow \in {"EOS", "ERROR"} THEN "draining" ELSE @]

\* Upstream may call the chain function: the pad is not flushing and there is data left.
EnterChain ==
  /\ pc = "source" /\ job.phase \in {"none", "requested"}
  /\ upstream.state = "playing" /\ upstream.position < MediumSize
  /\ pc' = "enter"
  /\ UNCHANGED <<parse_stage, event_vars, segment_vars, data_vars, seek_vars, other_vars,
                 flow_ret, upstream, job, downstream>>

\* The first critical section and what follows from it, with a buffer of n bytes.
AcceptBuffer(n) ==
  LET size == Least(n, MediumSize - upstream.position)
      after == [upstream EXCEPT !.position = @ + size] IN
  /\ pc = "enter"
  /\ \/ /\ flushing
        /\ pc' = "source" /\ flow_ret' = "FLUSHING" /\ upstream' = after
        /\ UNCHANGED input_adapter
     \/ /\ ~flushing /\ expecting_upstream_segment
        /\ pc' = "source" /\ flow_ret' = "ERROR"
        /\ upstream' = [after EXCEPT !.state = "draining"]
        /\ UNCHANGED input_adapter
     \/ /\ ~flushing /\ ~expecting_upstream_segment
        /\ input_adapter' = input_adapter \o Bytes(upstream.position, size)
        /\ upstream' = after
        /\ pc' = "loop"
        /\ UNCHANGED flow_ret
  /\ UNCHANGED <<parse_stage, event_vars, segment_vars, byte_position, current_index,
                 next_buffer_is_discont, seek_vars, other_vars, job, downstream>>

\* The flushing flag is looked at again in every iteration.
StartIteration ==
  /\ pc = "loop"
  /\ \/ /\ flushing
        /\ Return("FLUSHING")
     \/ /\ ~flushing /\ input_adapter = << >>
        /\ Return("OK")
     \/ /\ ~flushing /\ input_adapter # << >>
        /\ pc' = "dispatched"
        /\ UNCHANGED <<flow_ret, upstream>>
  /\ UNCHANGED <<parse_stage, event_vars, segment_vars, data_vars, seek_vars, other_vars,
                 job, downstream>>

\* switch (get_parse_stage(priv))
Dispatch ==
  /\ pc = "dispatched"
  /\ \/ /\ parse_stage = "Streaming"
        /\ pc' = "produce"
        /\ UNCHANGED <<input_adapter, flow_ret, upstream>>
     \/ /\ parse_stage = "StreamFailure"
        /\ Return("ERROR")
        /\ UNCHANGED input_adapter
     \/ /\ parse_stage = "AwaitingSegment"
        /\ input_adapter' = << >>
        /\ Return("OK")
  /\ UNCHANGED <<parse_stage, event_vars, segment_vars, byte_position, current_index,
                 next_buffer_is_discont, seek_vars, other_vars, job, downstream>>

\* Mutant of NumIndicesInBuffer: a last buffer that is not full is not produced.
NumIndicesInFullBuffer(available) ==
  IF available >= OutputBufferSize THEN OutputBufferSize \div FrameSize ELSE 0
NumIndicesInBuffer(available) == Least(OutputBufferSize, available) \div FrameSize

\* Mutant of IndexAfter: counts bytes.
BytesAfter(num_indices) == current_index + num_indices * FrameSize
IndexAfter(num_indices) == current_index + num_indices

\* gst_dffparse_produce_output() with gst_dsd_media_parse_read_data_during_streaming()
Produce ==
  LET num_indices == NumIndicesInBuffer(EndOfPayload - byte_position)
      size == num_indices * FrameSize IN
  /\ pc = "produce"
  /\ \/ /\ num_indices = 0
        /\ Return("EOS")
        /\ UNCHANGED <<data_vars, output_buffer>>
     \/ /\ num_indices > 0 /\ parse_stage # "Streaming"
        /\ Return("ERROR")
        /\ UNCHANGED <<data_vars, output_buffer>>
     \/ /\ num_indices > 0 /\ parse_stage = "Streaming" /\ Len(input_adapter) < size
        /\ Return("OK")
        /\ UNCHANGED <<data_vars, output_buffer>>
     \/ /\ num_indices > 0 /\ parse_stage = "Streaming" /\ Len(input_adapter) >= size
        /\ output_buffer' = [index |-> current_index, data |-> SubSeq(input_adapter, 1, size),
                             discont |-> next_buffer_is_discont]
        /\ input_adapter' = SubSeq(input_adapter, size + 1, Len(input_adapter))
        /\ byte_position' = byte_position + size
        /\ current_index' = IndexAfter(num_indices)
        /\ next_buffer_is_discont' = FALSE
        /\ pc' = "push"
        /\ UNCHANGED <<flow_ret, upstream>>
  /\ UNCHANGED <<parse_stage, event_vars, segment_vars, seek_vars, sink_segment, num_flushes,
                 upstream_is_seekable, job, downstream>>

\* gst_pad_push(): downstream takes the buffer, if and when it likes, ...
PushAccepted ==
  /\ pc = "push" /\ ~downstream.flushing
  /\ downstream' = [downstream EXCEPT
                    !.first = output_buffer.index,
                    !.next = output_buffer.index + Len(output_buffer.data) \div FrameSize]
  /\ pc' = "loop"
  /\ UNCHANGED <<parse_stage, event_vars, segment_vars, data_vars, seek_vars, other_vars,
                 flow_ret, upstream, job>>

\* ... or a flush unblocks the thread.
PushFlushed ==
  /\ pc = "push" /\ downstream.flushing
  /\ Return("FLUSHING")
  /\ UNCHANGED <<parse_stage, event_vars, segment_vars, data_vars, seek_vars, other_vars,
                 job, downstream>>

-------------------------------------------------------------------------------
(***************************************************************************)
(* Serialized events of upstream: EOS and segments.                        *)
(***************************************************************************)

\* Upstream has nothing left to push, or has been told to stop.
SendEos ==
  /\ pc = "source" /\ job.phase \in {"none", "requested"}
  /\ \/ upstream.state = "draining"
     \/ upstream.state = "playing" /\ upstream.position = MediumSize
  /\ upstream' = [upstream EXCEPT !.state = "eos"]
  /\ IF parse_stage = "Streaming"
     THEN /\ downstream' = [downstream EXCEPT !.eos = @ \/ ~downstream.flushing]
          /\ UNCHANGED parse_stage
     ELSE StreamFailed /\ UNCHANGED downstream
  /\ UNCHANGED <<event_vars, segment_vars, data_vars, seek_vars, other_vars, pc, flow_ret, job>>

\* The thread that may send the events of the job: upstream's, or the one inside the seek call.
HasStreamLock == pc = "source" \/ (pc = "in_seek" /\ job.seqnum = InternalSeqnum)
JobStart      == IF job.seqnum = FlushSeqnum THEN upstream.position ELSE job.start

\* Mutant of TakePosition: the position stays.
KeepPosition(start) == byte_position' = byte_position
TakePosition(start) == byte_position' = start

\* handle_sink_segment_event() in the AwaitingSegment stage, up to the critical section.  A
\* deviated seek is fatal: no subclass implements resync_deviated_upstream_seek().
DeviatedSegment ==
  /\ JobStart # pending.position
  /\ pending' = [pending EXCEPT !.index = IF JobStart \in PayloadPosition .. EndOfPayload - 1
                                         THEN ToIndex("BYTES", JobStart - PayloadPosition) ELSE @]
  /\ StreamFailed
  /\ UNCHANGED <<byte_position, input_adapter, pc, current_seqnum>>

AwaitedSegment ==
  /\ JobStart = pending.position
  /\ TakePosition(JobStart)
  /\ input_adapter' = << >>
  /\ pc' = "adopt"
  /\ UNCHANGED <<parse_stage, pending, current_seqnum>>

\* In the Streaming stage, a segment of upstream's own.
OwnSegment ==
  /\ current_seqnum' = job.seqnum
  /\ IF JobStart >= EndOfPayload
     THEN StreamFailed /\ UNCHANGED pc
     ELSE pc' = "adopt_own" /\ UNCHANGED parse_stage
  /\ UNCHANGED <<byte_position, input_adapter, pending>>

HandleSinkSegment ==
  /\ HasStreamLock /\ job.phase = "flushed"
  /\ job' = NoJob
  /\ upstream' = [position |-> JobStart, state |-> "playing"]
  /\ sink_segment' = [seqnum |-> job.seqnum, start |-> JobStart, index |-> 0, return |-> pc]
  /\ \/ parse_stage = "AwaitingSegment" /\ (DeviatedSegment \/ AwaitedSegment)
     \/ parse_stage = "Streaming" /\ OwnSegment
     \/ /\ parse_stage = "StreamFailure"
        /\ UNCHANGED <<parse_stage, byte_position, input_adapter, pc, pending, current_seqnum>>
  /\ UNCHANGED <<event_vars, segment_start, current_index, next_buffer_is_discont, seeker,
                 num_seeks, accepted, output_buffer, num_flushes, upstream_is_seekable, flow_ret, downstream>>

\* The critical section of the AwaitingSegment case.
AdoptSegment ==
  /\ pc = "adopt"
  /\ segment_start' = IF pending.bootstrapping THEN 0 ELSE pending.start
  /\ next_buffer_is_discont' = TRUE
  /\ current_seqnum' = pending.seqnum
  /\ expecting_upstream_segment' = FALSE
  /\ internal_seek_seqnum' = NoSeqnum
  /\ pending' = [pending EXCEPT !.bootstrapping = FALSE]
  /\ sink_segment' = [sink_segment EXCEPT !.index = pending.index]
  /\ pc' = "resume"
  /\ UNCHANGED <<parse_stage, flushing, input_adapter, byte_position, current_index, seeker,
                 num_seeks, accepted, output_buffer, num_flushes, upstream_is_seekable,
                 flow_ret, upstream, job, downstream>>

\* Mutant of CurrentIndexAfterSeek: the subclass is not informed.
CurrentIndexStays(index) == current_index' = current_index
\* gst_dffparse_current_index_after_seek()
CurrentIndexAfterSeek(index) == current_index' = index

ResumeStreaming ==
  /\ pc = "resume"
  /\ CurrentIndexAfterSeek(sink_segment.index)
  /\ parse_stage' = "Streaming"
  /\ pc' = "announce"
  /\ UNCHANGED <<event_vars, segment_vars, input_adapter, byte_position, next_buffer_is_discont,
                 seek_vars, other_vars, flow_ret, upstream, job, downstream>>

\* The critical section of the Streaming case.
AdoptOwnSegment ==
  LET bytes_start == IF sink_segment.start < PayloadPosition
                     THEN 0 ELSE sink_segment.start - PayloadPosition IN
  /\ pc = "adopt_own"
  /\ segment_start' = TimeOf(ToIndex("BYTES", bytes_start))
  /\ expecting_upstream_segment' = FALSE
  /\ pc' = "announce"
  /\ UNCHANGED <<parse_stage, flushing, internal_seek_seqnum, current_seqnum, data_vars, seek_vars,
                 other_vars, flow_ret, upstream, job, downstream>>

\* The segment goes downstream, in start_streaming() or alone.  A pad that is flushing takes
\* no event; report_payload_found() makes that the return value of scan_info().
AnnounceSegment ==
  /\ pc = "announce"
  /\ \/ /\ ~downstream.flushing
        /\ downstream' = [downstream EXCEPT !.seqnum = current_seqnum, !.start = segment_start,
                                            !.first = NoIndex, !.next = NoIndex]
        /\ pc' = sink_segment.return
        /\ UNCHANGED <<parse_stage, flow_ret, upstream>>
     \/ /\ downstream.flushing /\ sink_segment.return = "loop"
        /\ Return("ERROR")
        /\ UNCHANGED <<parse_stage, downstream>>
     \/ /\ downstream.flushing /\ sink_segment.return # "loop"
        /\ StreamFailed
        /\ pc' = sink_segment.return
        /\ UNCHANGED <<flow_ret, upstream, downstream>>
  /\ UNCHANGED <<event_vars, segment_vars, data_vars, seek_vars, other_vars, job>>

-------------------------------------------------------------------------------
(***************************************************************************)
(* What upstream does for a seek or a flush: flush-start from the thread   *)
(* of the job, flush-stop and the segment under the stream lock.           *)
(***************************************************************************)

\* Mutant of IsInternalFlush: takes every seek for the one that ends the scan.
IsFlushOfSeek == job.seqnum >= InternalSeqnum
IsInternalFlush == internal_seek_seqnum # NoSeqnum /\ internal_seek_seqnum = job.seqnum

FlushStart ==
  /\ job.phase = "requested"
  /\ IF IsInternalFlush
     THEN job' = [job EXCEPT !.phase = "flushing"] /\ UNCHANGED flushing
     ELSE job' = [job EXCEPT !.phase = "forwarding"] /\ flushing' = TRUE
  /\ UNCHANGED <<parse_stage, expecting_upstream_segment, internal_seek_seqnum, segment_vars,
                 data_vars, seek_vars, other_vars, pc, flow_ret, upstream, downstream>>

ForwardFlushStart ==
  /\ job.phase = "forwarding"
  /\ job' = [job EXCEPT !.phase = "flushing"]
  /\ downstream' = [downstream EXCEPT !.flushing = TRUE]
  /\ UNCHANGED <<parse_stage, event_vars, segment_vars, data_vars, seek_vars, other_vars,
                 pc, flow_ret, upstream>>

\* Mutant of ForwardFlushStop: keeps it.
KeepFlushStop    == UNCHANGED downstream
ForwardFlushStop == downstream' = Silent

FlushStop ==
  /\ HasStreamLock /\ job.phase = "flushing"
  /\ job' = [job EXCEPT !.phase = "flushed"]
  /\ input_adapter' = << >>
  /\ next_buffer_is_discont' = TRUE
  /\ IF IsInternalFlush
     THEN UNCHANGED <<flushing, expecting_upstream_segment, downstream>>
     ELSE /\ flushing' = FALSE
          /\ expecting_upstream_segment' = (parse_stage # "ScanningInfo" \/ expecting_upstream_segment)
          /\ ForwardFlushStop
  /\ UNCHANGED <<parse_stage, internal_seek_seqnum, segment_vars, byte_position, current_index,
                 seek_vars, other_vars, pc, flow_ret, upstream>>

\* A flush that no seek of this element has caused; upstream goes on where it was.
ExternalFlush ==
  /\ job.phase = "none" /\ parse_stage # "ScanningInfo" /\ num_flushes < MaxFlushes
  /\ job' = [phase |-> "requested", seqnum |-> FlushSeqnum, start |-> 0]
  /\ num_flushes' = num_flushes + 1
  /\ UNCHANGED <<parse_stage, event_vars, segment_vars, data_vars, seek_vars, output_buffer,
                 sink_segment, upstream_is_seekable, pc, flow_ret, upstream, downstream>>

-------------------------------------------------------------------------------
(***************************************************************************)
(* gst_dsd_media_parse_handle_src_seek_event(), in a seeking thread.       *)
(***************************************************************************)

\* The first critical section.
CheckSeek(t) ==
  /\ seeker[t].place = "idle" /\ num_seeks < MaxSeeks
  /\ parse_stage = "Streaming" /\ upstream_is_seekable
  /\ num_seeks' = num_seeks + 1
  /\ seeker' = [seeker EXCEPT ![t] = [place |-> "checked", seqnum |-> num_seeks + 1, position |-> 0]]
  /\ UNCHANGED <<parse_stage, event_vars, segment_vars, data_vars, pending, accepted, other_vars,
                 pc, flow_ret, upstream, job, downstream>>

\* parse_stage.compare_exchange_strong()
SwitchToAwaitingSegment(t, position) ==
  IF parse_stage = "Streaming"
  THEN /\ parse_stage' = "AwaitingSegment"
       /\ accepted' = seeker[t].seqnum
       /\ seeker' = [seeker EXCEPT ![t].place = "pushing", ![t].position = position]
  ELSE /\ seeker' = [seeker EXCEPT ![t].place = "idle"]
       /\ UNCHANGED <<parse_stage, accepted>>

\* common_seek_procedures(): the start of the seek and that of its segment, for a start of
\* type SET (NONE and END are brought to that first).
NormalizedStart(format, value) == Least(value, IF format = "TIME" THEN Duration ELSE PayloadSize)
SegmentStart(format, start, accurate) ==
  IF accurate /\ format = "TIME" THEN start ELSE TimeOf(ToIndex(format, start))

\* The second critical section.  gst_segment_do_seek() can fail.
PrepareSeek(t, format, value, accurate) ==
  LET start == NormalizedStart(format, value)
      seek_index == ToIndex(format, start)
      seek_position == BytesOf(seek_index) + PayloadPosition IN
  /\ seeker[t].place = "checked"
  /\ \/ /\ pending' = [position |-> seek_position, index |-> seek_index, seqnum |-> seeker[t].seqnum,
                       start |-> SegmentStart(format, start, accurate), bootstrapping |-> FALSE]
        /\ SwitchToAwaitingSegment(t, seek_position)
     \/ /\ seeker' = [seeker EXCEPT ![t].place = "idle"]
        /\ UNCHANGED <<pending, parse_stage, accepted>>
  /\ UNCHANGED <<event_vars, segment_vars, data_vars, num_seeks, other_vars, pc, flow_ret,
                 upstream, job, downstream>>

\* The seek goes upstream, which performs one at a time, or refuses.
PushSeek(t) ==
  /\ seeker[t].place = "pushing"
  /\ seeker' = [seeker EXCEPT ![t].place = "idle"]
  /\ \/ /\ job.phase = "none"
        /\ job' = [phase |-> "requested", seqnum |-> seeker[t].seqnum, start |-> seeker[t].position]
        /\ UNCHANGED parse_stage
     \/ StreamFailed /\ UNCHANGED job
  /\ UNCHANGED <<event_vars, segment_vars, data_vars, pending, num_seeks, accepted, other_vars,
                 pc, flow_ret, upstream, downstream>>

-------------------------------------------------------------------------------
\* Upstream's streaming thread, and whoever performs a seek or a flush.
Upstream == EnterChain \/ SendEos
Job      == FlushStart \/ ForwardFlushStart \/ FlushStop \/ HandleSinkSegment

Element ==
  \/ ScanningFinished \/ InternalSeekReturns
  \/ \E n \in BufferSizes : AcceptBuffer(n)
  \/ StartIteration \/ Dispatch \/ Produce \/ PushFlushed
  \/ AdoptSegment \/ ResumeStreaming \/ AdoptOwnSegment \/ AnnounceSegment

Seek(t) ==
  \/ \E format \in {"BYTES", "TIME"}, value \in SeekValues, accurate \in BOOLEAN :
       PrepareSeek(t, format, value, accurate)
  \/ PushSeek(t)

Next ==
  \/ Element \/ Upstream \/ Job \/ PushAccepted \/ ExternalFlush
  \/ \E t \in Seekers : CheckSeek(t) \/ Seek(t)

\* Threads that can go on do so.  Downstream may block for as long as it is not flushed, and
\* nobody has to seek or flush.
Fairness ==
  /\ WF_vars(Element)
  /\ WF_vars(Upstream)
  /\ WF_vars(Job)
  /\ \A t \in Seekers : WF_vars(Seek(t))

Spec == Init /\ [][Next]_vars /\ Fairness

-------------------------------------------------------------------------------
(***************************************************************************)
(* Properties.                                                             *)
(***************************************************************************)

\* The fields have values the code can work with: indices and segment starts lie inside the
\* payload, and an output buffer holds whole frames of it.
TypeOK ==
  /\ upstream_is_seekable \in BOOLEAN
  /\ parse_stage \in {"ScanningInfo", "AwaitingSegment", "Streaming", "StreamFailure"}
  /\ flushing \in BOOLEAN /\ expecting_upstream_segment \in BOOLEAN
  /\ internal_seek_seqnum \in {NoSeqnum, InternalSeqnum}
  /\ pending.position \in 0 .. EndOfPayload /\ pending.index \in 0 .. TotalIndices
  /\ pending.seqnum \in NoSeqnum .. MaxSeeks /\ pending.start \in 0 .. Duration
  /\ pending.bootstrapping \in BOOLEAN
  /\ segment_start \in 0 .. Duration
  /\ current_seqnum \in FlushSeqnum .. MaxSeeks
  /\ next_buffer_is_discont \in BOOLEAN
  /\ input_adapter \in Seq(0 .. MediumSize - 1)
  /\ byte_position \in 0 .. MediumSize - 1 /\ current_index \in 0 .. TotalIndices
  /\ pc \in Places /\ flow_ret \in {"OK", "EOS", "FLUSHING", "ERROR"}
  /\ Len(output_buffer.data) % FrameSize = 0
  /\ output_buffer.index + Len(output_buffer.data) \div FrameSize \in 0 .. TotalIndices
  /\ sink_segment.index \in 0 .. TotalIndices
  /\ upstream.position \in 0 .. MediumSize /\ upstream.state \in {"playing", "draining", "eos"}
  /\ job.phase \in {"none", "requested", "forwarding", "flushing", "flushed"}
  /\ job.seqnum \in NoSeqnum .. MaxSeeks
  /\ \A t \in Seekers : seeker[t].place \in {"idle", "checked", "pushing"}
  /\ num_seeks \in 0 .. MaxSeeks /\ num_flushes \in 0 .. MaxFlushes

\* The timestamps of an output buffer are those of the bytes in it, whatever was dropped,
\* flushed or seeked on the way (current_index, byte_position and the adapter move separately).
BuffersMatchTimestamps ==
  pc = "push" =>
    \A k \in 1 .. Len(output_buffer.data) :
      output_buffer.data[k] = PayloadPosition + output_buffer.index * FrameSize + k - 1

\* "The position the parser is currently at, in bytes" is that of the next byte it reads: the
\* first one in the adapter or, when that is empty, the next one from upstream.  The thread may
\* know better only while a seek is on its way.
BytePositionIsTrue ==
  (parse_stage = "Streaming" /\ job.phase = "none" /\ pc \in {"source", "loop"}) =>
    byte_position = IF input_adapter = << >> THEN upstream.position ELSE input_adapter[1]

\* Downstream gets a segment before any buffer; the first buffer after it is a discontinuity
\* whose first index is the one the segment starts in, and each further buffer continues
\* where the one before it ended.
BuffersFollowSegment ==
  [][PushAccepted =>
       /\ downstream.seqnum # NoSeqnum /\ ~downstream.eos
       /\ IF downstream.next = NoIndex
          THEN /\ output_buffer.discont
               /\ TimeOf(output_buffer.index) <= downstream.start
               /\ downstream.start <= TimeOf(output_buffer.index + 1)
          ELSE ~output_buffer.discont /\ output_buffer.index = downstream.next]_vars

\* The seek that ends the scan is invisible to the application: none of its flush events
\* reaches downstream or makes the element flush.
InternalSeekStaysInternal ==
  job.seqnum = InternalSeqnum => ~flushing /\ ~downstream.flushing

\* Downstream is told of the end only when all of the payload from the segment start on has
\* been pushed.
EosMeansAllPlayed ==
  [][downstream'.eos /\ ~downstream.eos =>
       IF downstream.next = NoIndex THEN downstream.start >= TimeOf(TotalIndices)
                                    ELSE downstream.next = TotalIndices]_vars

\* A seek that was accepted ends in a segment with its seqnum downstream, even when
\* downstream has blocked the streaming thread, or in a failed stream.
SeekAnswered ==
  \A s \in 1 .. MaxSeeks :
    (accepted = s /\ parse_stage = "AwaitingSegment") ~>
       downstream.seqnum >= s \/ parse_stage = "StreamFailure"

\* Push mode keeps what GstDsdMediaParse promises to those who seek and play.
Contract == INSTANCE SeekContract WITH
  total   <- TotalIndices,
  asked   <- IF accepted = NoSeqnum THEN InternalSeqnum ELSE accepted,
  current <- current_seqnum,
  heard   <- [seqnum |-> IF downstream.seqnum = NoSeqnum THEN -1 ELSE downstream.seqnum,
              first |-> downstream.first, next |-> downstream.next, last |-> TotalIndices],
  ended   <- downstream.eos,
  failed  <- parse_stage = "StreamFailure"

ImplementsSeekContract == Contract!Spec

\* A flush ends: the streaming thread unwinds and releases the stream lock.
FlushEnds == downstream.flushing ~> ~downstream.flushing

-------------------------------------------------------------------------------
(***************************************************************************)
(* What a comment of the code promises and the code does not keep.         *)
(***************************************************************************)

\* "Buffers may be in flight while the stage was already switched to AwaitingSegment as part of
\* the seek operation.  Do nothing in that case" (the AwaitingSegment case of the chain function).
BuffersInFlightAreIgnored == [][parse_stage = "AwaitingSegment" /\ Produce => flow_ret' # "ERROR"]_vars

===============================================================================
