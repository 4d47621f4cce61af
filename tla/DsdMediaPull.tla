----------------------------- MODULE DsdMediaPull -----------------------------
(***************************************************************************)
(* GstDsdMediaParse in pull mode from the end of the scan on: the pull     *)
(* mode loop, which a task of the sink pad runs, the seeks of application  *)
(* threads, and flushes that come from downstream                          *)
(* (gstdsdmediaparse.cpp), with GstDSFParse's produce_output() and index   *)
(* conversions (gstdsfparse.cpp).                                          *)
(*                                                                         *)
(* In contrast to push mode (DsdMediaPush), the element itself flushes up- *)
(* and downstream for a seek, pauses the task, and takes the stream lock.  *)
(* The task holds that lock until an iteration of the loop ends with the   *)
(* task paused.  A critical section of field_mutex is one action.          *)
(*                                                                         *)
(* Times are in units of which SampleRate bytes per channel last Second.   *)
(***************************************************************************)
EXTENDS Integers, FiniteSets

CONSTANTS
  NumChannels, BlockSize,
  SampleRate, Second,
  PayloadPosition,
  Payloads,         \* what the scan can find: payload_size, bytes per channel, data_truncated
  SeekValues,       \* the start values that seek events ask for
  StopValues,       \* and the stop values
  Seekers,          \* the threads that seek
  MaxSeeks,         \* bound: seeks that pass the first check
  MaxFlushes,       \* bound: flushes from downstream
  SeeksMayFail,     \* a seek may ask for a stop before its start, ...
  FlushesMayFail    \* ... and a neighbour refuse its flush-start

ASSUME SizesAssumption ==
  /\ NumChannels \in Nat \ {0} /\ BlockSize \in Nat \ {0}
  /\ SampleRate \in Nat \ {0} /\ Second \in Nat \ {0} /\ PayloadPosition \in Nat
  /\ Payloads \subseteq [size : Nat, actual : Nat \ {0}, truncated : BOOLEAN]
  /\ SeekValues \subseteq Nat /\ StopValues \subseteq Nat /\ MaxSeeks \in Nat /\ MaxFlushes \in Nat
  /\ SeeksMayFail \in BOOLEAN /\ FlushesMayFail \in BOOLEAN

\* gst_dsfparse_parse_chunk_data() clamps the payload to the blocks that the sample count needs,
\* and recomputes the sample count of a truncated one.
ASSUME PayloadsAssumption ==
  \A p \in Payloads :
    p.size \div (NumChannels * BlockSize) <= (p.actual + BlockSize - 1) \div BlockSize

ASSUME SeekersAssumption == Seekers \cap {"task", "flusher", "nobody"} = {}

NoSeqnum     == -1
FirstSeqnum  == 0     \* of the first segment; seeks count from 1
NoIndex      == -1
Silence      == -1    \* the DSD silence pattern
NoStop       == -1    \* of a segment that is played to the end; a seek can ask for that
KeepStop     == -2    \* of a seek whose stop type is NONE
Here         == -2    \* of a seek whose start type is NONE
NoSegment    == [start |-> -1, position |-> -1, stop |-> NoStop]
Nobody       == "nobody"
Least(a, b)  == IF a <= b THEN a ELSE b

VARIABLES
  payload,            \* payload_size, actual_num_dsd_bytes_per_channel, data_truncated
  parse_stage, flushing,
  segment,            \* downstream_segment: its start, position and stop
  current_seqnum, next_buffer_is_discont,
  byte_position, current_index,
  task, stream_lock,  \* the task's state, and who holds the stream lock
  pc,                 \* where the task is in the loop
  output_buffer,
  upstream_flushing, downstream,
  seeker,             \* of each seeking thread: place, seqnum, what it flushed, whether it moved
  flusher,            \* where in a flush downstream is
  num_seeks, num_flushes,
  accepted            \* seqnum of the last seek that was performed

stream_vars == <<segment, current_seqnum, next_buffer_is_discont, byte_position, current_index>>
loop_vars   == <<task, stream_lock, pc, output_buffer>>
peer_vars   == <<upstream_flushing, downstream>>
seek_vars   == <<seeker, num_seeks, accepted>>
flush_vars  == <<flusher, num_flushes>>
vars == <<payload, parse_stage, flushing, stream_vars, loop_vars, peer_vars, seek_vars, flush_vars>>

-------------------------------------------------------------------------------
(***************************************************************************)
(* gst_dsfparse_to_index(), gst_dsfparse_from_index(), and what            *)
(* gst_dsfparse_parse_chunk_data() computes for them.                      *)
(***************************************************************************)

Alignment       == NumChannels * BlockSize
TotalNumIndices == (payload.actual + BlockSize - 1) \div BlockSize
Duration        == (payload.actual * Second + SampleRate - 1) \div SampleRate
EndOfPayload    == PayloadPosition + payload.size

ToIndex(format, value) ==
  Least(IF format = "BYTES" THEN value \div Alignment
                            ELSE (value * TotalNumIndices) \div Duration, TotalNumIndices)

\* ToIndexRoundingMode::RoundingUp, which only a stop in bytes is converted with.
ToIndexRoundingUp(value) == Least((value + Alignment - 1) \div Alignment, TotalNumIndices)

\* Mutant of TimeOf: rounds up, as the conversion to an index never does.
TimeOfRoundingUp(index) ==
  Least((index * Duration + TotalNumIndices - 1) \div TotalNumIndices + 1, Duration)

TimeOf(index)  == Least((index * Duration) \div TotalNumIndices, Duration)
BytesOf(index) == Least(index * Alignment, payload.size)

Silent  == [flushing |-> FALSE, seqnum |-> NoSeqnum, start |-> 0, stop |-> NoStop,
            first |-> NoIndex, next |-> NoIndex, eos |-> FALSE]
NotSeeking == [place |-> "idle", seqnum |-> NoSeqnum, up |-> FALSE, down |-> FALSE, moved |-> FALSE]

\* The task is in scan_info(), which has just found the payload (a truncated one, which
\* is streamed at once), or is at its end, past the payload.
Init ==
  /\ payload \in Payloads
  /\ parse_stage = "ScanningInfo" /\ flushing = FALSE
  /\ segment = NoSegment /\ current_seqnum = NoSeqnum
  /\ next_buffer_is_discont = TRUE /\ current_index = 0
  /\ byte_position = IF payload.truncated THEN PayloadPosition ELSE EndOfPayload
  /\ task = "started" /\ stream_lock = "task" /\ pc = "scan"
  /\ output_buffer = [index |-> 0, data |-> << >>, discont |-> FALSE]
  /\ upstream_flushing = FALSE /\ downstream = Silent
  /\ seeker = [t \in Seekers |-> NotSeeking]
  /\ flusher = "idle" /\ num_seeks = 0 /\ num_flushes = 0
  /\ accepted = FirstSeqnum

-------------------------------------------------------------------------------
(***************************************************************************)
(* gst_dsd_media_parse_pull_mode_loop(), in the task.                      *)
(***************************************************************************)

\* gst_dsd_media_parse_stop_pull_mode_loop() from within the loop, which then returns.
PauseLoop == task' = "paused" /\ stream_lock' = Nobody /\ pc' = "top"

TaskUnchanged == UNCHANGED <<task, stream_lock>>

\* The pull mode branch of scanning_finished(), or the immediate one of report_payload_found().
ScanningFinished ==
  /\ pc = "scan"
  /\ byte_position' = PayloadPosition
  /\ segment' = [start |-> 0, position |-> 0, stop |-> NoStop]
  /\ current_seqnum' = FirstSeqnum
  /\ parse_stage' = "Streaming"
  /\ pc' = "announce"
  /\ TaskUnchanged
  /\ UNCHANGED <<payload, flushing, next_buffer_is_discont, current_index, output_buffer,
                 peer_vars, seek_vars, flush_vars>>

ShowSegment(seqnum) ==
  downstream' = [downstream EXCEPT !.seqnum = seqnum, !.start = segment.start,
                                   !.stop = segment.stop, !.first = NoIndex, !.next = NoIndex]

\* gst_dsd_media_parse_start_streaming(), and how the scan ends if that fails.
StartStreaming ==
  /\ pc = "announce"
  /\ \/ /\ ~downstream.flushing
        /\ ShowSegment(current_seqnum)
        /\ pc' = "top" /\ TaskUnchanged
        /\ UNCHANGED parse_stage
     \/ /\ downstream.flushing /\ payload.truncated
        /\ PauseLoop
        /\ UNCHANGED <<parse_stage, downstream>>
     \/ /\ downstream.flushing /\ ~payload.truncated
        /\ parse_stage' = "StreamFailure"
        /\ pc' = "top" /\ TaskUnchanged
        /\ UNCHANGED downstream
  /\ UNCHANGED <<payload, flushing, stream_vars, output_buffer, upstream_flushing,
                 seek_vars, flush_vars>>

\* The task begins to iterate: it has been started, and gets the lock.
ResumeTask ==
  /\ task = "started" /\ stream_lock = Nobody
  /\ stream_lock' = "task"
  /\ UNCHANGED <<payload, parse_stage, flushing, stream_vars, task, pc, output_buffer, peer_vars,
                 seek_vars, flush_vars>>

\* Between two iterations: the task may have been paused.
YieldLock ==
  /\ stream_lock = "task" /\ pc = "top" /\ task = "paused"
  /\ stream_lock' = Nobody
  /\ UNCHANGED <<payload, parse_stage, flushing, stream_vars, task, pc, output_buffer, peer_vars,
                 seek_vars, flush_vars>>

StartIteration ==
  /\ stream_lock = "task" /\ pc = "top" /\ task = "started"
  /\ IF flushing \/ parse_stage = "StreamFailure"
     THEN PauseLoop
     ELSE pc' = "produce" /\ TaskUnchanged
  /\ UNCHANGED <<payload, parse_stage, flushing, stream_vars, output_buffer, peer_vars,
                 seek_vars, flush_vars>>

\* The number of bytes of the current block that are audio: the rest is padding.
NumValidBlockBytes ==
  LET block_begin == current_index * BlockSize
  IN  IF block_begin < payload.actual THEN Least(BlockSize, payload.actual - block_begin) ELSE 0

\* Mutant of OutputData: the padding of all channels is replaced at the end of the buffer.
OutputDataPaddedOnce ==
  [k \in 0 .. Alignment - 1 |->
     IF k < NumChannels * NumValidBlockBytes THEN byte_position + k ELSE Silence]

\* The blocks of all channels, as the positions of their bytes, with their padding replaced.
OutputData ==
  [k \in 0 .. Alignment - 1 |->
     IF k % BlockSize < NumValidBlockBytes THEN byte_position + k ELSE Silence]

NumAvailablePayloadBytes == EndOfPayload - byte_position

\* gst_dsfparse_produce_output() with gst_dsd_media_parse_read_data_during_streaming().
ProduceOutput ==
  /\ pc = "produce"
  /\ NumAvailablePayloadBytes >= Alignment /\ ~upstream_flushing
  /\ output_buffer' = [index |-> current_index, data |-> OutputData, discont |-> next_buffer_is_discont]
  /\ byte_position' = byte_position + Alignment
  /\ current_index' = current_index + 1
  /\ next_buffer_is_discont' = FALSE
  /\ segment' = [segment EXCEPT !.position = TimeOf(current_index + 1)]
  /\ pc' = "push" /\ TaskUnchanged
  /\ UNCHANGED <<payload, parse_stage, flushing, current_seqnum, peer_vars, seek_vars, flush_vars>>

\* A flush makes gst_pad_pull_range() return.
PullFlushed ==
  /\ pc = "produce"
  /\ NumAvailablePayloadBytes >= Alignment /\ upstream_flushing
  /\ PauseLoop
  /\ UNCHANGED <<payload, parse_stage, flushing, stream_vars, output_buffer, peer_vars,
                 seek_vars, flush_vars>>

\* Mutant of ReachEos: the end is announced one block group early.
ReachEosEarly ==
  /\ pc = "produce"
  /\ NumAvailablePayloadBytes <= Alignment
  /\ downstream' = [downstream EXCEPT !.eos = @ \/ ~downstream.flushing]
  /\ PauseLoop
  /\ UNCHANGED <<payload, parse_stage, flushing, stream_vars, output_buffer, upstream_flushing,
                 seek_vars, flush_vars>>

ReachEos ==
  /\ pc = "produce"
  /\ NumAvailablePayloadBytes < Alignment
  /\ downstream' = [downstream EXCEPT !.eos = @ \/ ~downstream.flushing]
  /\ PauseLoop
  /\ UNCHANGED <<payload, parse_stage, flushing, stream_vars, output_buffer, upstream_flushing,
                 seek_vars, flush_vars>>

\* gst_pad_push(): downstream takes the buffer, if and when it likes, and if it has not ended, ...
PushAccepted ==
  /\ pc = "push" /\ ~downstream.flushing /\ ~downstream.eos
  /\ downstream' = [downstream EXCEPT !.first = output_buffer.index, !.next = output_buffer.index + 1]
  /\ pc' = "top" /\ TaskUnchanged
  /\ UNCHANGED <<payload, parse_stage, flushing, stream_vars, output_buffer, upstream_flushing,
                 seek_vars, flush_vars>>

\* ... or has ended, or has no use for a buffer past the stop, which ends the loop like the end
\* of the payload, ...
PushEnded ==
  /\ pc = "push" /\ ~downstream.flushing
  /\ \/ downstream.eos
     \/ downstream.stop # NoStop /\ TimeOf(output_buffer.index) >= downstream.stop
  /\ downstream' = [downstream EXCEPT !.eos = TRUE]
  /\ PauseLoop
  /\ UNCHANGED <<payload, parse_stage, flushing, stream_vars, output_buffer, upstream_flushing,
                 seek_vars, flush_vars>>

\* ... or a flush unblocks the task.
PushFlushed ==
  /\ pc = "push" /\ downstream.flushing
  /\ PauseLoop
  /\ UNCHANGED <<payload, parse_stage, flushing, stream_vars, output_buffer, peer_vars,
                 seek_vars, flush_vars>>

-------------------------------------------------------------------------------
(***************************************************************************)
(* gst_dsd_media_parse_handle_src_seek_event(), in a seeking thread.  From *)
(* the first flush-start on, its scope guard runs however it ends.         *)
(***************************************************************************)

At(t, place) == seeker[t].place = place
Go(t, place) == seeker' = [seeker EXCEPT ![t].place = place]

\* The first critical section.
CheckSeek(t) ==
  /\ At(t, "idle") /\ num_seeks < MaxSeeks
  /\ parse_stage = "Streaming"
  /\ num_seeks' = num_seeks + 1
  /\ seeker' = [seeker EXCEPT ![t] = [NotSeeking EXCEPT !.place = "flush_up", !.seqnum = num_seeks + 1]]
  /\ UNCHANGED <<payload, parse_stage, flushing, stream_vars, loop_vars, peer_vars, accepted, flush_vars>>

\* Whether a flush-start event is taken.
Outcomes == IF FlushesMayFail THEN BOOLEAN ELSE {TRUE}

FlushStartUpstream(t) ==
  /\ At(t, "flush_up")
  /\ \E taken \in Outcomes :
       /\ seeker' = [seeker EXCEPT ![t].place = "flush_down", ![t].up = taken]
       /\ upstream_flushing' = (upstream_flushing \/ taken)
  /\ UNCHANGED <<payload, parse_stage, flushing, stream_vars, loop_vars, downstream, num_seeks, accepted,
                 flush_vars>>

\* Mutant of FlushStartDownstream: only upstream is flushed, and the task stays blocked downstream.
FlushStartNotForwarded(t) ==
  /\ At(t, "flush_down")
  /\ seeker' = [seeker EXCEPT ![t].place = IF seeker[t].up THEN "pause" ELSE "stop_up"]
  /\ UNCHANGED <<payload, parse_stage, flushing, stream_vars, loop_vars, peer_vars, num_seeks, accepted,
                 flush_vars>>

FlushStartDownstream(t) ==
  /\ At(t, "flush_down")
  /\ \E taken \in Outcomes :
       /\ seeker' = [seeker EXCEPT ![t].place = IF seeker[t].up /\ taken THEN "pause" ELSE "stop_up",
                                   ![t].down = taken]
       /\ downstream' = [downstream EXCEPT !.flushing = @ \/ taken]
  /\ UNCHANGED <<payload, parse_stage, flushing, stream_vars, loop_vars, upstream_flushing, num_seeks,
                 accepted, flush_vars>>

StopLoop(t) ==
  /\ At(t, "pause")
  /\ Go(t, "lock")
  /\ task' = "paused"
  /\ UNCHANGED <<payload, parse_stage, flushing, stream_vars, stream_lock, pc, output_buffer, peer_vars,
                 num_seeks, accepted, flush_vars>>

\* Mutant of TakeStreamLock: the task is paused, but not waited for.
GoOnWithoutLock(t) ==
  /\ At(t, "lock")
  /\ Go(t, "locked")
  /\ UNCHANGED <<payload, parse_stage, flushing, stream_vars, loop_vars, peer_vars, num_seeks, accepted,
                 flush_vars>>

TakeStreamLock(t) ==
  /\ At(t, "lock") /\ stream_lock = Nobody
  /\ stream_lock' = t
  /\ Go(t, "locked")
  /\ UNCHANGED <<payload, parse_stage, flushing, stream_vars, task, pc, output_buffer, peer_vars,
                 num_seeks, accepted, flush_vars>>

\* common_seek_procedures(): a start of type NONE is the time that the segment has reached,
\* a start or stop of type END is brought to SET first.
Requests ==
  [format : {"BYTES", "TIME"}, start : SeekValues \cup {Here},
   stop : StopValues \cup {KeepStop, NoStop}, accurate : BOOLEAN]

StartFormat(request) == IF request.start = Here THEN "TIME" ELSE request.format

Clamped(format, value) == Least(value, IF format = "TIME" THEN Duration ELSE payload.size)

NormalizedStart(request) ==
  IF request.start = Here THEN segment.position ELSE Clamped(request.format, request.start)

\* The index that the stream goes on from.
SeekIndex(request) == ToIndex(StartFormat(request), NormalizedStart(request))

SegmentStart(request) ==
  IF request.accurate /\ StartFormat(request) = "TIME"
  THEN NormalizedStart(request) ELSE TimeOf(SeekIndex(request))

\* Mutant of SegmentStop: rounds down, as the start does.
SegmentStopRoundedDown(request) ==
  CASE request.stop = KeepStop   -> segment.stop
    [] request.stop = NoStop     -> NoStop
    [] request.stop \in Nat /\ request.format = "TIME"  -> Clamped("TIME", request.stop)
    [] request.stop \in Nat /\ request.format = "BYTES" -> TimeOf(ToIndex("BYTES", Clamped("BYTES", request.stop)))

\* A stop in bytes is rounded up to the end of its block group.
SegmentStop(request) ==
  CASE request.stop = KeepStop   -> segment.stop
    [] request.stop = NoStop     -> NoStop
    [] request.stop \in Nat /\ request.format = "TIME"  -> Clamped("TIME", request.stop)
    [] request.stop \in Nat /\ request.format = "BYTES" -> TimeOf(ToIndexRoundingUp(Clamped("BYTES", request.stop)))

\* gst_segment_do_seek() refuses a stop before the start.
Refuses(request) ==
  SegmentStop(request) # NoStop /\ SegmentStart(request) > SegmentStop(request)

\* Mutant of CurrentIndexAfterSeek: the subclass is not informed.
CurrentIndexStays(index) == current_index' = current_index
\* gst_dsfparse_current_index_after_seek()
CurrentIndexAfterSeek(index) == current_index' = index

\* The second critical section.
PerformSeek(t, request) ==
  /\ At(t, "locked") /\ ~Refuses(request)
  /\ byte_position' = BytesOf(SeekIndex(request)) + PayloadPosition
  /\ CurrentIndexAfterSeek(SeekIndex(request))
  /\ segment' = [start |-> SegmentStart(request), position |-> SegmentStart(request),
                 stop |-> SegmentStop(request)]
  /\ next_buffer_is_discont' = TRUE
  /\ current_seqnum' = seeker[t].seqnum
  /\ accepted' = seeker[t].seqnum
  /\ seeker' = [seeker EXCEPT ![t].place = "stop_up", ![t].moved = TRUE]
  /\ UNCHANGED <<payload, parse_stage, flushing, loop_vars, peer_vars, num_seeks, flush_vars>>

RefuseSeek(t) ==
  /\ At(t, "locked") /\ SeeksMayFail
  /\ \E request \in Requests : Refuses(request)
  /\ Go(t, "stop_up")
  /\ UNCHANGED <<payload, parse_stage, flushing, stream_vars, loop_vars, peer_vars, num_seeks, accepted,
                 flush_vars>>

FlushStopUpstream(t) ==
  /\ At(t, "stop_up")
  /\ Go(t, "stop_down")
  /\ upstream_flushing' = (upstream_flushing /\ ~seeker[t].up)
  /\ UNCHANGED <<payload, parse_stage, flushing, stream_vars, loop_vars, downstream, num_seeks, accepted,
                 flush_vars>>

FlushStopDownstream(t) ==
  /\ At(t, "stop_down")
  /\ Go(t, "segment")
  /\ downstream' = IF seeker[t].down THEN Silent ELSE downstream
  /\ UNCHANGED <<payload, parse_stage, flushing, stream_vars, loop_vars, upstream_flushing, num_seeks,
                 accepted, flush_vars>>

\* Mutant of PushSeekSegment: the segment of the seek is not pushed.
PushNoSegment(t) ==
  /\ At(t, "segment")
  /\ Go(t, "restart")
  /\ UNCHANGED <<payload, parse_stage, flushing, stream_vars, loop_vars, peer_vars, num_seeks,
                 accepted, flush_vars>>

PushSeekSegment(t) ==
  /\ At(t, "segment")
  /\ Go(t, "restart")
  /\ IF seeker[t].moved /\ ~downstream.flushing
     THEN ShowSegment(seeker[t].seqnum)
     ELSE UNCHANGED downstream
  /\ UNCHANGED <<payload, parse_stage, flushing, stream_vars, loop_vars, upstream_flushing, num_seeks,
                 accepted, flush_vars>>

\* Mutant of RestartLoop: the task stays paused.
UnlockOnly(t) ==
  /\ At(t, "restart")
  /\ Go(t, "idle")
  /\ stream_lock' = IF stream_lock = t THEN Nobody ELSE stream_lock
  /\ UNCHANGED <<payload, parse_stage, flushing, stream_vars, task, pc, output_buffer, peer_vars,
                 num_seeks, accepted, flush_vars>>

\* Mutant of RestartLoop: the lock is kept.
RestartKeepingLock(t) ==
  /\ At(t, "restart")
  /\ Go(t, "idle")
  /\ task' = "started"
  /\ UNCHANGED <<payload, parse_stage, flushing, stream_vars, stream_lock, pc, output_buffer, peer_vars,
                 num_seeks, accepted, flush_vars>>

RestartLoop(t) ==
  /\ At(t, "restart")
  /\ Go(t, "idle")
  /\ task' = "started"
  /\ stream_lock' = IF stream_lock = t THEN Nobody ELSE stream_lock
  /\ UNCHANGED <<payload, parse_stage, flushing, stream_vars, pc, output_buffer, peer_vars,
                 num_seeks, accepted, flush_vars>>

-------------------------------------------------------------------------------
(***************************************************************************)
(* gst_dsd_media_parse_src_event(): a flush that a downstream element      *)
(* makes, which has itself been flushed when it sends the event.           *)
(***************************************************************************)

FlushStartEvent ==
  /\ flusher = "idle" /\ num_flushes < MaxFlushes
  /\ num_flushes' = num_flushes + 1
  /\ downstream' = [downstream EXCEPT !.flushing = TRUE]
  /\ flushing' = TRUE
  /\ flusher' = "forward_start"
  /\ UNCHANGED <<payload, parse_stage, stream_vars, loop_vars, upstream_flushing, seek_vars>>

ForwardFlushStart ==
  /\ flusher = "forward_start"
  /\ flusher' = "flushing"
  /\ upstream_flushing' = TRUE
  /\ UNCHANGED <<payload, parse_stage, flushing, stream_vars, loop_vars, downstream, seek_vars, num_flushes>>

FlushStopEvent ==
  /\ flusher = "flushing"
  /\ flusher' = "lock"
  /\ downstream' = Silent
  /\ UNCHANGED <<payload, parse_stage, flushing, stream_vars, loop_vars, upstream_flushing, seek_vars,
                 num_flushes>>

\* The stream lock and the critical section.
EndFlushing ==
  /\ flusher = "lock" /\ stream_lock = Nobody
  /\ stream_lock' = "flusher"
  /\ flushing' = FALSE
  /\ flusher' = "segment"
  /\ UNCHANGED <<payload, parse_stage, stream_vars, task, pc, output_buffer, peer_vars, seek_vars, num_flushes>>

\* The segment is pushed again; if that fails, the stream has failed, and the loop stays paused.
RepeatSegment ==
  /\ flusher = "segment"
  /\ \/ /\ segment # NoSegment /\ downstream.flushing
        /\ parse_stage' = "StreamFailure"
        /\ UNCHANGED <<downstream, next_buffer_is_discont, task>>
     \/ /\ segment # NoSegment /\ ~downstream.flushing
        /\ ShowSegment(current_seqnum)
        /\ next_buffer_is_discont' = TRUE /\ task' = "started"
        /\ UNCHANGED parse_stage
     \/ /\ segment = NoSegment
        /\ next_buffer_is_discont' = TRUE /\ task' = "started"
        /\ UNCHANGED <<downstream, parse_stage>>
  /\ flusher' = "forward_stop"
  /\ UNCHANGED <<payload, flushing, segment, current_seqnum, byte_position, current_index, stream_lock, pc,
                 output_buffer, upstream_flushing, seek_vars, num_flushes>>

ForwardFlushStop ==
  /\ flusher = "forward_stop"
  /\ flusher' = "idle"
  /\ upstream_flushing' = FALSE
  /\ stream_lock' = Nobody
  /\ UNCHANGED <<payload, parse_stage, flushing, stream_vars, task, pc, output_buffer, downstream, seek_vars,
                 num_flushes>>

-------------------------------------------------------------------------------

Task ==
  \/ ScanningFinished \/ StartStreaming \/ ResumeTask \/ YieldLock \/ StartIteration
  \/ ProduceOutput \/ PullFlushed \/ ReachEos \/ PushFlushed

Seek(t) ==
  \/ FlushStartUpstream(t) \/ FlushStartDownstream(t) \/ StopLoop(t) \/ TakeStreamLock(t)
  \/ (\E request \in Requests : PerformSeek(t, request)) \/ RefuseSeek(t)
  \/ FlushStopUpstream(t) \/ FlushStopDownstream(t) \/ PushSeekSegment(t) \/ RestartLoop(t)

Flush == ForwardFlushStart \/ FlushStopEvent \/ EndFlushing \/ RepeatSegment \/ ForwardFlushStop

Next ==
  \/ Task \/ PushAccepted \/ PushEnded \/ FlushStartEvent \/ Flush
  \/ \E t \in Seekers : CheckSeek(t) \/ Seek(t)

\* Threads that can go on do so.  Downstream may block for as long as it is not flushed, and
\* nobody has to seek or flush.
Fairness == WF_vars(Task) /\ WF_vars(Flush) /\ \A t \in Seekers : WF_vars(Seek(t))

Spec == Init /\ [][Next]_vars /\ Fairness

-------------------------------------------------------------------------------
(***************************************************************************)
(* Properties.                                                             *)
(***************************************************************************)

TypeOK ==
  /\ payload \in Payloads
  /\ parse_stage \in {"ScanningInfo", "Streaming", "StreamFailure"} /\ flushing \in BOOLEAN
  /\ segment.start \in -1 .. Duration /\ segment.position \in -1 .. Duration
  /\ segment.stop \in NoStop .. Duration
  /\ byte_position \in PayloadPosition .. EndOfPayload /\ current_index \in 0 .. TotalNumIndices
  /\ task \in {"started", "paused"} /\ stream_lock \in Seekers \cup {"task", "flusher", Nobody}
  /\ pc \in {"scan", "announce", "top", "produce", "push"}
  /\ accepted \in 0 .. MaxSeeks

\* A buffer holds, for each channel, the samples that its index stands for, from where the
\* interleaved blocks have them; what the last block holds past the sample count is silence.
SamplesInPlace ==
  pc = "push" =>
    \A channel \in 0 .. NumChannels - 1, k \in 0 .. BlockSize - 1 :
      output_buffer.data[channel * BlockSize + k] =
        LET sample == output_buffer.index * BlockSize + k
        IN  IF sample < payload.actual
            THEN PayloadPosition + output_buffer.index * Alignment + channel * BlockSize + k
            ELSE Silence

\* "After a flush in pull mode, a segment event must be pushed downstream, because the sticky
\* segment events downstream have been cleared by the flush" (gstdsdmediaparse.cpp:959): no
\* buffer comes without a segment.
SegmentComesFirst ==
  [][PushAccepted => downstream.seqnum # NoSeqnum]_vars

\* The first buffer after the segment of a seek is a discontinuity that spans the segment's
\* start, and each further buffer continues where the one before it ended.
BuffersFollowSegment ==
  [][PushAccepted /\ downstream.seqnum # NoSeqnum =>
       IF downstream.next = NoIndex
       THEN /\ output_buffer.discont
            /\ num_flushes = 0 => TimeOf(output_buffer.index) <= downstream.start
            /\ downstream.start <= TimeOf(output_buffer.index + 1)
       ELSE ~output_buffer.discont /\ output_buffer.index = downstream.next]_vars

\* The block groups that the payload holds in full.
WholeGroups == Least(TotalNumIndices, payload.size \div Alignment)

\* A seek in bytes plays every block group that the bytes it asks for have a part in: neither
\* the rounding of its start, nor that of its stop, nor a start of type NONE, which is a time,
\* cuts one of them off.
SegmentSpansBytes ==
  [][\A t \in Seekers, request \in Requests :
       PerformSeek(t, request) /\ request.format = "BYTES" =>
         \A group \in 0 .. WholeGroups - 1 :
           /\ request.start # Here /\ request.start < (group + 1) * Alignment =>
                segment'.start <= TimeOf(group)
           /\ request.stop >= 0 /\ group * Alignment < request.stop =>
                segment'.stop >= TimeOf(group + 1)]_vars

\* The block groups that have to be played for a segment that stops there.
GroupsBefore(stop) ==
  IF stop = NoStop THEN WholeGroups
  ELSE Cardinality({group \in 0 .. WholeGroups - 1 : TimeOf(group) < stop})

\* Downstream is told of the end only when every whole block group from the segment's start
\* up to its stop has been pushed.
EosMeansAllPlayed ==
  [][downstream'.eos /\ ~downstream.eos /\ downstream.seqnum # NoSeqnum =>
       IF downstream.next = NoIndex THEN num_flushes = 0 => downstream.start >= TimeOf(GroupsBefore(downstream.stop))
                                    ELSE downstream.next \in GroupsBefore(downstream.stop) .. WholeGroups]_vars

\* "Seeking can be done safely now": the fields that the loop uses without field_mutex are only
\* moved between two of its iterations, by the thread that has the stream lock.
LoopIsStill ==
  \A t \in Seekers : At(t, "locked") => pc = "top" /\ stream_lock = t

\* When no seek and no flush is going on, the loop is only paused because it has reached the
\* end or has failed: nobody leaves it behind.
QuietLoopRuns ==
  task = "paused" /\ flusher = "idle" /\ (\A t \in Seekers : At(t, "idle")) =>
    downstream.eos \/ parse_stage = "StreamFailure"

\* A seek that passes the first check gets through even when downstream has blocked the task,
\* unless another seek or a flush gets in its way.
SeekEnds ==
  \A t \in Seekers :
    At(t, "flush_up") ~>
      At(t, "idle") \/ flusher # "idle" \/ \E other \in Seekers \ {t} : ~At(other, "idle")

\* As long as downstream takes buffers, seeks and flushes all get through, however many there
\* are: the task, the seeking threads and the flush pass the stream lock and the paused task
\* on to each other.
LocksAreReleased ==
  WF_vars(PushAccepted) =>
    /\ \A t \in Seekers : At(t, "flush_up") ~> At(t, "idle")
    /\ flusher = "lock" ~> flusher = "idle"

\* Pull mode keeps what GstDsdMediaParse promises to those who seek and play.
Contract == INSTANCE SeekContract WITH
  total   <- WholeGroups,
  asked   <- accepted,
  current <- current_seqnum,
  heard   <- [seqnum |-> downstream.seqnum, first |-> downstream.first, next |-> downstream.next,
              last |-> GroupsBefore(downstream.stop)],
  ended   <- downstream.eos,
  failed  <- parse_stage = "StreamFailure"

ImplementsSeekContract == Contract!Spec

===============================================================================
