------------------------------- MODULE MediaScan -------------------------------
(***************************************************************************)
(* The Scanning Info half of GstDsdMediaParse (gstdsdmediaparse.cpp): how  *)
(* the medium reaches the parser, and the functions a subclass calls from  *)
(* its scan_info().  A read or a skip is a relation between its arguments  *)
(* and what it returns, so that a caller handles every outcome.            *)
(*                                                                         *)
(* Upstream is external.  In push mode it pushes buffers in order, and     *)
(* either sends the segment that answers a seek from within the seek call  *)
(* or when the streaming thread is back in it (pending_segment_start).  A  *)
(* flushing seek leaves no buffer from before the seek in flight.          *)
(***************************************************************************)
EXTENDS ChunkStack

CONSTANTS
  Media,          \* the media, each with the way upstream gives access to it
  BufferSizes,    \* the sizes of the buffers upstream pushes
  SeekThreshold   \* UPSTREAM_SEEK_THRESHOLD

Medium == [size : UInt64, mode : {"push", "pull"}, seekable : BOOLEAN]

ASSUME MediaAssumption ==
  /\ Media \subseteq Medium
  /\ \A m \in Media : m.mode = "pull" => m.seekable
ASSUME BufferSizesAssumption  == BufferSizes \subseteq Nat \ {0}
ASSUME SeekThresholdAssumption == SeekThreshold \in Nat /\ SeekThreshold > 1

Stages == {"ScanningInfo", "AwaitingSegment", "Streaming", "StreamFailure"}

\* GstFlowReturn with the two custom codes; ERROR stands for NOT_SUPPORTED too.
FlowReturns == {"OK", "EOS", "ERROR", "NOTHING_TO_READ", "NOT_ENOUGH_DATA",
                "ADVANCE_OUT_OF_BOUNDS"}

NoSegment == -1
NoPayload == [position |-> 0, size |-> 0]

VARIABLES
  medium,                 \* the medium, upstream_is_seekable and sinkpad_mode
  byte_position,
  available,              \* gst_adapter_available(input_adapter)
  upstream_position,      \* the next byte upstream pushes (push mode)
  pending_segment_start,  \* start of a segment that upstream has yet to send
  parse_stage,
  payload                 \* payload_position and payload_size

io_vars == <<byte_position, available, upstream_position, pending_segment_start>>

Pushing        == medium.mode = "push"
Scanning       == parse_stage = "ScanningInfo"
PayloadLocated == payload.size > 0
Lesser(a, b)   == IF a <= b THEN a ELSE b

MediaScanInit ==
  /\ medium \in Media
  /\ byte_position = 0
  /\ available = 0
  /\ upstream_position = 0
  /\ pending_segment_start = NoSegment
  /\ parse_stage = "ScanningInfo"
  /\ payload = NoPayload

-------------------------------------------------------------------------------
(***************************************************************************)
(* gst_dsd_media_parse_read_data_during_scan()                             *)
(***************************************************************************)

Consume(n) ==
  /\ byte_position' = Wrap(byte_position + n)
  /\ available' = IF Pushing THEN available - n ELSE available
  /\ UNCHANGED <<upstream_position, pending_segment_start>>

\* Mutant of ReadReturnCode: reads more than the adapter has.
ReadReturnCodeUnchecked(n) ==
  IF ~VerifyAdvance(byte_position, n)                    THEN "ADVANCE_OUT_OF_BOUNDS"
  ELSE IF ~Pushing /\ byte_position + n > medium.size    THEN "EOS"
  ELSE "OK"

ReadReturnCode(n) ==
  IF Pushing /\ available < n                            THEN "NOT_ENOUGH_DATA"
  ELSE IF ~VerifyAdvance(byte_position, n)               THEN "ADVANCE_OUT_OF_BOUNDS"
  ELSE IF ~Pushing /\ byte_position + n > medium.size    THEN "EOS"
  ELSE "OK"

Read(n, ret) ==
  /\ ret = ReadReturnCode(n)
  /\ IF ret = "OK" THEN Consume(n) ELSE UNCHANGED io_vars

-------------------------------------------------------------------------------
(***************************************************************************)
(* gst_dsd_media_parse_skip_data_during_scan_full().  A relation between   *)
(* the arguments, the flow return and the number of bytes skipped.         *)
(***************************************************************************)

SkipsByConsuming(n)    == ~Pushing \/ n <= available
SkipsPartially(n, force) ==
  /\ ~SkipsByConsuming(n)
  /\ (~force /\ n < SeekThreshold) \/ ~medium.seekable
SkipsBySeeking(n, force) == ~SkipsByConsuming(n) /\ ~SkipsPartially(n, force)

\* Upstream performs a flushing seek to a byte position; a position beyond its
\* end becomes its end.  The segment comes at once (sync) or is left pending.
UpstreamSeek(position, sync) ==
  LET start == Lesser(position, medium.size)
  IN  /\ upstream_position' = start
      /\ pending_segment_start' = IF sync THEN NoSegment ELSE start

\* Mutant of SeekForward: the adapter is not cleared before the seek.
SeekForwardKeepingData(n, ret) ==
  /\ UNCHANGED available
  /\ \/ /\ ret = "OK"
        /\ \E sync \in BOOLEAN :
             /\ UpstreamSeek(Wrap(byte_position + n), sync)
             /\ byte_position' = IF sync THEN upstream_position' ELSE Wrap(byte_position + n)
     \/ /\ ret = "ERROR"
        /\ UNCHANGED <<byte_position, upstream_position, pending_segment_start>>

SeekForward(n, ret) ==
  /\ available' = 0
  /\ \/ /\ ret = "OK"
        /\ \E sync \in BOOLEAN :
             /\ UpstreamSeek(Wrap(byte_position + n), sync)
             /\ byte_position' = IF sync THEN upstream_position' ELSE Wrap(byte_position + n)
     \/ \* upstream refuses the seek
        /\ ret = "ERROR"
        /\ UNCHANGED <<byte_position, upstream_position, pending_segment_start>>

Skip(n, force, ret, skipped) ==
  /\ skipped = IF SkipsPartially(n, force) THEN available ELSE n
  /\ IF skipped > 0 /\ ~VerifyAdvance(byte_position, skipped)
     THEN ret = "ADVANCE_OUT_OF_BOUNDS" /\ UNCHANGED io_vars
     ELSE IF SkipsBySeeking(n, force)
     THEN SeekForward(n, ret)
     ELSE ret = "OK" /\ Consume(skipped)

-------------------------------------------------------------------------------
(***************************************************************************)
(* gst_dsd_media_parse_seek_during_scan()                                  *)
(***************************************************************************)

\* Mutant of SeekDuringScan: the adapter is not cleared before the seek.
SeekDuringScanKeepingData(position, succeeds) ==
  /\ succeeds = medium.seekable
  /\ byte_position' = IF succeeds THEN position ELSE byte_position
  /\ UNCHANGED <<available, pending_segment_start>>
  /\ upstream_position' = IF succeeds /\ Pushing THEN position ELSE upstream_position

SeekDuringScan(position, succeeds) ==
  \/ /\ ~medium.seekable
     /\ ~succeeds
     /\ UNCHANGED io_vars
  \/ /\ medium.seekable /\ ~Pushing
     /\ succeeds
     /\ byte_position' = position
     /\ UNCHANGED <<available, upstream_position, pending_segment_start>>
  \/ /\ medium.seekable /\ Pushing
     /\ available' = 0
     /\ \/ /\ succeeds
           /\ \E sync \in BOOLEAN :
                /\ UpstreamSeek(position, sync)
                /\ byte_position' = IF sync THEN upstream_position' ELSE position
        \/ \* Upstream refuses the seek; what the adapter held is gone.
           /\ ~succeeds
           /\ UNCHANGED <<byte_position, upstream_position, pending_segment_start>>

-------------------------------------------------------------------------------
(***************************************************************************)
(* gst_dsd_media_parse_report_payload_found().  Its assertion that no      *)
(* payload was reported before is the caller's guard.                      *)
(***************************************************************************)

\* Mutant of ReportPayloadFound: skips the payload whether or not it can seek back.
ReportPayloadFoundSkipping(payload_size, force_immediate_streaming, ret) ==
  /\ ~PayloadLocated
  /\ payload' = [position |-> byte_position, size |-> payload_size]
  /\ IF ~force_immediate_streaming
     THEN /\ \E skipped \in {payload_size, available} : Skip(payload_size, TRUE, ret, skipped)
          /\ UNCHANGED parse_stage
     ELSE /\ parse_stage' = "Streaming"
          /\ ret \in {"OK", "ERROR"}
          /\ UNCHANGED io_vars

ReportPayloadFound(payload_size, force_immediate_streaming, ret) ==
  /\ ~PayloadLocated
  /\ payload' = [position |-> byte_position, size |-> payload_size]
  /\ IF medium.seekable /\ ~force_immediate_streaming
     THEN /\ \E skipped \in {payload_size, available} : Skip(payload_size, TRUE, ret, skipped)
          /\ UNCHANGED parse_stage
     ELSE \* The Streaming stage is entered, whether or not streaming_started() fails.
          /\ parse_stage' = "Streaming"
          /\ ret \in {"OK", "ERROR"}
          /\ UNCHANGED io_vars

-------------------------------------------------------------------------------
(***************************************************************************)
(* gst_dsd_media_parse_scanning_finished() and the segment it waits for    *)
(***************************************************************************)

\* Streaming starts at the payload, unless the initial events cannot be pushed
\* or the subclass refuses.
StartStreamingAt(position) ==
  /\ byte_position' = position
  /\ parse_stage' \in {"Streaming", "StreamFailure"}

FinishWithoutPayload ==
  /\ ~PayloadLocated
  /\ parse_stage' = "StreamFailure"
  /\ UNCHANGED io_vars

FinishByRewinding ==
  /\ PayloadLocated
  /\ ~Pushing
  /\ StartStreamingAt(payload.position)
  /\ UNCHANGED <<available, upstream_position, pending_segment_start>>

FinishBySeekingUpstream ==
  /\ PayloadLocated
  /\ Pushing
  /\ \/ /\ UpstreamSeek(payload.position, TRUE)
        /\ StartStreamingAt(upstream_position')
        /\ available' = 0
     \/ /\ UpstreamSeek(payload.position, FALSE)
        /\ parse_stage' = "AwaitingSegment"
        /\ UNCHANGED <<byte_position, available>>
     \/ \* upstream refuses the seek
        /\ parse_stage' = "StreamFailure"
        /\ UNCHANGED io_vars

ScanningFinished ==
  IF parse_stage = "Streaming"
  THEN UNCHANGED <<parse_stage, io_vars>>
  ELSE FinishWithoutPayload \/ FinishByRewinding \/ FinishBySeekingUpstream

\* Mutant of HandleSinkSegment: the adapter keeps what a scan had left unread.
HandleSinkSegmentKeepingData ==
  /\ pending_segment_start # NoSegment
  /\ pending_segment_start' = NoSegment
  /\ \/ /\ Scanning
        /\ byte_position' = pending_segment_start
        /\ UNCHANGED parse_stage
     \/ /\ parse_stage = "AwaitingSegment"
        /\ StartStreamingAt(pending_segment_start)
     \/ /\ parse_stage = "StreamFailure"
        /\ UNCHANGED <<byte_position, parse_stage>>
  /\ UNCHANGED <<available, upstream_position>>

\* gst_dsd_media_parse_handle_sink_segment_event()
HandleSinkSegment ==
  /\ pending_segment_start # NoSegment
  /\ pending_segment_start' = NoSegment
  /\ \/ /\ Scanning
        /\ byte_position' = pending_segment_start
        /\ UNCHANGED <<available, parse_stage>>
     \/ /\ parse_stage = "AwaitingSegment"
        /\ StartStreamingAt(pending_segment_start)
        /\ available' = 0
     \/ /\ parse_stage = "StreamFailure"
        /\ UNCHANGED <<byte_position, available, parse_stage>>
  /\ UNCHANGED upstream_position

===============================================================================
