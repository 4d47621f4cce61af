------------------------------- MODULE ScanFlush -------------------------------
(***************************************************************************)
(* A scan, as ChunkParse has it, that somebody else flushes: an element    *)
(* upstream or an application that seeks there (push mode), or an element  *)
(* downstream.  flush-start comes at any time and does not wait for the    *)
(* streaming thread, which looks at the flushing flag in each iteration of *)
(* its loop and before a skip that seeks upstream.  flush-stop and the     *)
(* segment behind it wait for the stream lock.                             *)
(*                                                                         *)
(* A step of ChunkParse that is taken while flushing is one whose check    *)
(* came before the flush.                                                  *)
(***************************************************************************)
EXTENDS ChunkParseInvariant

CONSTANTS MaxFlushes   \* bound: flushes during a scan

ASSUME FlushAssumption == MaxFlushes \in Nat

VARIABLES
  flushing,
  flush_in_progress,   \* from flush-start to flush-stop, at its sender
  num_flushes

flush_vars == <<flushing, flush_in_progress, num_flushes>>
all_vars   == <<vars, flush_vars>>

\* paused  the streaming thread has returned FLUSHING and upstream, or the task, has paused
FlushPlaces == Places \cup {"paused"}

FlushInit == Init /\ flushing = FALSE /\ flush_in_progress = FALSE /\ num_flushes = 0

-------------------------------------------------------------------------------

FlushStart ==
  /\ Scanning /\ ~flush_in_progress /\ num_flushes < MaxFlushes
  /\ flushing' = TRUE /\ flush_in_progress' = TRUE
  /\ num_flushes' = num_flushes + 1
  /\ UNCHANGED vars

\* The chain function is entered with a buffer that was on its way; it is refused.
RefuseBuffer ==
  /\ pc = "idle" /\ Pushing /\ flushing
  /\ pc' = "paused"
  /\ UNCHANGED <<medium, io_vars, parse_stage, payload, stack_vars, prop_vars, pop_vars, flow_ret,
                 scan_from, flush_vars>>

\* FLUSHING comes out of the loop's own check, of a skip that would seek upstream, or of
\* gst_pad_pull_range().  None of them has changed anything.
AbortScan ==
  /\ flushing
  /\ \/ pc = "loop"
     \/ pc = "text" /\ ~Pushing
  /\ pc' = "paused" /\ scan_from' = 0
  /\ UNCHANGED <<medium, io_vars, parse_stage, payload, stack_vars, prop_vars, pop_vars, flow_ret,
                 flush_vars>>

\* report_payload_found() has stored the payload when its skip returns FLUSHING.
AbortPayloadSkip ==
  /\ flushing
  /\ Parsing("Payload")
  /\ FieldsAreComplete /\ NumAvailable >= FrameSize
  /\ ~PayloadLocated /\ medium.seekable
  /\ Front.size <= NumAvailable /\ SkipsBySeeking(Front.size, TRUE)
  /\ payload' = [position |-> byte_position, size |-> Front.size]
  /\ pc' = "paused"
  /\ UNCHANGED <<io_vars, parse_stage, stack_vars, prop_vars, flow_ret, flush_vars>>

\* Where upstream goes on: at the start, where the parser was, or where upstream was.
FlushPositions == {0, Lesser(byte_position, medium.size), upstream_position}

\* Mutant of FlushStop: the adapter keeps what it held before the flush.
FlushStopKeepingData ==
  /\ flush_in_progress /\ pc \in {"idle", "paused"}
  /\ flushing' = FALSE /\ flush_in_progress' = FALSE
  /\ IF Pushing
     THEN \E position \in FlushPositions :
            /\ upstream_position' = position /\ pending_segment_start' = position
            /\ pc' = "idle"
            /\ UNCHANGED available
     ELSE pc' = "loop" /\ UNCHANGED <<upstream_position, pending_segment_start, available>>
  /\ UNCHANGED <<medium, byte_position, parse_stage, payload, stack_vars, prop_vars, pop_vars, flow_ret,
                 scan_from, num_flushes>>

\* Mutant of FlushStop: the flag stays set.
FlushStopStillFlushing ==
  /\ flush_in_progress /\ pc \in {"idle", "paused"}
  /\ flush_in_progress' = FALSE
  /\ IF Pushing
     THEN \E position \in FlushPositions :
            /\ upstream_position' = position /\ pending_segment_start' = position
            /\ pc' = "idle" /\ available' = 0
     ELSE pc' = "loop" /\ UNCHANGED <<upstream_position, pending_segment_start, available>>
  /\ UNCHANGED <<medium, byte_position, parse_stage, payload, stack_vars, prop_vars, pop_vars, flow_ret,
                 scan_from, flushing, num_flushes>>

\* The adapter is emptied.  Upstream owes a segment; in pull mode the loop is started again.
FlushStop ==
  /\ flush_in_progress /\ pc \in {"idle", "paused"}
  /\ flushing' = FALSE /\ flush_in_progress' = FALSE
  /\ IF Pushing
     THEN \E position \in FlushPositions :
            /\ upstream_position' = position /\ pending_segment_start' = position
            /\ pc' = "idle" /\ available' = 0
     ELSE pc' = "loop" /\ UNCHANGED <<upstream_position, pending_segment_start, available>>
  /\ UNCHANGED <<medium, byte_position, parse_stage, payload, stack_vars, prop_vars, pop_vars, flow_ret,
                 scan_from, num_flushes>>

\* Mutant of SeekHasDeviated: any segment is taken for the one that is awaited.
AnySegmentWillDo == FALSE

\* gst_dsd_media_check_for_deviated_upstream_seek()
SeekHasDeviated ==
  parse_stage = "AwaitingSegment" /\ pending_segment_start # payload.position

\* No subclass can resynchronise: the stream has failed.
RefuseSegment ==
  /\ pc = "idle" /\ ~flush_in_progress
  /\ pending_segment_start # NoSegment /\ SeekHasDeviated
  /\ pending_segment_start' = NoSegment
  /\ parse_stage' = "StreamFailure"
  /\ pc' = "stopped"
  /\ UNCHANGED <<medium, byte_position, available, upstream_position, payload, stack_vars, prop_vars,
                 pop_vars, flow_ret, scan_from, flush_vars>>

-------------------------------------------------------------------------------

FlushedThread == (StreamingThread /\ UNCHANGED flush_vars) \/ AbortScan \/ AbortPayloadSkip

\* While upstream is flushed, it sends nothing but what was on its way.
FlushedUpstream ==
  \/ /\ ~flushing
     /\ Deliver \/ (UpstreamSegment /\ ~SeekHasDeviated) \/ EndOfStream
     /\ UNCHANGED flush_vars
  \/ RefuseBuffer
  \/ RefuseSegment

FlushNext == FlushedThread \/ FlushedUpstream \/ FlushStart \/ FlushStop

FlushSpec ==
  /\ FlushInit /\ [][FlushNext]_all_vars
  /\ WF_all_vars(FlushedThread) /\ WF_all_vars(FlushedUpstream) /\ WF_all_vars(FlushStop)

-------------------------------------------------------------------------------
(***************************************************************************)
(* Properties, besides InputAligned of ChunkParse                          *)
(***************************************************************************)

FlushTypeOK ==
  /\ medium \in Media
  /\ byte_position \in UInt64 /\ available \in UInt64 /\ upstream_position \in UInt64
  /\ pending_segment_start \in UInt64 \cup {NoSegment}
  /\ parse_stage \in Stages
  /\ payload \in [position : UInt64, size : UInt64]
  /\ m_stack \in Seq(Chunk) /\ chunk_parse_stage \in ChunkParseStages
  /\ parsed \subseteq Fourccs
  /\ num_chars \in [Fourccs -> UInt64 \cup {NotRead}]
  /\ upstream_size \in UInt64 /\ prop_finished \in BOOLEAN
  /\ pc \in FlushPlaces /\ flow_ret \in FlowReturns
  /\ scan_from \in UInt64 /\ pop_position \in UInt64
  /\ iter \in Nat \ {0} /\ any_popped \in BOOLEAN
  /\ flushing \in BOOLEAN /\ flush_in_progress \in BOOLEAN
  /\ num_flushes \in 0 .. MaxFlushes

\* A flush moves the position out of the chunks that are entered, but never to where
\* content is parsed without a chunk; and what it interrupts has not failed.
FlushControl ==
  /\ pc \in {"idle", "loop", "text", "finish", "pop", "corrupt_settle", "corrupt_finish", "paused"} =>
       flow_ret # "ERROR"
  /\ pc = "idle" => Pushing
  /\ pc = "finish" => Scanning
  /\ pc \in {"finish", "pop"} => chunk_parse_stage = "FinishingChunk"
  /\ pc = "text" => chunk_parse_stage = "ParsingChunkContent"
  /\ chunk_parse_stage = "ParsingChunkContent" => m_stack # << >> /\ Front.size > 0

FlushInput == upstream_position <= medium.size /\ InputAligned

\* While the element awaits its segment one is due, if not always its own; and the
\* payload begins where upstream can go.
FlushPayload ==
  /\ parse_stage = "AwaitingSegment" => PayloadLocated /\ pending_segment_start # NoSegment
  /\ PayloadLocated /\ Pushing => payload.position <= medium.size

\* The inductive invariant of a flushed scan.  It says nothing of where the chunks on the
\* stack lie: a flush back to the start makes for a second scan inside what the first one
\* has on its stack, with positions before all of it.
FlushInv == FlushTypeOK /\ FlushControl /\ FlushInput /\ FlushPayload

StreamingStarts == parse_stage # "Streaming" /\ parse_stage' = "Streaming"
InPlace         == /\ payload'.size > 0
                   /\ byte_position' = payload'.position
                   /\ Pushing => upstream_position' = payload'.position + available'

\* Wherever a flush has moved upstream, and whichever of the segments of the flush and of the
\* parser's own seek comes last, playback starts with the first byte of the payload.
PlaybackStartsInPlace == [][StreamingStarts => InPlace]_all_vars

\* However a flush interrupts it, a scan still comes to a verdict.  (One of them is the
\* assertion that the payload is reported once, which a report that was interrupted in
\* its skip and resumed stumbles over.)
FlushedScanEnds ==
  <>(\/ parse_stage \in {"Streaming", "StreamFailure"}
     \/ pc = "aborted"
     \/ pc = "stopped" /\ flow_ret \in {"ERROR", "EOS"})

===============================================================================
