------------------------- MODULE ScanOutcomeInvariant -------------------------
(***************************************************************************)
(* What has to be added to ScanInv for the outcome of a scan: where        *)
(* playback starts, what scan_info() returns to the loop, and what a chunk *)
(* is finished with.  TLC checks it together with ScanInv on the small     *)
(* instance; ScanOutcomeProofs proves that every step keeps it.            *)
(***************************************************************************)
EXTENDS ChunkParseInvariant

\* Outside of the Scanning Info stage: upstream is in step with the byte position, or the
\* segment that is due starts at the payload.
StreamInv ==
  /\ parse_stage = "AwaitingSegment" =>
       /\ Pushing /\ PayloadLocated
       /\ pending_segment_start = payload.position
       /\ upstream_position = payload.position
  /\ Pushing /\ parse_stage = "Streaming" =>
       /\ pending_segment_start = NoSegment
       /\ upstream_position = byte_position + available

\* A segment that is due while scanning starts at the byte position, or where the medium
\* ends; of the medium's end, nothing more is scanned.
PendingInv ==
  Pushing /\ Scanning /\ flow_ret # "ERROR" /\ pending_segment_start # NoSegment =>
    pending_segment_start \in {byte_position, medium.size}

\* The payload lies in the medium, and the scan goes on behind its first byte.
PayloadInv ==
  /\ Pushing => payload.position <= medium.size
  /\ PayloadLocated /\ Scanning /\ flow_ret # "ERROR" =>
       payload.position < byte_position \/ (Pushing /\ byte_position = medium.size)

\* A chunk whose content is parsed is not empty, and a text is resumed at its length, or
\* where some of it is left to be read.
ContentLeftInv ==
  Scanning /\ flow_ret # "ERROR" /\ chunk_parse_stage = "ParsingChunkContent" /\ m_stack # << >> =>
    /\ Front.size > 0
    /\ Known(Front.fourcc) /\ Descriptions[Front.fourcc].parse = "Text" =>
         byte_position = Front.payload_begin_pos \/ TextLength > 0 \/ pc = "text"

HasMovedForward == scan_from < byte_position
BeforeEndOfFront == m_stack # << >> /\ byte_position < Front.payload_end_pos

\* Only a pad byte that has not arrived keeps a chunk from being finished.
RetryInv ==
  Scanning /\ chunk_parse_stage = "FinishingChunk" /\ flow_ret # "ERROR" /\ pc \in {"idle", "loop", "scanned"} =>
    /\ Pushing
    /\ OnPadByte \/ byte_position = medium.size

\* How far a call of scan_info() has come, at the places in it: where it returns OK it
\* has advanced, or stands before the end of a chunk that it then fails to finish.
ProgressInv ==
  /\ pc \in {"text", "settle", "corrupt_settle", "finish"} /\ Scanning => scan_from <= byte_position
  /\ pc = "text" => /\ TextLength # NotRead
                    /\ \/ byte_position = Front.payload_begin_pos
                       \/ TextLength > 0
                       \/ HasMovedForward
  /\ pc = "settle" /\ flow_ret = "OK" =>
       /\ Scanning
       /\ HasMovedForward \/ (chunk_parse_stage = "FinishingChunk" /\ BeforeEndOfFront)
  /\ pc = "finish" /\ flow_ret = "OK" => HasMovedForward \/ BeforeEndOfFront
  /\ pc = "pop" /\ flow_ret = "OK" =>
       \/ HasAdvanced
       \/ ~any_popped /\ \A i \in DOMAIN m_stack : m_stack[i].payload_end_pos > pop_position
  /\ pc = "scanned" /\ flow_ret = "OK" => HasAdvanced
  /\ PayloadLocated /\ (pc = "text" \/ (pc \in {"settle", "finish", "pop"} /\ flow_ret = "OK")) =>
       payload.position < scan_from

\* Which flow returns reach which place.
FlowInv ==
  /\ pc \in {"finish", "pop"} => flow_ret \in {"OK", "NOTHING_TO_READ"}
  /\ pc \in {"settle", "scanned"} /\ flow_ret = "NOT_ENOUGH_DATA" => Pushing
  /\ pc = "scanned" => flow_ret # "ADVANCE_OUT_OF_BOUNDS"
  /\ pc = "settle" /\ Scanning /\ chunk_parse_stage = "FinishingChunk" =>
       flow_ret \in {"OK", "NOTHING_TO_READ"}
  /\ pc = "corrupt_settle" /\ Scanning => chunk_parse_stage # "FinishingChunk"

\* The fields that PROP is validated for come from chunks whose content has been parsed by
\* the time the next header is read; until then the chunk is the innermost.
FieldsInv ==
  /\ \A f \in Fourccs : num_chars[f] # NotRead => f \in parsed
  /\ \A i \in DOMAIN m_stack :
       m_stack[i].fourcc \in RequiredFields /\ (i > 1 \/ chunk_parse_stage # "ParsingChunkContent") =>
         m_stack[i].fourcc \in parsed

\* Where what has been observed is still looked at: only a chunk that did not fit into its
\* parent is observed and not parsed, and ends the scan.
Observing == pc = "pop" \/ (Scanning /\ flow_ret # "ERROR" /\ pc # "corrupt_settle")

\* A chunk that has been observed has been parsed, or is being parsed.
ObservedInv ==
  Observing =>
    \A i \in DOMAIN m_stack : \A f \in m_stack[i].observed \cap RequiredFields :
      \/ f \in parsed
      \/ chunk_parse_stage = "ParsingChunkContent" /\ f = Front.fourcc

\* The parts about what scan_info() returns, and about what it leaves on the stack.
ReturnsInv == ContentLeftInv /\ RetryInv /\ ProgressInv /\ FlowInv /\ FieldsInv /\ ObservedInv

OutcomeInv == StreamInv /\ PendingInv /\ PayloadInv /\ ReturnsInv

\* With both, every step finds what the properties about the scan's outcome rest on.
ScanOutcomeInv == ScanInv /\ OutcomeInv

===============================================================================
