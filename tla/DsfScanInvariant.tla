--------------------------- MODULE DsfScanInvariant ---------------------------
(***************************************************************************)
(* The inductive invariant of the scan of a DSF medium, by its parts.  TLC *)
(* checks it on the small instance; DsfScanProofs proves that every step   *)
(* keeps it.                                                               *)
(***************************************************************************)
EXTENDS DsfScan

IsHeader(chunk) == Known(chunk.fourcc) /\ Descriptions[chunk.fourcc].parse = "Header"

AtContent == Scanning /\ chunk_parse_stage = "ParsingChunkContent"
AtHeader  == AtContent /\ IsHeader(Front)

\* No chunk is entered while another one is open: the stack is empty exactly when the
\* start of a chunk is to be parsed, and the second pass of pop_finished_chunks()
\* empties it.
FlatStack ==
  /\ Len(m_stack) <= 1
  /\ IF pc = "pop"
     THEN iter >= 1 /\ (any_popped <=> m_stack = << >>)
     ELSE chunk_parse_stage = "ParsingChunkStart" <=> m_stack = << >>

\* The padded size of a chunk is no less than its size; that of a header chunk is
\* what its parse function reads.
ChunkExtent ==
  m_stack # << >> =>
    /\ Front.payload_begin_pos + Front.size <= Front.payload_end_pos
    /\ IsHeader(Front) => Front.payload_end_pos = Front.payload_begin_pos + Prefix

\* Which stages and flow returns go with which place.
DsfControl ==
  /\ pc \in {"idle", "loop", "header_read", "id3v2"} => flow_ret \in {"OK", "NOT_ENOUGH_DATA"}
  /\ pc \in {"finish", "pop", "corrupt_settle", "corrupt_finish", "seek_back", "reported"} =>
       flow_ret # "ERROR"
  /\ pc = "idle" => Pushing
  /\ pc \in {"finish", "pop", "corrupt_finish", "corrupt_settle"} => Scanning
  /\ pc \in {"finish", "pop", "corrupt_finish"} => chunk_parse_stage = "FinishingChunk"
  /\ pc = "corrupt_settle" => chunk_parse_stage # "FinishingChunk"
  /\ pc = "settle" /\ Scanning /\ chunk_parse_stage = "FinishingChunk" =>
       flow_ret \in {"OK", "NOTHING_TO_READ"}
  /\ pc = "settle" /\ flow_ret = "ADVANCE_OUT_OF_BOUNDS" => Scanning
  /\ pc = "reported" => PayloadLocated /\ chunk_parse_stage = "ParsingChunkContent"
                        /\ parse_stage \in {"ScanningInfo", "Streaming"}
  /\ pc \notin {"aborted", "text"}

\* Outside of the excursion, a chunk's content, which is not empty, is parsed from its
\* first byte, which the medium has; and of an unknown chunk something is left to be
\* skipped.
ContentBegins ==
  AtContent /\ ~reading_id3v2_metadata /\ flow_ret # "ERROR"
            /\ pc \notin {"header_read", "seek_back", "reported"} =>
    /\ pending_segment_start = NoSegment
    /\ IF Known(Front.fourcc)
       THEN /\ Front.size > 0
            /\ byte_position = Front.payload_begin_pos /\ byte_position <= medium.size
       ELSE byte_position < Front.payload_end_pos

\* A header chunk is finished in the call that finished parsing it, at its end.
HeaderFinished ==
  Scanning /\ chunk_parse_stage = "FinishingChunk" /\ m_stack # << >> /\ IsHeader(Front) =>
    \/ pc \in {"settle", "finish"} /\ byte_position = Front.payload_end_pos
    \/ pc \in {"pop", "corrupt_finish"}
    \/ flow_ret = "ERROR"

\* In push mode, upstream goes on where the adapter ends, or ahead of it when it has
\* refused a seek to the tag; while a segment is due, the adapter is empty.
DsfInput ==
  /\ upstream_position <= medium.size
  /\ pending_segment_start # NoSegment => Pushing
  /\ Pushing /\ Scanning /\ flow_ret # "ERROR" =>
       IF pending_segment_start = NoSegment
       THEN /\ byte_position + available <= upstream_position
            /\ ~seek_refused \/ reading_id3v2_metadata =>
                 byte_position + available = upstream_position
       ELSE upstream_position = pending_segment_start /\ available = 0

\* After the scan, upstream is or will be at the payload.
DsfStream ==
  /\ parse_stage = "AwaitingSegment" =>
       /\ Pushing /\ PayloadLocated
       /\ pending_segment_start = payload.position
       /\ upstream_position = payload.position
  /\ parse_stage = "Streaming" /\ Pushing =>
       /\ pending_segment_start = NoSegment
       /\ ~seek_refused => upstream_position = byte_position + available

\* The parse function has asked for more of the tag than the adapter has.
Starved ==
  IF id3v2_size = NotRead THEN available < Id3v2HeaderSize
                          ELSE available = 0 \/ (TagIsReadable /\ available < NumLeftover)

\* Between the seek to the tag and the seek back.
Excursion == pc = "header_read" \/ reading_id3v2_metadata \/ pc = "seek_back"

\* The excursion starts from the end of the header chunk, and its next read is inside
\* the medium.
ExcursionInside ==
  Excursion /\ pc # "stopped" =>
    /\ AtHeader /\ upstream_size = medium.size
    /\ id3v2_pre_seek_byte_position = Front.payload_end_pos
    /\ id3v2_pre_seek_byte_position <= medium.size
    /\ pc \in {"header_read", "seek_back"} => ~reading_id3v2_metadata
    /\ pc = "header_read" =>
         pending_segment_start = NoSegment /\ byte_position = Front.payload_end_pos
    /\ reading_id3v2_metadata =>
         /\ byte_position <= medium.size
         /\ id3v2_size = NotRead => byte_position + Id3v2HeaderSize <= medium.size
         /\ pending_segment_start # NoSegment => pending_segment_start = byte_position

\* Where the excursion is interrupted: in push mode only for want of data, and every
\* call that does not lack data advances.
ExcursionProgress ==
  /\ pc = "id3v2" => reading_id3v2_metadata
  /\ reading_id3v2_metadata =>
       /\ pc \in {"idle", "loop", "id3v2", "settle", "scanned", "stopped"}
       /\ flow_ret \in {"OK", "NOT_ENOUGH_DATA"} \/ (pc = "stopped" /\ flow_ret = "ERROR")
       /\ Pushing =>
            /\ pc = "id3v2" => available = 0 \/ scan_from = byte_position
            /\ pc \in {"settle", "scanned"} =>
                 (flow_ret = "NOT_ENOUGH_DATA" /\ Starved) \/ (flow_ret = "OK" /\ scan_from < byte_position)
            /\ pc = "idle" => Starved
            /\ pc = "stopped" => id3v2_size # NotRead /\ byte_position = medium.size

\* The payload, once reported, ends the scan; until then nothing has been deducted from
\* the bytes that the format chunk has announced.
PayloadReported ==
  /\ payload.position <= medium.size
  /\ PayloadInsideMedium
  /\ IndicesCoverPayload
  /\ ~PayloadLocated => fmt_data.actual = fmt_data.expected
  /\ PayloadLocated /\ Scanning =>
       \/ pc \in {"reported", "corrupt_settle", "stopped"}
       \/ pc = "settle" /\ flow_ret \in {"ERROR", "ADVANCE_OUT_OF_BOUNDS"}
       \/ pc = "scanned" /\ flow_ret = "ERROR"

DsfInv ==
  /\ DsfTypeOK /\ FlatStack /\ ChunkExtent /\ DsfControl
  /\ ContentBegins /\ HeaderFinished
  /\ DsfInput /\ DsfStream
  /\ ExcursionInside /\ ExcursionProgress
  /\ PayloadReported

===============================================================================
