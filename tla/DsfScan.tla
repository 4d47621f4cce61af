-------------------------------- MODULE DsfScan --------------------------------
(***************************************************************************)
(* A scan of a DSF medium: GstDsdChunkParse's scan_info(), as ChunkParse   *)
(* has it, with the parse functions of GstDSFParse (gstdsfparse.cpp).      *)
(*                                                                         *)
(* DSF chunks are flat.  The parse function of the header chunk makes an   *)
(* excursion: it seeks to the ID3v2 tag that the header points to, reads   *)
(* the tag in two calls (or more, while bytes are missing), and seeks back *)
(* to finish its chunk.  In push mode both seeks go upstream.  A seek that *)
(* is made while a segment is due replaces that segment.                   *)
(***************************************************************************)
EXTENDS ChunkParse

CONSTANTS
  MinimumSize,        \* 28 + 52 + 12, the smallest DSF medium
  Id3v2HeaderSize,    \* GST_TAG_ID3V2_HEADER_SIZE
  MetadataPositions,  \* the positions that DSF headers give for their ID3v2 tag
  Id3v2Sizes,         \* what gst_tag_get_id3v2_tag_size() returns; 0 for no tag
  NumChannels, BlockSize,
  ByteCounts          \* the number of DSD bytes per channel that fmt chunks give

ASSUME DsfAssumption ==
  /\ MinimumSize \in UInt64 /\ Id3v2HeaderSize \in 1 .. MinimumSize
  /\ MetadataPositions \subseteq UInt64 /\ Id3v2Sizes \subseteq UInt64
  /\ NumChannels \in Nat \ {0} /\ BlockSize \in Nat \ {0}
  /\ ByteCounts \subseteq UInt64 \ {0}

\* The table of chunk descriptions: all of a header chunk's content is read by one call,
\* and no pad byte follows it.
ASSUME DsfTableAssumption ==
  \A f \in DOMAIN Descriptions : Descriptions[f].parse = "Header" =>
    /\ Descriptions[f].size_type = "ExactSize"
    /\ Descriptions[f].size = Descriptions[f].prefix
    /\ Descriptions[f].prefix % 2 = 0

VARIABLES
  reading_id3v2_metadata, id3v2_pre_seek_byte_position,
  id3v2_size,         \* NotRead while id3v2_header_buffer is null
  fmt_data,           \* the expected and the actual bytes per channel, if there is one
  total_num_indices,
  seek_refused        \* history: upstream has refused a seek to the tag

dsf_vars == <<reading_id3v2_metadata, id3v2_pre_seek_byte_position, id3v2_size, fmt_data,
              total_num_indices, seek_refused>>
dff_vars == <<parsed, num_chars, prop_finished>>
all_vars == <<vars, dsf_vars>>

NoFormat == [expected |-> 0, actual |-> 0]

\* header_read  the header chunk gave a position for the tag; about to seek there
\* id3v2        past the test of reading_id3v2_metadata
\* seek_back    the tag is read or given up; about to seek back
\* reported     report_payload_found() has returned OK
DsfPlaces == Places \cup {"header_read", "id3v2", "seek_back", "reported"}

DsfInit ==
  /\ Init
  /\ reading_id3v2_metadata = FALSE /\ id3v2_pre_seek_byte_position = 0
  /\ id3v2_size = NotRead
  /\ fmt_data = NoFormat
  /\ total_num_indices = 0
  /\ seek_refused = FALSE

-------------------------------------------------------------------------------
(***************************************************************************)
(* gst_dsfparse_parse_chunk_dsf_header(): the header chunk                 *)
(***************************************************************************)

\* Neither a parse function's read nor its verdict has changed anything else.
OnlyStageAndInput == UNCHANGED <<parse_stage, payload, m_stack, dff_vars>>

ContentNotRead ==
  /\ ~reading_id3v2_metadata
  /\ \E kind \in {"Header", "Format"} : Parsing(kind)
  /\ \E ret \in FlowReturns \ {"OK"} : Read(Prefix, ret) /\ Returns(ret)
  /\ UNCHANGED <<chunk_parse_stage, upstream_size, dsf_vars>>
  /\ OnlyStageAndInput

\* Upstream does not know its size, or is smaller than any DSF medium.
HeaderRefused ==
  /\ ~reading_id3v2_metadata
  /\ Parsing("Header")
  /\ Read(Prefix, "OK")
  /\ \/ UNCHANGED upstream_size
     \/ medium.size < MinimumSize /\ upstream_size' = medium.size
  /\ Returns("ERROR")
  /\ UNCHANGED <<chunk_parse_stage, dsf_vars>>
  /\ OnlyStageAndInput

HasNoTag(position) == position = 0 \/ position > medium.size - Id3v2HeaderSize

ParseHeader ==
  /\ ~reading_id3v2_metadata
  /\ Parsing("Header")
  /\ medium.size >= MinimumSize
  /\ Read(Prefix, "OK")
  /\ upstream_size' = medium.size
  /\ \/ /\ \E position \in MetadataPositions : HasNoTag(position)
        /\ chunk_parse_stage' = "FinishingChunk"
        /\ Returns("OK")
        /\ UNCHANGED id3v2_pre_seek_byte_position
     \/ /\ \E position \in MetadataPositions : ~HasNoTag(position)
        /\ id3v2_pre_seek_byte_position' = byte_position'
        /\ pc' = "header_read"
        /\ UNCHANGED <<chunk_parse_stage, flow_ret>>
  /\ UNCHANGED <<reading_id3v2_metadata, id3v2_size, fmt_data, total_num_indices, seek_refused>>
  /\ OnlyStageAndInput

\* Mutant of SeekToMetadata: the position to return to is saved after the seek.
SeekToMetadataSavingLate ==
  /\ pc = "header_read"
  /\ \E position \in MetadataPositions, succeeds \in BOOLEAN :
       /\ ~HasNoTag(position)
       /\ SeekDuringScan(position, succeeds)
       /\ IF succeeds THEN pc' = "id3v2" /\ UNCHANGED <<chunk_parse_stage, flow_ret>>
                      ELSE chunk_parse_stage' = "FinishingChunk" /\ Returns("OK")
       /\ reading_id3v2_metadata' = succeeds
       /\ seek_refused' = (seek_refused \/ (Pushing /\ medium.seekable /\ ~succeeds))
  /\ id3v2_pre_seek_byte_position' = byte_position'
  /\ UNCHANGED <<medium, upstream_size, id3v2_size, fmt_data,
                 total_num_indices, pop_vars, scan_from>>
  /\ OnlyStageAndInput

SeekToMetadata ==
  /\ pc = "header_read"
  /\ \E position \in MetadataPositions, succeeds \in BOOLEAN :
       /\ ~HasNoTag(position)
       /\ SeekDuringScan(position, succeeds)
       /\ IF succeeds THEN pc' = "id3v2" /\ UNCHANGED <<chunk_parse_stage, flow_ret>>
                      ELSE chunk_parse_stage' = "FinishingChunk" /\ Returns("OK")
       /\ reading_id3v2_metadata' = succeeds
       /\ seek_refused' = (seek_refused \/ (Pushing /\ medium.seekable /\ ~succeeds))
  /\ UNCHANGED <<medium, upstream_size, id3v2_pre_seek_byte_position, id3v2_size, fmt_data,
                 total_num_indices, pop_vars, scan_from>>
  /\ OnlyStageAndInput

-------------------------------------------------------------------------------
(***************************************************************************)
(* The ID3v2 tag.  The tag lies outside of the header chunk, so            *)
(* gst_dsfparse_verify_advance() checks reads against the medium instead.  *)
(***************************************************************************)

\* Mutant of MetadataReturnCode: the caller is not told to wait for more data.
MetadataReturnCodeImpatient(n) ==
  IF Pushing /\ available < n                           THEN "NOTHING_TO_READ"
  ELSE IF Wrap(byte_position + n) > upstream_size       THEN "ADVANCE_OUT_OF_BOUNDS"
  ELSE "OK"

MetadataReturnCode(n) ==
  IF Pushing /\ available < n                           THEN "NOT_ENOUGH_DATA"
  ELSE IF Wrap(byte_position + n) > upstream_size       THEN "ADVANCE_OUT_OF_BOUNDS"
  ELSE IF ~Pushing /\ byte_position + n > medium.size   THEN "EOS"
  ELSE "OK"

ReadMetadata(n, ret) ==
  /\ ret = MetadataReturnCode(n)
  /\ IF ret = "OK" THEN Consume(n) ELSE UNCHANGED io_vars

\* A later call of scan_info() goes on with the tag.
ResumeMetadata ==
  /\ reading_id3v2_metadata
  /\ Parsing("Header")
  /\ pc' = "id3v2"
  /\ UNCHANGED <<io_vars, chunk_parse_stage, flow_ret, upstream_size, dsf_vars>>
  /\ OnlyStageAndInput

ReadId3v2Header ==
  /\ pc = "id3v2"
  /\ id3v2_size = NotRead
  /\ \E ret \in FlowReturns :
       /\ ReadMetadata(Id3v2HeaderSize, ret)
       /\ Returns(ret)
       /\ IF ret = "OK" THEN id3v2_size' \in Id3v2Sizes ELSE UNCHANGED id3v2_size
  /\ UNCHANGED <<medium, chunk_parse_stage, upstream_size, reading_id3v2_metadata, fmt_data,
                 id3v2_pre_seek_byte_position, total_num_indices, seek_refused, pop_vars, scan_from>>
  /\ OnlyStageAndInput

NumLeftover == IF id3v2_size > Id3v2HeaderSize THEN id3v2_size - Id3v2HeaderSize ELSE 0

\* Mutant of TagIsReadable: a tag that exceeds the medium is not recognised.
TagIsReadableUnbounded ==
  /\ Wrap(byte_position + NumLeftover) >= byte_position
  /\ NumLeftover > 0

TagIsReadable ==
  /\ Wrap(byte_position + NumLeftover) >= byte_position
  /\ Wrap(byte_position + NumLeftover) <= upstream_size
  /\ NumLeftover > 0

\* The buffers are merged and released once all of the tag is there; what cannot
\* be read is given up, and the header buffer kept.
ReadId3v2Rest ==
  /\ pc = "id3v2"
  /\ id3v2_size # NotRead
  /\ \E ret \in FlowReturns :
       /\ IF TagIsReadable THEN ReadMetadata(NumLeftover, ret) ELSE ret = "OK" /\ UNCHANGED io_vars
       /\ IF ret = "OK"
          THEN /\ pc' = "seek_back" /\ reading_id3v2_metadata' = FALSE
               /\ id3v2_size' = IF TagIsReadable THEN NotRead ELSE id3v2_size
               /\ UNCHANGED flow_ret
          ELSE Returns(ret) /\ UNCHANGED <<reading_id3v2_metadata, id3v2_size>>
  /\ UNCHANGED <<medium, chunk_parse_stage, upstream_size, id3v2_pre_seek_byte_position, fmt_data,
                 total_num_indices, seek_refused, pop_vars, scan_from>>
  /\ OnlyStageAndInput

SeekBack ==
  /\ pc = "seek_back"
  /\ \E succeeds \in BOOLEAN :
       /\ SeekDuringScan(id3v2_pre_seek_byte_position, succeeds)
       /\ IF succeeds THEN chunk_parse_stage' = "FinishingChunk" /\ Returns("OK")
                      ELSE UNCHANGED chunk_parse_stage /\ Returns("ERROR")
  /\ UNCHANGED <<medium, upstream_size, dsf_vars, pop_vars, scan_from>>
  /\ OnlyStageAndInput

-------------------------------------------------------------------------------
(***************************************************************************)
(* gst_dsfparse_parse_chunk_fmt() and gst_dsfparse_parse_chunk_data()      *)
(***************************************************************************)

ParseFormat ==
  /\ Parsing("Format")
  /\ Read(Prefix, "OK")
  /\ \/ \E count \in ByteCounts :
          /\ fmt_data' = [expected |-> count, actual |-> count]
          /\ chunk_parse_stage' = "FinishingChunk"
          /\ Returns("OK")
     \/ /\ Returns("ERROR")
        /\ UNCHANGED <<fmt_data, chunk_parse_stage>>
  /\ UNCHANGED <<upstream_size, reading_id3v2_metadata, id3v2_pre_seek_byte_position, id3v2_size,
                 total_num_indices, seek_refused>>
  /\ OnlyStageAndInput

Alignment == BlockSize * NumChannels

NumBlocks(count) == (count + (BlockSize - 1)) \div BlockSize

\* Mutant of SizeBySampleCount: the bytes past the sample count are not ignored.
SizeByChunkAlone == Front.size

\* The bytes that the sample count asks for, unless their number is not representable.
SizeBySampleCount ==
  IF NumBlocks(fmt_data.expected) > MaxUInt64 \div Alignment
  THEN Front.size
  ELSE Lesser(Front.size, NumBlocks(fmt_data.expected) * Alignment)

DataTruncated == SizeBySampleCount > NumAvailable

\* Mutant of PayloadSize: the payload is not clamped to the medium.
PayloadSizeDeclared == SizeBySampleCount

PayloadSize == Lesser(SizeBySampleCount, NumAvailable)

ActualBytes ==
  IF DataTruncated THEN PayloadSize \div NumChannels ELSE fmt_data.actual

DataUnusable ==
  /\ Parsing("Payload")
  /\ fmt_data = NoFormat \/ NumAvailable < Alignment
  /\ Returns("ERROR")
  /\ UNCHANGED <<io_vars, chunk_parse_stage, upstream_size, dsf_vars>>
  /\ OnlyStageAndInput

ParseData ==
  /\ Parsing("Payload")
  /\ fmt_data # NoFormat /\ NumAvailable >= Alignment
  /\ fmt_data' = [fmt_data EXCEPT !.actual = ActualBytes]
  /\ total_num_indices' = NumBlocks(fmt_data'.actual)
  /\ \E ret \in FlowReturns :
       /\ ReportPayloadFound(PayloadSize, DataTruncated, ret)
       /\ IF ret = "OK" THEN pc' = "reported" /\ UNCHANGED flow_ret ELSE Returns(ret)
  /\ UNCHANGED <<stack_vars, prop_vars, reading_id3v2_metadata, id3v2_pre_seek_byte_position,
                 id3v2_size, seek_refused>>

FinishData ==
  /\ pc = "reported"
  /\ ScanningFinished
  /\ chunk_parse_stage' = "FinishingChunk"
  /\ Returns("NOTHING_TO_READ")
  /\ UNCHANGED <<medium, payload, m_stack, prop_vars, dsf_vars, pop_vars, scan_from>>

-------------------------------------------------------------------------------

\* What GstDsdChunkParse and the base class do whatever the subclass.
ChunkParseStep ==
  /\ \/ NoFurtherSubchunk \/ HeaderNotRead \/ ParseChunkStart \/ SkipUnknownChunk
     \/ RetryFinish \/ Settle \/ HandleCorruptedChunkStructure
     \/ SkipPadByte \/ PopFinishedChunks \/ KeepElement \/ PopPlainChunk \/ EndOfStack
     \/ ScanInfoReturned \/ ChainReturns \/ ScanIsOver
  /\ UNCHANGED dsf_vars

ParseDsfHeader ==
  \/ HeaderRefused \/ ParseHeader \/ SeekToMetadata
  \/ ResumeMetadata \/ ReadId3v2Header \/ ReadId3v2Rest \/ SeekBack

DsfStreamingThread ==
  \/ ChunkParseStep
  \/ ContentNotRead \/ ParseDsfHeader \/ ParseFormat
  \/ DataUnusable \/ ParseData \/ FinishData

DsfUpstream == Upstream /\ UNCHANGED dsf_vars

DsfNext == DsfStreamingThread \/ DsfUpstream

DsfSpec == DsfInit /\ [][DsfNext]_all_vars

DsfFairSpec == DsfSpec /\ WF_all_vars(DsfStreamingThread) /\ WF_all_vars(DsfUpstream)

(***************************************************************************)
(* A state change to READY and back to PAUSED: the pads are deactivated,   *)
(* and the base class resets its own fields.  The stack, the chunk parse   *)
(* stage and the fields of the subclass are only reset by setup() and      *)
(* teardown(), on the way from and to NULL.                                *)
(***************************************************************************)
Restart ==
  /\ pc \in {"idle", "stopped"}
  /\ byte_position' = 0 /\ available' = 0
  /\ upstream_position' = 0 /\ pending_segment_start' = NoSegment
  /\ parse_stage' = "ScanningInfo"
  /\ payload' = NoPayload
  /\ pc' = IF Pushing THEN "idle" ELSE "loop"
  /\ flow_ret' = "OK"
  /\ UNCHANGED <<medium, stack_vars, prop_vars, pop_vars, scan_from, dsf_vars>>

RestartSpec == DsfInit /\ [][DsfNext \/ Restart]_all_vars

-------------------------------------------------------------------------------
(***************************************************************************)
(* Properties                                                              *)
(***************************************************************************)

DsfTypeOK ==
  /\ medium \in Media
  /\ byte_position \in UInt64 /\ available \in UInt64 /\ upstream_position \in UInt64
  /\ pending_segment_start \in UInt64 \cup {NoSegment}
  /\ parse_stage \in Stages
  /\ payload \in [position : UInt64, size : UInt64]
  /\ m_stack \in Seq(Chunk)
  /\ chunk_parse_stage \in ChunkParseStages
  /\ upstream_size \in {0, medium.size}
  /\ pc \in DsfPlaces /\ flow_ret \in FlowReturns
  /\ scan_from \in UInt64 /\ pop_position \in UInt64
  /\ iter \in Nat /\ any_popped \in BOOLEAN
  /\ reading_id3v2_metadata \in BOOLEAN /\ id3v2_pre_seek_byte_position \in UInt64
  /\ id3v2_size \in Id3v2Sizes \cup {NotRead}
  /\ fmt_data \in [expected : UInt64, actual : UInt64]
  /\ total_num_indices \in UInt64

\* Wherever the tag lies, however many calls it takes and whenever the segments of
\* the two seeks come, the scan goes on after the header chunk, with the input in
\* step.  The exception is a refused seek to the tag, see below.
ExcursionReturns ==
  /\ pc = "finish" /\ Known(Front.fourcc) /\ Descriptions[Front.fourcc].parse = "Header" =>
       ~reading_id3v2_metadata /\ byte_position = Front.payload_end_pos
  /\ ~seek_refused => InputAligned

\* A tag that the medium does not hold is given up, not fatal: reading it neither
\* runs into the end of the medium nor breaks the bounds of a read, nor does the scan
\* wait for it until upstream has ended.  The one exception: in push mode, of a tag
\* whose header ends with the medium, nothing arrives any more that would have the
\* parse function called again to give up what is missing.
ExcursionStaysInMedium ==
  reading_id3v2_metadata =>
    /\ flow_ret \notin {"EOS", "ADVANCE_OUT_OF_BOUNDS"}
    /\ pc = "stopped" /\ Pushing => id3v2_size # NotRead /\ byte_position = medium.size

\* The payload that is played lies inside the medium, whatever the size of the data
\* chunk and the sample count say.  (A medium without a header chunk has no known
\* size, and the number of available bytes wraps around.)
PayloadInsideMedium ==
  PayloadLocated /\ upstream_size # 0 => payload.position + payload.size <= medium.size

EntersStreaming == parse_stage # "Streaming" /\ parse_stage' = "Streaming"
AtPayload       == /\ byte_position' = payload'.position
                   /\ Pushing => upstream_position' = payload'.position + available'

\* Streaming starts with the first byte of the payload next to be read, although
\* the scan has been elsewhere in the medium before.
PlaybackStartsAtData == [][EntersStreaming /\ ~seek_refused => AtPayload]_all_vars

\* Every whole block group of the payload has an index that a seek can name.
IndicesCoverPayload ==
  PayloadLocated => payload.size \div Alignment <= total_num_indices

-------------------------------------------------------------------------------
(***************************************************************************)
(* What comments of the code say and the code does not keep                *)
(***************************************************************************)

\* gstdsfparse.cpp:755 says of a seek to the tag that upstream refuses: "just finish
\* the current chunk and continue".  What follows is then what is played.
RefusedSeekIsHarmless == [][EntersStreaming /\ seek_refused => AtPayload]_all_vars

\* gstdsdchunkparse.hpp:54 says of the Scanning Info stage: "First, it will start
\* parsing chunk headers".
ScanBeginsWithChunkHeader ==
  Scanning /\ pc = "loop" /\ byte_position = 0 => chunk_parse_stage = "ParsingChunkStart"

===============================================================================
