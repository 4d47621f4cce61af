---------------------------- MODULE DsfScanProofs ----------------------------
(***************************************************************************)
(* Every step of the scan of a DSF medium keeps DsfInv, for every medium,  *)
(* every table of chunk descriptions with its assumptions, every position  *)
(* and size of the ID3v2 tag and every size of the integers; and what      *)
(* follows from it.                                                        *)
(***************************************************************************)
EXTENDS DsfScanInvariant, ChunkParseLemmas

-------------------------------------------------------------------------------
(***************************************************************************)
(* Types                                                                   *)
(***************************************************************************)

\* The medium is one of the assumed media.
LEMMA DsfMediumType ==
  ASSUME medium \in Media
  PROVE  /\ medium.size \in UInt64 /\ medium.seekable \in BOOLEAN
         /\ ~Pushing => medium.seekable
  BY MediaAssumption DEF Medium, Pushing

\* The chunk that is open, if there is one, has the type of a chunk.
LEMMA DsfFrontType ==
  ASSUME m_stack \in Seq(Chunk), m_stack # << >>
  PROVE  /\ Front \in Chunk
         /\ Front.payload_begin_pos \in UInt64
         /\ Front.payload_end_pos \in UInt64
         /\ Front.size \in UInt64
         /\ Front.fourcc \in Fourccs
<1>1. m_stack[1] \in Chunk
  OBVIOUS
<1>. QED BY <1>1 DEF Front, Chunk

\* The fixed part of a known chunk's content, and its kinds.
LEMMA DsfPrefixType ==
  ASSUME Known(Front.fourcc)
  PROVE  /\ Prefix \in UInt64
         /\ IsHeader(Front) => /\ Descriptions[Front.fourcc].size_type = "ExactSize"
                               /\ Descriptions[Front.fourcc].size = Prefix
                               /\ Prefix % 2 = 0
  BY DescriptionType, DsfTableAssumption DEF Prefix, ChunkDescription, IsHeader, Known

\* An empty adapter adds nothing to a position.
LEMMA EmptyAdds ==
  ASSUME NEW p \in Int, NEW a, NEW u, a = 0, p = u
  PROVE  p + a = u /\ p + a <= u
  OBVIOUS

\* What adds up to a bound is within it.
LEMMA EqualIsWithin ==
  ASSUME NEW bound \in Int, NEW sum, sum = bound PROVE sum <= bound
  OBVIOUS

\* A sum that does not wrap below its first term does not wrap.
LEMMA NoWrap ==
  ASSUME NEW p \in UInt64, NEW n \in UInt64, Wrap(p + n) >= p
  PROVE  p + n \in UInt64 /\ Wrap(p + n) = p + n
<1>1. CASE p + n \in UInt64
  BY <1>1, WrapIdentity
<1>2. CASE p + n \notin UInt64
  <2>1. p + n > MaxUInt64 /\ p + n - (MaxUInt64 + 1) \in 0 .. MaxUInt64
    BY <1>2, WidthAssumption DEF UInt64
  <2>2. Wrap(p + n) = p + n - (MaxUInt64 + 1)
    BY <2>1, WidthAssumption DEF Wrap, UInt64
  <2>. QED BY <2>2, WidthAssumption DEF UInt64
<1>. QED BY <1>1, <1>2

\* A tag that is found readable ends inside the medium.
LEMMA ReadableTag ==
  ASSUME byte_position \in UInt64, id3v2_size \in UInt64
  PROVE  /\ NumLeftover \in UInt64
         /\ TagIsReadable => /\ NumLeftover > 0
                            /\ byte_position + NumLeftover \in UInt64
                            /\ byte_position + NumLeftover <= upstream_size
<1>1. NumLeftover \in UInt64
  BY DsfAssumption, WidthAssumption DEF NumLeftover, UInt64
<1>. QED BY <1>1, NoWrap DEF TagIsReadable

\* What the parts of scan_info() that are dispatched to can rely on.
LEMMA DsfDispatchFacts ==
  ASSUME DsfInv, NEW stage, Dispatch(stage)
  PROVE  /\ pc = "loop" /\ flow_ret \in {"OK", "NOT_ENOUGH_DATA"}
         /\ Scanning /\ chunk_parse_stage = stage
         /\ stage = "ParsingChunkStart" <=> m_stack = << >>
         /\ Pushing => pending_segment_start = NoSegment /\ available > 0
         /\ ~PayloadLocated
         /\ stage # "ParsingChunkContent" => ~reading_id3v2_metadata
         /\ UNCHANGED <<medium, pop_vars>>
         /\ scan_from' = byte_position
<1>1. /\ pc = "loop" /\ Scanning /\ chunk_parse_stage = stage
      /\ Pushing => available > 0
      /\ UNCHANGED <<medium, pop_vars>>
      /\ scan_from' = byte_position
  BY DEF Dispatch
<1>2. flow_ret \in {"OK", "NOT_ENOUGH_DATA"} /\ available \in UInt64
  BY <1>1 DEF DsfInv, DsfControl, DsfTypeOK
<1>3. Pushing => pending_segment_start = NoSegment
  BY <1>1, <1>2 DEF DsfInv, DsfInput, UInt64
<1>4. stage = "ParsingChunkStart" <=> m_stack = << >>
  BY <1>1 DEF DsfInv, FlatStack
<1>5. ~PayloadLocated
  BY <1>1 DEF DsfInv, PayloadReported
<1>6. reading_id3v2_metadata => stage = "ParsingChunkContent"
  BY <1>1 DEF DsfInv, ExcursionInside, Excursion, AtHeader, AtContent
<1>. QED BY <1>1, <1>2, <1>3, <1>4, <1>5, <1>6

-------------------------------------------------------------------------------
(***************************************************************************)
(* Initial states, and steps that leave the input alone                    *)
(***************************************************************************)

\* A scan begins with the invariant.
LEMMA DsfInitInv ==
  ASSUME DsfInit PROVE DsfInv
<1>. USE DEF DsfInit, Init, MediaScanInit
<1>1. medium.size \in UInt64 /\ 0 \in UInt64
  BY DsfMediumType, WidthAssumption DEF UInt64
<1>2. DsfTypeOK
  <2>1. /\ payload \in [position : UInt64, size : UInt64]
        /\ fmt_data \in [expected : UInt64, actual : UInt64]
    BY <1>1 DEF NoPayload, NoFormat
  <2>2. m_stack \in Seq(Chunk)
    OBVIOUS
  <2>3. /\ parse_stage \in Stages /\ chunk_parse_stage \in ChunkParseStages
        /\ pc \in DsfPlaces /\ flow_ret \in FlowReturns
    BY DEF Stages, ChunkParseStages, DsfPlaces, Places, FlowReturns
  <2>. QED BY <1>1, <2>1, <2>2, <2>3 DEF DsfTypeOK
<1>3. FlatStack /\ ChunkExtent /\ DsfControl
  BY <1>1 DEF FlatStack, ChunkExtent, DsfControl
<1>4. ContentBegins /\ HeaderFinished
  BY DEF ContentBegins, HeaderFinished, AtContent
<1>5. DsfInput /\ DsfStream
  BY <1>1 DEF DsfInput, DsfStream, NoSegment, UInt64
<1>6. ExcursionInside /\ ExcursionProgress
  BY DEF ExcursionInside, Excursion, ExcursionProgress
<1>7. PayloadReported
  BY <1>1 DEF PayloadReported, PayloadInsideMedium, IndicesCoverPayload, PayloadLocated, NoPayload, NoFormat, UInt64
<1>. QED BY <1>2, <1>3, <1>4, <1>5, <1>6, <1>7 DEF DsfInv

DataUnchanged == UNCHANGED <<medium, io_vars, parse_stage, payload, m_stack, upstream_size, dsf_vars>>

\* Such a step keeps the invariant if it keeps the parts about the control.
LEMMA DsfQuietInv ==
  ASSUME DsfInv, DataUnchanged,
         DsfTypeOK', FlatStack', DsfControl', ContentBegins', HeaderFinished', ExcursionProgress',
         Excursion' => Excursion /\ UNCHANGED chunk_parse_stage /\ pc # "stopped",
         pc' \in {"header_read", "seek_back"} => pc' = pc,
         Scanning /\ flow_ret = "ERROR" => flow_ret' = "ERROR",
         PayloadLocated /\ Scanning =>
           \/ pc' \in {"corrupt_settle", "stopped"}
           \/ pc' \in {"settle", "scanned"} /\ flow_ret' = "ERROR"
  PROVE  DsfInv'
<1>. USE DEF DataUnchanged, io_vars, dsf_vars
<1>1. ChunkExtent' /\ DsfStream'
  BY DEF DsfInv, ChunkExtent, DsfStream, IsHeader, Prefix, Front, Pushing, PayloadLocated
<1>2. DsfInput'
  BY DEF DsfInv, DsfInput, Pushing, Scanning
<1>3. ExcursionInside'
  BY DEF DsfInv, ExcursionInside, Excursion, AtHeader, AtContent, IsHeader, Front, Scanning
<1>4. PayloadReported'
  BY DEF DsfInv, PayloadReported, PayloadInsideMedium, IndicesCoverPayload, PayloadLocated, Scanning
<1>. QED BY <1>1, <1>2, <1>3, <1>4 DEF DsfInv

\* Whether the excursion lacks data is a question of the input and of the tag's size.
LEMMA StarvedFrame ==
  ASSUME UNCHANGED <<byte_position, available, id3v2_size, upstream_size>>
  PROVE  Starved' = Starved
  BY DEF Starved, TagIsReadable, NumLeftover

\* A chunk that is open when the start of a chunk is to be parsed: there is none.
LEMMA DsfNoFurtherSubchunkInv ==
  ASSUME DsfInv, NoFurtherSubchunk PROVE FALSE
  BY DsfDispatchFacts DEF NoFurtherSubchunk

\* A chunk that could not be finished by the last call is looked at again.
LEMMA DsfRetryFinishInv ==
  ASSUME DsfInv, RetryFinish, UNCHANGED dsf_vars PROVE DsfInv'
<1>1. Dispatch("FinishingChunk") /\ flow_ret' = "OK" /\ pc' = "settle"
      /\ UNCHANGED <<io_vars, parse_stage, payload, stack_vars, prop_vars>>
  BY DEF RetryFinish, Returns
<1>2. /\ pc = "loop" /\ flow_ret \in {"OK", "NOT_ENOUGH_DATA"}
      /\ Scanning /\ chunk_parse_stage = "FinishingChunk" /\ m_stack # << >>
      /\ ~PayloadLocated /\ ~reading_id3v2_metadata
      /\ UNCHANGED <<medium, pop_vars>> /\ scan_from' = byte_position
  BY <1>1, DsfDispatchFacts
<1>3. DataUnchanged /\ UNCHANGED chunk_parse_stage
  BY <1>1, <1>2 DEF DataUnchanged, stack_vars, prop_vars
<1>. USE DEF DataUnchanged, io_vars, dsf_vars, pop_vars
<1>4. DsfTypeOK'
  BY <1>1, <1>2, <1>3 DEF DsfInv, DsfTypeOK, DsfPlaces, Places, FlowReturns
<1>5. FlatStack' /\ DsfControl'
  BY <1>1, <1>2, <1>3 DEF DsfInv, FlatStack, DsfControl, Scanning
<1>6. ContentBegins' /\ HeaderFinished'
  BY <1>1, <1>2, <1>3 DEF DsfInv, ContentBegins, HeaderFinished, AtContent, IsHeader, Front, Scanning
<1>7. ExcursionProgress'
  BY <1>1, <1>2, <1>3 DEF ExcursionProgress
<1>. QED BY <1>1, <1>2, <1>3, <1>4, <1>5, <1>6, <1>7, DsfQuietInv DEF Excursion

\* scan_info() after the dispatch.
LEMMA DsfSettleInv ==
  ASSUME DsfInv, Settle, UNCHANGED dsf_vars PROVE DsfInv'
<1>1. pc = "settle" /\ DataUnchanged /\ UNCHANGED <<chunk_parse_stage, pop_vars, scan_from>>
  BY DEF Settle, DataUnchanged, stack_vars, prop_vars
<1>. USE DEF DataUnchanged, io_vars, dsf_vars, pop_vars
<1>2. /\ flow_ret' \in FlowReturns /\ (flow_ret = "ERROR" => flow_ret' = "ERROR")
      /\ Scanning => UNCHANGED flow_ret
      /\ \/ /\ pc' = "corrupt_settle" /\ Scanning /\ chunk_parse_stage # "FinishingChunk"
            /\ flow_ret = "ADVANCE_OUT_OF_BOUNDS"
         \/ /\ pc' = "finish" /\ Scanning /\ chunk_parse_stage = "FinishingChunk"
            /\ flow_ret \in {"OK", "NOTHING_TO_READ"}
         \/ /\ pc' = "scanned"
            /\ Scanning /\ chunk_parse_stage = "FinishingChunk" => flow_ret = "ERROR"
            /\ flow_ret # "ADVANCE_OUT_OF_BOUNDS"
  BY <1>1 DEF Settle, DsfInv, DsfTypeOK, DsfControl, FlowReturns
<1>3. reading_id3v2_metadata => /\ Scanning /\ pc' = "scanned" /\ UNCHANGED flow_ret
  BY <1>1, <1>2 DEF DsfInv, ExcursionInside, Excursion, AtHeader, AtContent, ExcursionProgress
<1>4. DsfTypeOK'
  BY <1>1, <1>2 DEF DsfInv, DsfTypeOK, DsfPlaces, Places
<1>5. FlatStack' /\ DsfControl'
  BY <1>1, <1>2 DEF DsfInv, FlatStack, DsfControl, Scanning
<1>6. ContentBegins'
  BY <1>1, <1>2, <1>3 DEF DsfInv, ContentBegins, AtContent, Front, Scanning
<1>7. HeaderFinished'
  BY <1>1, <1>2, <1>3 DEF DsfInv, HeaderFinished, IsHeader, Front, Scanning
<1>8. ExcursionProgress'
  BY <1>1, <1>2, <1>3, StarvedFrame DEF DsfInv, ExcursionProgress, Pushing
<1>9. PayloadLocated /\ Scanning => pc' \in {"corrupt_settle"} \/ (pc' = "scanned" /\ flow_ret' = "ERROR")
  BY <1>1, <1>2 DEF DsfInv, PayloadReported
<1>. QED BY <1>1, <1>2, <1>3, <1>4, <1>5, <1>6, <1>7, <1>8, <1>9, DsfQuietInv DEF Excursion

\* finish_chunk_parsing(), to the first pass of pop_finished_chunks().
LEMMA DsfPopFinishedChunksInv ==
  ASSUME DsfInv, PopFinishedChunks, UNCHANGED dsf_vars PROVE DsfInv'
<1>1. pc = "finish" /\ pc' \in {"corrupt_finish", "pop"}
      /\ DataUnchanged /\ UNCHANGED <<chunk_parse_stage, flow_ret, scan_from>>
  BY DEF PopFinishedChunks, DataUnchanged, stack_vars, prop_vars
<1>. USE DEF DataUnchanged, io_vars, dsf_vars, pop_vars
<1>2. /\ pc' = "pop" => iter' = 1 /\ any_popped' = FALSE
      /\ pop_position' \in UInt64 /\ iter' \in Nat
      /\ any_popped' \in BOOLEAN
  <2>1. /\ pop_position \in UInt64 /\ iter \in Nat /\ any_popped \in BOOLEAN
        /\ byte_position \in UInt64
    BY DEF DsfInv, DsfTypeOK
  <2>2. \/ pc' = "corrupt_finish" /\ UNCHANGED pop_vars
        \/ pc' = "pop" /\ pop_position' = byte_position /\ iter' = 1 /\ any_popped' = FALSE
    BY DEF PopFinishedChunks
  <2>3. CASE pc' = "corrupt_finish" /\ UNCHANGED pop_vars
    BY <2>1, <2>3
  <2>4. CASE pc' = "pop" /\ pop_position' = byte_position /\ iter' = 1 /\ any_popped' = FALSE
    <3>1. any_popped' \in BOOLEAN
      BY <2>4
    <3>2. pop_position' \in UInt64 /\ iter' \in Nat
      BY <2>1, <2>4
    <3>. QED BY <2>4, <3>1, <3>2
  <2>. QED BY <2>2, <2>3, <2>4
<1>3. Scanning /\ chunk_parse_stage = "FinishingChunk" /\ flow_ret # "ERROR" /\ m_stack # << >>
      /\ ~reading_id3v2_metadata /\ ~PayloadLocated
  BY <1>1 DEF DsfInv, DsfControl, FlatStack, ExcursionProgress, PayloadReported
<1>4. DsfTypeOK'
  BY <1>1, <1>2 DEF DsfInv, DsfTypeOK, DsfPlaces, Places
<1>5. FlatStack' /\ DsfControl'
  BY <1>1, <1>2, <1>3 DEF DsfInv, FlatStack, DsfControl, Scanning
<1>6. ContentBegins' /\ HeaderFinished' /\ ExcursionProgress'
  BY <1>1, <1>3 DEF ContentBegins, AtContent, HeaderFinished, ExcursionProgress
<1>. QED BY <1>1, <1>3, <1>4, <1>5, <1>6, DsfQuietInv DEF Excursion

\* What the second pass of pop_finished_chunks() can rely on.
LEMMA DsfPopFacts ==
  ASSUME DsfInv, pc = "pop"
  PROVE  /\ Scanning /\ chunk_parse_stage = "FinishingChunk" /\ flow_ret # "ERROR"
         /\ ~reading_id3v2_metadata /\ ~PayloadLocated
         /\ iter \in Nat /\ iter >= 1 /\ (any_popped <=> m_stack = << >>)
         /\ m_stack \in Seq(Chunk) /\ Len(m_stack) <= 1
BY DEF DsfInv, DsfTypeOK, DsfControl, FlatStack, ExcursionProgress, PayloadReported

\* A chunk that does not end at the position stays.
LEMMA DsfKeepElementInv ==
  ASSUME DsfInv, KeepElement, UNCHANGED dsf_vars PROVE DsfInv'
<1>1. pc = "pop" /\ iter' = iter + 1
      /\ DataUnchanged /\ UNCHANGED <<chunk_parse_stage, flow_ret, scan_from, pop_position, any_popped, pc>>
  BY DEF KeepElement, AtElement, DataUnchanged, stack_vars, prop_vars
<1>. USE DEF DataUnchanged, io_vars, dsf_vars, pop_vars
<1>2. DsfTypeOK' /\ FlatStack'
  BY <1>1, DsfPopFacts DEF DsfInv, DsfTypeOK, FlatStack
<1>3. DsfControl'
  BY <1>1 DEF DsfInv, DsfControl, Scanning
<1>4. ContentBegins' /\ HeaderFinished' /\ ExcursionProgress'
  BY <1>1, DsfPopFacts DEF ContentBegins, AtContent, HeaderFinished, ExcursionProgress
<1>. QED BY <1>1, <1>2, <1>3, <1>4, DsfPopFacts, DsfQuietInv DEF Excursion

\* The second pass is at its end: the next chunk can be entered, or the medium is corrupted.
LEMMA DsfEndOfStackInv ==
  ASSUME DsfInv, EndOfStack, UNCHANGED dsf_vars PROVE DsfInv'
<1>1. pc = "pop" /\ DataUnchanged /\ UNCHANGED <<flow_ret, scan_from, pop_vars>>
      /\ IF any_popped THEN chunk_parse_stage' = "ParsingChunkStart" /\ pc' = "scanned"
                       ELSE pc' = "corrupt_finish" /\ UNCHANGED chunk_parse_stage
  BY DEF EndOfStack, DataUnchanged, prop_vars
<1>. USE DEF DataUnchanged, io_vars, dsf_vars, pop_vars
<1>2. DsfTypeOK'
  BY <1>1 DEF DsfInv, DsfTypeOK, DsfPlaces, Places, ChunkParseStages
<1>3. FlatStack' /\ DsfControl'
  BY <1>1, DsfPopFacts DEF DsfInv, FlatStack, DsfControl, Scanning
<1>4. ContentBegins' /\ HeaderFinished' /\ ExcursionProgress'
  BY <1>1, DsfPopFacts DEF ContentBegins, AtContent, HeaderFinished, ExcursionProgress
<1>. QED BY <1>1, <1>2, <1>3, <1>4, DsfPopFacts, DsfQuietInv DEF Excursion

\* The loop evaluates the flow return of scan_info().
LEMMA DsfScanInfoReturnedInv ==
  ASSUME DsfInv, ScanInfoReturned, UNCHANGED dsf_vars PROVE DsfInv'
<1>1. pc = "scanned" /\ DataUnchanged /\ UNCHANGED chunk_parse_stage
      /\ scan_from' = 0 /\ pop_position' = 0 /\ iter' = 1 /\ any_popped' = FALSE
  BY DEF ScanInfoReturned, LocalsReset, DataUnchanged, stack_vars, prop_vars
<1>2. \/ pc' = "loop" /\ flow_ret \in {"OK", "NOTHING_TO_READ"} /\ flow_ret' = "OK"
      \/ /\ pc' = "stopped" /\ flow_ret' \in {"ERROR", "EOS"} /\ (flow_ret = "ERROR" => flow_ret' = "ERROR")
         /\ flow_ret = "OK" => ~HasAdvanced
         /\ flow_ret # "NOT_ENOUGH_DATA"
         /\ flow_ret' = "ERROR" \/ UNCHANGED flow_ret
      \/ pc' = "idle" /\ Pushing /\ flow_ret = "NOT_ENOUGH_DATA" /\ UNCHANGED flow_ret
      \/ pc' = "stopped" /\ ~Pushing /\ flow_ret = "NOT_ENOUGH_DATA" /\ UNCHANGED flow_ret
  BY DEF ScanInfoReturned
<1>. USE DEF DataUnchanged, io_vars, dsf_vars, pop_vars
<1>3. DsfTypeOK'
  <2>1. scan_from' \in UInt64 /\ pop_position' \in UInt64 /\ iter' \in Nat
    BY <1>1, WidthAssumption DEF UInt64
  <2>3. any_popped' \in BOOLEAN
    BY <1>1
  <2>2. pc' \in DsfPlaces /\ flow_ret' \in FlowReturns
    BY <1>2 DEF DsfPlaces, Places, FlowReturns, DsfInv, DsfTypeOK
  <2>. QED BY <1>1, <2>1, <2>2, <2>3 DEF DsfInv, DsfTypeOK
<1>4. FlatStack' /\ DsfControl'
  BY <1>1, <1>2 DEF DsfInv, FlatStack, DsfControl, Scanning, Pushing
<1>5. ContentBegins' /\ HeaderFinished'
  BY <1>1, <1>2 DEF DsfInv, ContentBegins, HeaderFinished, AtContent, IsHeader, Front, Scanning
<1>6. reading_id3v2_metadata /\ Pushing =>
        \/ pc' = "loop" /\ flow_ret' = "OK"
        \/ pc' = "idle" /\ flow_ret' = "NOT_ENOUGH_DATA" /\ Starved
  <2>1. byte_position \in UInt64 /\ scan_from \in UInt64
    BY DEF DsfInv, DsfTypeOK
  <2>2. ASSUME reading_id3v2_metadata, Pushing
        PROVE  \/ flow_ret = "NOT_ENOUGH_DATA" /\ Starved
               \/ flow_ret = "OK" /\ HasAdvanced
    BY <1>1, <2>1, <2>2 DEF DsfInv, ExcursionProgress, HasAdvanced, UInt64
  <2>. QED BY <1>2, <2>2
<1>7. ExcursionProgress'
  BY <1>1, <1>2, <1>6, StarvedFrame DEF DsfInv, ExcursionProgress, Pushing
<1>8. PayloadLocated /\ Scanning => pc' = "stopped"
  BY <1>1, <1>2 DEF DsfInv, PayloadReported
<1>. QED BY <1>1, <1>2, <1>3, <1>4, <1>5, <1>7, <1>8, DsfQuietInv DEF Excursion

\* The scan is over, and the loop goes on with another stage.
LEMMA DsfScanIsOverInv ==
  ASSUME DsfInv, ScanIsOver, UNCHANGED dsf_vars PROVE DsfInv'
<1>1. pc = "loop" /\ pc' = "stopped" /\ ~Scanning
      /\ DataUnchanged /\ UNCHANGED <<chunk_parse_stage, flow_ret, scan_from, pop_vars>>
  BY DEF ScanIsOver, DataUnchanged, stack_vars, prop_vars, Scanning
<1>2. ~reading_id3v2_metadata
  BY <1>1 DEF DsfInv, ExcursionInside, Excursion, AtHeader, AtContent
<1>. USE DEF DataUnchanged, io_vars, dsf_vars, pop_vars
<1>3. DsfTypeOK'
  BY <1>1 DEF DsfInv, DsfTypeOK, DsfPlaces, Places
<1>4. FlatStack' /\ DsfControl'
  BY <1>1 DEF DsfInv, FlatStack, DsfControl, Scanning
<1>5. ContentBegins' /\ HeaderFinished' /\ ExcursionProgress'
  BY <1>1, <1>2 DEF ContentBegins, AtContent, HeaderFinished, ExcursionProgress, Scanning
<1>. QED BY <1>1, <1>2, <1>3, <1>4, <1>5, DsfQuietInv DEF Excursion

\* A later call of scan_info() goes on with the tag.
LEMMA DsfResumeMetadataInv ==
  ASSUME DsfInv, ResumeMetadata PROVE DsfInv'
<1>1. reading_id3v2_metadata /\ Parsing("Header") /\ pc' = "id3v2"
      /\ DataUnchanged /\ UNCHANGED <<chunk_parse_stage, flow_ret>>
  BY DsfDispatchFacts DEF ResumeMetadata, Parsing, OnlyStageAndInput, DataUnchanged
<1>2. pc = "loop" /\ scan_from' = byte_position /\ UNCHANGED pop_vars /\ ~PayloadLocated /\ Scanning
      /\ flow_ret \in {"OK", "NOT_ENOUGH_DATA"} /\ chunk_parse_stage = "ParsingChunkContent"
  BY <1>1, DsfDispatchFacts DEF Parsing
<1>. USE DEF DataUnchanged, io_vars, dsf_vars, pop_vars
<1>3. DsfTypeOK'
  BY <1>1, <1>2 DEF DsfInv, DsfTypeOK, DsfPlaces, Places
<1>4. FlatStack' /\ DsfControl'
  BY <1>1, <1>2 DEF DsfInv, FlatStack, DsfControl, Scanning
<1>5. ContentBegins' /\ HeaderFinished' /\ ExcursionProgress'
  BY <1>1, <1>2 DEF ContentBegins, AtContent, HeaderFinished, ExcursionProgress
<1>. QED BY <1>1, <1>2, <1>3, <1>4, <1>5, DsfQuietInv DEF Excursion

\* Part of a chunk is parsed without a byte being read from the input: the read failed,
\* or the fields are unusable.
LEMMA DsfNothingReadInv ==
  ASSUME DsfInv, NEW stage \in {"ParsingChunkStart", "ParsingChunkContent"}, Dispatch(stage),
         NEW ret \in {"EOS", "ERROR", "NOTHING_TO_READ", "NOT_ENOUGH_DATA", "ADVANCE_OUT_OF_BOUNDS"},
         Returns(ret),
         DataUnchanged, UNCHANGED chunk_parse_stage, ~reading_id3v2_metadata
  PROVE  DsfInv'
<1>1. /\ pc = "loop" /\ flow_ret \in {"OK", "NOT_ENOUGH_DATA"}
      /\ Scanning /\ chunk_parse_stage = stage /\ ~PayloadLocated
      /\ UNCHANGED pop_vars /\ scan_from' = byte_position
  BY DsfDispatchFacts
<1>2. pc' = "settle" /\ flow_ret' = ret
  BY DEF Returns
<1>. USE DEF DataUnchanged, io_vars, dsf_vars, pop_vars
<1>3. DsfTypeOK'
  BY <1>1, <1>2 DEF DsfInv, DsfTypeOK, DsfPlaces, Places, FlowReturns
<1>4. FlatStack' /\ DsfControl'
  BY <1>1, <1>2 DEF DsfInv, FlatStack, DsfControl, Scanning
<1>5. ContentBegins' /\ HeaderFinished'
  BY <1>1, <1>2 DEF DsfInv, ContentBegins, HeaderFinished, AtContent, Front, Scanning
<1>6. ExcursionProgress'
  BY <1>2 DEF ExcursionProgress
<1>. QED BY <1>1, <1>2, <1>3, <1>4, <1>5, <1>6, DsfQuietInv DEF Excursion

LEMMA DsfHeaderNotReadInv ==
  ASSUME DsfInv, HeaderNotRead, UNCHANGED dsf_vars PROVE DsfInv'
<1>1. PICK ret \in FlowReturns \ {"OK"} : Read(HeaderSize, ret) /\ Returns(ret)
  BY DEF HeaderNotRead
<1>2. Dispatch("ParsingChunkStart") /\ ~reading_id3v2_metadata /\ UNCHANGED medium
  BY DsfDispatchFacts DEF HeaderNotRead
<1>3. DataUnchanged /\ UNCHANGED chunk_parse_stage
  BY <1>1, <1>2 DEF HeaderNotRead, Read, DataUnchanged, stack_vars, prop_vars
<1>. QED BY <1>1, <1>2, <1>3, DsfNothingReadInv DEF FlowReturns

LEMMA DsfContentNotReadInv ==
  ASSUME DsfInv, ContentNotRead PROVE DsfInv'
<1>1. PICK ret \in FlowReturns \ {"OK"} : Read(Prefix, ret) /\ Returns(ret)
  BY DEF ContentNotRead
<1>2. Dispatch("ParsingChunkContent") /\ ~reading_id3v2_metadata /\ UNCHANGED medium
  BY DsfDispatchFacts DEF ContentNotRead, Parsing
<1>3. DataUnchanged /\ UNCHANGED chunk_parse_stage
  BY <1>1, <1>2 DEF ContentNotRead, Read, OnlyStageAndInput, DataUnchanged
<1>. QED BY <1>1, <1>2, <1>3, DsfNothingReadInv DEF FlowReturns

LEMMA DsfDataUnusableInv ==
  ASSUME DsfInv, DataUnusable PROVE DsfInv'
<1>1. Dispatch("ParsingChunkContent") /\ UNCHANGED medium /\ Returns("ERROR")
  BY DsfDispatchFacts DEF DataUnusable, Parsing
<1>2. DataUnchanged /\ UNCHANGED chunk_parse_stage
  BY <1>1 DEF DataUnusable, OnlyStageAndInput, DataUnchanged
<1>3. ~reading_id3v2_metadata
  BY <1>1 DEF DsfInv, ExcursionInside, Excursion, AtHeader, IsHeader, DataUnusable, Parsing, Dispatch
<1>. QED BY <1>1, <1>2, <1>3, DsfNothingReadInv

-------------------------------------------------------------------------------
(***************************************************************************)
(* Upstream and the chain function                                         *)
(***************************************************************************)

\* The open chunk's extent is a matter of the stack.
LEMMA DsfStackKept ==
  ASSUME DsfInv, UNCHANGED m_stack PROVE ChunkExtent'
  BY DEF DsfInv, ChunkExtent, IsHeader, Prefix, Front

\* A payload that has been reported, and one that has not, stays as it is.
LEMMA DsfPayloadKept ==
  ASSUME DsfInv, UNCHANGED <<medium, payload, fmt_data, total_num_indices>>,
         ~PayloadLocated \/ UNCHANGED upstream_size,
         PayloadLocated /\ Scanning' => /\ Scanning
                                        /\ \/ pc' = "stopped"
                                           \/ pc = "reported" /\ pc' = pc
  PROVE  PayloadReported'
  BY DEF DsfInv, PayloadReported, PayloadInsideMedium, IndicesCoverPayload, PayloadLocated, Scanning

\* While no chunk is being parsed the chain function waits for more data, without a
\* payload if it is still scanning.
LEMMA DsfIdleFacts ==
  ASSUME DsfInv, pc \in {"idle", "loop"}
  PROVE  /\ flow_ret \in {"OK", "NOT_ENOUGH_DATA"}
         /\ pc = "idle" => Pushing
         /\ Scanning => ~PayloadLocated
         /\ reading_id3v2_metadata => AtHeader
         /\ Scanning /\ chunk_parse_stage = "FinishingChunk" /\ m_stack # << >> => ~IsHeader(Front)
  BY DEF DsfInv, DsfControl, PayloadReported, HeaderFinished, ExcursionInside, Excursion

\* The chain function returns when the adapter is empty, or what it holds is outdated.
LEMMA DsfChainReturnsInv ==
  ASSUME DsfInv, ChainReturns, UNCHANGED dsf_vars PROVE DsfInv'
<1>1. /\ pc = "loop" /\ Pushing /\ pc' \in {"idle", "stopped"} /\ available' = 0
      /\ Scanning => pc' = "idle" /\ available = 0
      /\ parse_stage = "Streaming" => available = 0
      /\ UNCHANGED <<medium, byte_position, upstream_position, pending_segment_start, parse_stage,
                     payload, stack_vars, prop_vars, pop_vars, flow_ret, scan_from>>
  BY DEF ChainReturns, Scanning
<1>. USE DEF stack_vars, prop_vars, pop_vars, dsf_vars
<1>2. DsfTypeOK'
  BY <1>1, WidthAssumption DEF DsfInv, DsfTypeOK, DsfPlaces, Places, UInt64
<1>3. FlatStack' /\ DsfControl'
  BY <1>1 DEF DsfInv, FlatStack, DsfControl, Scanning, Pushing
<1>4. ChunkExtent'
  BY <1>1, DsfStackKept
<1>5. ContentBegins' /\ HeaderFinished'
  BY <1>1, DsfIdleFacts DEF DsfInv, ContentBegins, HeaderFinished, AtContent, IsHeader, Front, Scanning
<1>6. DsfInput' /\ DsfStream'
  BY <1>1 DEF DsfInv, DsfInput, DsfStream, Pushing, Scanning, PayloadLocated
<1>7. ExcursionInside'
  BY <1>1 DEF DsfInv, ExcursionInside, Excursion, AtHeader, AtContent, IsHeader, Front, Scanning
<1>8. reading_id3v2_metadata => Scanning /\ Starved'
  BY <1>1, DsfIdleFacts, DsfAssumption DEF AtHeader, AtContent, Starved, UInt64
<1>9. ExcursionProgress'
  BY <1>1, <1>8, DsfIdleFacts DEF ExcursionProgress
<1>10. PayloadReported'
  BY <1>1, DsfIdleFacts, DsfPayloadKept DEF Scanning
<1>. QED BY <1>2, <1>3, <1>4, <1>5, <1>6, <1>7, <1>9, <1>10 DEF DsfInv

\* A buffer of upstream is put into the adapter.
LEMMA DsfDeliverInv ==
  ASSUME DsfInv, Deliver, UNCHANGED dsf_vars PROVE DsfInv'
<1>1. /\ pc = "idle" /\ pc' = "loop" /\ pending_segment_start = NoSegment /\ Scanning
      /\ UNCHANGED <<medium, byte_position, pending_segment_start, parse_stage, payload,
                     stack_vars, prop_vars, pop_vars, flow_ret, scan_from>>
  BY DEF Deliver
<1>2. PICK n \in BufferSizes :
        LET delivered == Lesser(n, medium.size - upstream_position)
        IN  /\ available' = available + delivered
            /\ upstream_position' = upstream_position + delivered
  BY DEF Deliver
<1>3. DsfTypeOK /\ medium.size \in UInt64
  BY DsfMediumType DEF DsfInv, DsfTypeOK
<1>4. PICK d \in Nat : /\ available' = available + d
                       /\ upstream_position' = upstream_position + d
                       /\ upstream_position' <= medium.size
  <2>. DEFINE d == Lesser(n, medium.size - upstream_position)
  <2>1. upstream_position \in UInt64 /\ upstream_position <= medium.size /\ n \in Nat
    BY <1>3, BufferSizesAssumption DEF DsfInv, DsfTypeOK, DsfInput
  <2>2. d \in Nat /\ upstream_position + d <= medium.size
    BY <1>3, <2>1 DEF Lesser, UInt64
  <2>. QED BY <1>2, <2>2
<1>5. /\ byte_position \in UInt64 /\ available \in UInt64 /\ upstream_position \in UInt64
      /\ byte_position + available <= upstream_position
      /\ ~seek_refused \/ reading_id3v2_metadata => byte_position + available = upstream_position
      /\ flow_ret \in {"OK", "NOT_ENOUGH_DATA"}
  BY <1>1, <1>3, DsfIdleFacts DEF DsfInv, DsfTypeOK, DsfInput
<1>6. /\ byte_position' + available' <= upstream_position'
      /\ ~seek_refused \/ reading_id3v2_metadata => byte_position' + available' = upstream_position'
      /\ available' \in UInt64 /\ upstream_position' \in UInt64
  <2>1. /\ byte_position' + available' = byte_position + available + d
        /\ byte_position' + available' <= upstream_position'
        /\ available' \in UInt64 /\ upstream_position' \in UInt64
    BY <1>1, <1>3, <1>4, <1>5, WidthAssumption DEF UInt64
  <2>2. byte_position + available = upstream_position =>
          byte_position' + available' = upstream_position'
    BY <1>4, <1>5, <2>1 DEF UInt64
  <2>. QED BY <1>5, <2>1, <2>2
<1>. USE DEF stack_vars, prop_vars, pop_vars, dsf_vars
<1>7. DsfTypeOK'
  BY <1>1, <1>3, <1>6 DEF DsfTypeOK, DsfPlaces, Places
<1>8. FlatStack' /\ DsfControl'
  BY <1>1 DEF DsfInv, FlatStack, DsfControl, Scanning, Pushing
<1>9. ChunkExtent'
  BY <1>1, DsfStackKept
<1>10. ContentBegins' /\ HeaderFinished'
  BY <1>1, DsfIdleFacts DEF DsfInv, ContentBegins, HeaderFinished, AtContent, IsHeader, Front, Scanning
<1>11. DsfInput' /\ DsfStream'
  BY <1>1, <1>4, <1>6 DEF DsfInput, DsfStream, Scanning
<1>12. ExcursionInside'
  BY <1>1 DEF DsfInv, ExcursionInside, Excursion, AtHeader, AtContent, IsHeader, Front, Scanning
<1>13. ExcursionProgress'
  BY <1>1, <1>5 DEF ExcursionProgress
<1>14. PayloadReported'
  BY <1>1, DsfIdleFacts, DsfPayloadKept DEF Scanning
<1>. QED BY <1>7, <1>8, <1>9, <1>10, <1>11, <1>12, <1>13, <1>14 DEF DsfInv

\* The segment that answers a seek.
LEMMA DsfUpstreamSegmentInv ==
  ASSUME DsfInv, UpstreamSegment, UNCHANGED dsf_vars PROVE DsfInv'
<1>1. /\ pc = "idle" /\ HandleSinkSegment /\ pc' = IF parse_stage' = "ScanningInfo" THEN "idle" ELSE "stopped"
      /\ UNCHANGED <<medium, payload, stack_vars, prop_vars, pop_vars, flow_ret, scan_from>>
  BY DEF UpstreamSegment
<1>2. /\ pending_segment_start # NoSegment /\ pending_segment_start' = NoSegment
      /\ UNCHANGED upstream_position
      /\ \/ /\ Scanning /\ Scanning' /\ byte_position' = pending_segment_start
            /\ UNCHANGED available
         \/ /\ parse_stage = "AwaitingSegment" /\ available' = 0
            /\ byte_position' = pending_segment_start
            /\ parse_stage' \in {"Streaming", "StreamFailure"}
         \/ /\ parse_stage = "StreamFailure" /\ UNCHANGED <<byte_position, available, parse_stage>>
  BY <1>1 DEF HandleSinkSegment, StartStreamingAt, Scanning
<1>3. DsfTypeOK /\ pending_segment_start \in UInt64 /\ medium.size \in UInt64
  BY <1>2, DsfMediumType DEF DsfInv, DsfTypeOK
<1>. USE DEF stack_vars, prop_vars, pop_vars, dsf_vars
<1>4. Pushing /\ flow_ret \in {"OK", "NOT_ENOUGH_DATA"} /\ (Scanning => ~PayloadLocated)
      /\ (Scanning => upstream_position = pending_segment_start /\ available = 0)
  BY <1>1, <1>2, DsfIdleFacts DEF DsfInv, DsfInput
<1>5. DsfTypeOK'
  <2>1. /\ byte_position' \in UInt64 /\ available' \in UInt64
        /\ parse_stage' \in Stages /\ pc' \in DsfPlaces
    <3>1. /\ byte_position \in UInt64 /\ available \in UInt64 /\ 0 \in UInt64
          /\ parse_stage \in Stages
      BY <1>3, WidthAssumption DEF DsfTypeOK, UInt64
    <3>2. parse_stage' \in Stages
      BY <1>2, <3>1 DEF Stages, Scanning
    <3>3. pc' \in DsfPlaces
      BY <1>1 DEF DsfPlaces, Places
    <3>. QED BY <1>2, <1>3, <3>1, <3>2, <3>3
  <2>. QED BY <1>1, <1>2, <1>3, <2>1 DEF DsfTypeOK
<1>6. FlatStack' /\ DsfControl'
  BY <1>1, <1>2, <1>4 DEF DsfInv, FlatStack, DsfControl, Scanning, Pushing
<1>7. ChunkExtent'
  BY <1>1, DsfStackKept
<1>8. AtContent => reading_id3v2_metadata
  BY <1>1, <1>2, <1>4 DEF DsfInv, ContentBegins
<1>9. ContentBegins' /\ HeaderFinished'
  BY <1>1, <1>2, <1>8, DsfIdleFacts DEF ContentBegins, HeaderFinished, AtContent, IsHeader, Front, Scanning
<1>10. Scanning' => /\ byte_position' + available' = upstream_position'
                    /\ byte_position' = pending_segment_start
  BY <1>2, <1>3, <1>4 DEF Scanning, DsfTypeOK, UInt64
<1>11. DsfInput'
  BY <1>1, <1>2, <1>3, <1>10 DEF DsfInv, DsfInput, DsfTypeOK, UInt64
<1>12. DsfStream'
  BY <1>1, <1>2, <1>3 DEF DsfInv, DsfStream, Scanning, UInt64
<1>13. reading_id3v2_metadata => Scanning /\ Scanning' /\ UNCHANGED byte_position /\ UNCHANGED available
  BY <1>1, <1>2, DsfIdleFacts DEF DsfInv, ExcursionInside, Excursion, AtHeader, AtContent, Scanning
<1>14. ExcursionInside'
  BY <1>1, <1>2, <1>13 DEF DsfInv, ExcursionInside, Excursion, AtHeader, AtContent, IsHeader, Front, Scanning
<1>15. ExcursionProgress'
  BY <1>1, <1>13, StarvedFrame DEF DsfInv, ExcursionProgress, Pushing, Scanning
<1>16. PayloadReported'
  BY <1>1, <1>2, <1>4, DsfPayloadKept DEF Scanning
<1>. QED BY <1>5, <1>6, <1>7, <1>9, <1>11, <1>12, <1>14, <1>15, <1>16 DEF DsfInv

\* Upstream is at its end.  A scan that waits for more of the tag has read the tag's
\* header, right before the end.
LEMMA DsfEndOfStreamInv ==
  ASSUME DsfInv, EndOfStream, UNCHANGED dsf_vars PROVE DsfInv'
<1>1. /\ pc = "idle" /\ pending_segment_start = NoSegment /\ Scanning /\ upstream_position = medium.size
      /\ UNCHANGED <<medium, payload, stack_vars, prop_vars, pop_vars, flow_ret, scan_from>>
  BY DEF EndOfStream
<1>2. Pushing /\ ~PayloadLocated /\ flow_ret \in {"OK", "NOT_ENOUGH_DATA"}
  BY <1>1, DsfIdleFacts
<1>3. parse_stage' = "StreamFailure" /\ UNCHANGED io_vars /\ pc' = "stopped"
  BY <1>1, <1>2 DEF EndOfStream, FinishWithoutPayload
<1>. USE DEF stack_vars, prop_vars, pop_vars, dsf_vars, io_vars
<1>4. DsfTypeOK /\ medium.size \in UInt64
  BY DsfMediumType DEF DsfInv, DsfTypeOK
<1>5. DsfTypeOK'
  BY <1>1, <1>3, <1>4 DEF DsfTypeOK, DsfPlaces, Places, Stages
<1>6. FlatStack' /\ DsfControl'
  BY <1>1, <1>2, <1>3 DEF DsfInv, FlatStack, DsfControl, Scanning
<1>7. ChunkExtent' /\ ContentBegins' /\ HeaderFinished'
  BY <1>1, <1>3, DsfStackKept DEF ContentBegins, HeaderFinished, AtContent, Scanning
<1>8. DsfInput' /\ DsfStream'
  BY <1>1, <1>3 DEF DsfInv, DsfInput, DsfStream, Scanning, Pushing
<1>9. ASSUME reading_id3v2_metadata
      PROVE  id3v2_size # NotRead /\ byte_position = medium.size
  <2>1. /\ byte_position + available = medium.size
        /\ byte_position \in UInt64 /\ available \in UInt64
    BY <1>1, <1>2, <1>4, <1>9 DEF DsfInv, DsfTypeOK, DsfInput
  <2>2. /\ upstream_size = medium.size
        /\ id3v2_size = NotRead => byte_position + Id3v2HeaderSize <= medium.size
        /\ Starved
    BY <1>1, <1>2, <1>9 DEF DsfInv, ExcursionInside, Excursion, ExcursionProgress
  <2>3. id3v2_size # NotRead
    BY <1>4, <2>1, <2>2, DsfAssumption DEF Starved, UInt64
  <2>4. CASE available = 0
    BY <1>4, <2>1, <2>3, <2>4 DEF UInt64
  <2>5. CASE TagIsReadable /\ available < NumLeftover
    <3>1. id3v2_size \in UInt64
      BY <1>4, <2>3, DsfAssumption DEF DsfTypeOK
    <3>2. NumLeftover \in UInt64 /\ byte_position + NumLeftover <= medium.size
      BY <2>1, <2>2, <2>5, <3>1, ReadableTag
    <3>. QED BY <1>4, <2>1, <2>5, <3>2, WidthAssumption DEF UInt64
  <2>. QED BY <2>2, <2>3, <2>4, <2>5 DEF Starved
<1>10. ExcursionInside' /\ ExcursionProgress'
  <2>1. reading_id3v2_metadata => id3v2_size # NotRead /\ byte_position = medium.size
    BY <1>9
  <2>. QED BY <1>1, <1>2, <1>3, <2>1 DEF ExcursionInside, Excursion, ExcursionProgress
<1>11. PayloadReported'
  BY <1>1, <1>2, <1>3, DsfPayloadKept DEF Scanning
<1>. QED BY <1>5, <1>6, <1>7, <1>8, <1>10, <1>11 DEF DsfInv

-------------------------------------------------------------------------------
(***************************************************************************)
(* Reads, skips and the end of the scan                                    *)
(***************************************************************************)

\* A read that succeeds moves the byte position forward by what it reads, inside the
\* medium and the open chunk.
LEMMA DsfReadEffect ==
  ASSUME DsfInv, Scanning, flow_ret # "ERROR", Pushing => pending_segment_start = NoSegment,
         NEW n \in UInt64, Read(n, "OK")
  PROVE  /\ byte_position' \in UInt64 /\ available' \in UInt64
         /\ UNCHANGED <<upstream_position, pending_segment_start>>
         /\ byte_position' = byte_position + n
         /\ byte_position' <= medium.size
         /\ m_stack # << >> => byte_position' <= Front.payload_end_pos
         /\ Pushing => byte_position' + available' = byte_position + available
<1>1. /\ Consume(n)
      /\ Pushing => n <= available
      /\ VerifyAdvance(byte_position, n)
      /\ ~Pushing => byte_position + n <= medium.size
  <2>1. Consume(n) /\ ReadReturnCode(n) = "OK"
    BY DEF Read
  <2>2. available \in UInt64 /\ byte_position \in UInt64 /\ medium.size \in UInt64
    BY DsfMediumType DEF DsfInv, DsfTypeOK
  <2>. QED BY <2>1, <2>2 DEF ReadReturnCode, UInt64
<1>2. /\ byte_position \in UInt64 /\ available \in UInt64 /\ medium.size \in UInt64
      /\ upstream_position \in UInt64 /\ upstream_position <= medium.size
      /\ Pushing => byte_position + available <= upstream_position
  BY DsfMediumType DEF DsfInv, DsfTypeOK, DsfInput
<1>3. byte_position + n <= medium.size /\ byte_position + n \in UInt64
  BY <1>1, <1>2, WidthAssumption DEF UInt64
<1>4. byte_position' = byte_position + n
  BY <1>1, <1>3, WrapIdentity DEF Consume
<1>5. /\ UNCHANGED <<upstream_position, pending_segment_start>>
      /\ available' = IF Pushing THEN available - n ELSE available
  BY <1>1 DEF Consume
<1>6. m_stack # << >> => byte_position' <= Front.payload_end_pos
  BY <1>1, <1>3, <1>4, WrapIdentity DEF VerifyAdvance
<1>7. available' \in UInt64 /\ (Pushing => byte_position' + available' = byte_position + available)
  <2>1. CASE Pushing
    BY <1>1, <1>2, <1>4, <1>5, <2>1, WidthAssumption DEF UInt64
  <2>2. CASE ~Pushing
    BY <1>2, <1>5, <2>2
  <2>. QED BY <2>1, <2>2
<1>. QED BY <1>3, <1>4, <1>5, <1>6, <1>7

\* A skip inside the open chunk moves the byte position forward, by what is skipped or
\* to the end of the medium, or leaves a segment pending.
LEMMA DsfSkipEffect ==
  ASSUME DsfInv, Scanning, flow_ret # "ERROR", m_stack # << >>, ~reading_id3v2_metadata,
         NEW n \in UInt64, NEW force \in BOOLEAN, NEW ret, NEW skipped,
         Skip(n, force, ret, skipped),
         SkipsBySeeking(n, force) => pending_segment_start = NoSegment,
         byte_position + n <= Front.payload_end_pos
  PROVE  /\ byte_position' \in UInt64 /\ available' \in UInt64 /\ upstream_position' \in UInt64
         /\ pending_segment_start' \in UInt64 \cup {NoSegment}
         /\ ret \in {"OK", "ERROR", "ADVANCE_OUT_OF_BOUNDS"}
         /\ ret # "OK" => UNCHANGED <<byte_position, pending_segment_start>>
         /\ ret = "OK" /\ skipped # n =>
              UNCHANGED pending_segment_start /\ byte_position' < Front.payload_end_pos
         /\ upstream_position' <= medium.size
         /\ pending_segment_start' # NoSegment => Pushing
         /\ Pushing /\ ret # "ERROR" =>
              IF pending_segment_start' = NoSegment
              THEN /\ byte_position' + available' <= upstream_position'
                   /\ ~seek_refused => byte_position' + available' = upstream_position'
              ELSE upstream_position' = pending_segment_start' /\ available' = 0
<1>1. /\ Front.payload_end_pos \in UInt64 /\ medium.size \in UInt64
      /\ byte_position \in UInt64 /\ available \in UInt64 /\ upstream_position \in UInt64
      /\ pending_segment_start \in UInt64 \cup {NoSegment} /\ 0 \in UInt64
      /\ byte_position + n \in UInt64
  BY DsfFrontType, DsfMediumType, WidthAssumption DEF DsfInv, DsfTypeOK, UInt64
<1>2. /\ upstream_position <= medium.size
      /\ pending_segment_start # NoSegment => Pushing
      /\ Pushing => IF pending_segment_start = NoSegment
                    THEN /\ byte_position + available <= upstream_position
                         /\ ~seek_refused => byte_position + available = upstream_position
                    ELSE upstream_position = pending_segment_start /\ available = 0
  BY DEF DsfInv, DsfInput
<1>3. CASE skipped > 0 /\ ~VerifyAdvance(byte_position, skipped)
  <2>1. ret = "ADVANCE_OUT_OF_BOUNDS" /\ UNCHANGED io_vars
    BY <1>3 DEF Skip
  <2>. QED BY <1>1, <1>2, <2>1 DEF io_vars
<1>4. CASE ~(skipped > 0 /\ ~VerifyAdvance(byte_position, skipped)) /\ ~SkipsBySeeking(n, force)
  <2>1. /\ ret = "OK" /\ Consume(skipped) /\ skipped \in 0 .. n /\ (Pushing => skipped <= available)
    BY <1>1, <1>4 DEF Skip, SkipsBySeeking, SkipsPartially, SkipsByConsuming, UInt64
  <2>2. byte_position + skipped \in UInt64
    BY <1>1, <2>1, WidthAssumption DEF UInt64
  <2>3. byte_position' = byte_position + skipped
    BY <2>1, <2>2, WrapIdentity DEF Consume
  <2>4. /\ UNCHANGED <<upstream_position, pending_segment_start>>
        /\ available' = IF Pushing THEN available - skipped ELSE available
    BY <2>1 DEF Consume
  <2>5. skipped # n => byte_position' < Front.payload_end_pos
    BY <1>1, <2>1, <2>3 DEF UInt64
  <2>6. available' \in UInt64
    BY <1>1, <2>1, <2>4, WidthAssumption DEF UInt64
  <2>7. ASSUME Pushing
        PROVE  /\ byte_position' + available' = byte_position + available
               /\ available = 0 => available' = 0
    BY <1>1, <2>1, <2>3, <2>4, <2>7 DEF UInt64
  <2>. QED BY <1>1, <1>2, <2>1, <2>2, <2>3, <2>4, <2>5, <2>6, <2>7
<1>5. CASE ~(skipped > 0 /\ ~VerifyAdvance(byte_position, skipped)) /\ SkipsBySeeking(n, force)
  <2>1. Pushing /\ skipped = n /\ SeekForward(n, ret) /\ pending_segment_start = NoSegment
    BY <1>5 DEF Skip, SkipsBySeeking, SkipsByConsuming
  <2>2. Wrap(byte_position + n) = byte_position + n
    BY <1>1, WrapIdentity
  <2>3. available' = 0 /\ ret \in {"OK", "ERROR"}
    BY <2>1 DEF SeekForward
  <2>4. CASE ret = "ERROR" /\ UNCHANGED <<byte_position, upstream_position, pending_segment_start>>
    BY <1>1, <1>2, <2>1, <2>3, <2>4
  <2>5. CASE ret = "OK"
    <3>1. PICK sync \in BOOLEAN :
            /\ UpstreamSeek(byte_position + n, sync)
            /\ byte_position' = IF sync THEN upstream_position' ELSE byte_position + n
      BY <2>1, <2>2, <2>5 DEF SeekForward
    <3>2. upstream_position' \in UInt64 /\ upstream_position' <= medium.size
      BY <1>1, <3>1 DEF UpstreamSeek, Lesser, UInt64
    <3>3. CASE sync
      <4>1. pending_segment_start' = NoSegment /\ byte_position' = upstream_position'
        BY <3>1, <3>3 DEF UpstreamSeek
      <4>2. byte_position' \in UInt64
        BY <3>2, <4>1
      <4>3. byte_position' \in Int
        BY <4>2, WidthAssumption DEF UInt64
      <4>4. /\ byte_position' + available' = upstream_position'
            /\ byte_position' + available' <= upstream_position'
        BY <2>3, <4>1, <4>3, EmptyAdds
      <4>. QED BY <1>1, <2>1, <2>3, <2>5, <3>2, <4>1, <4>2, <4>4
    <3>4. CASE ~sync
      <4>1. pending_segment_start' = upstream_position' /\ byte_position' = byte_position + n
        BY <3>1, <3>4 DEF UpstreamSeek
      <4>2. pending_segment_start' # NoSegment
        BY <3>2, <4>1 DEF NoSegment, UInt64
      <4>. QED BY <1>1, <2>1, <2>3, <2>5, <3>2, <4>1, <4>2
    <3>. QED BY <3>3, <3>4
  <2>. QED BY <2>1, <2>3, <2>4, <2>5 DEF SeekForward
<1>. QED BY <1>3, <1>4, <1>5

\* Ending the scan leaves the Scanning Info stage, with upstream at the payload or to be there.
LEMMA DsfScanningFinishedEffect ==
  ASSUME DsfInv, PayloadLocated, parse_stage \in {"ScanningInfo", "Streaming"},
         ScanningFinished, UNCHANGED <<medium, payload, seek_refused>>
  PROVE  /\ ~Scanning' /\ parse_stage' \in Stages
         /\ byte_position' \in UInt64 /\ available' \in UInt64 /\ upstream_position' \in UInt64
         /\ pending_segment_start' \in UInt64 \cup {NoSegment}
         /\ DsfInput' /\ DsfStream'
         /\ EntersStreaming => AtPayload
<1>1. /\ payload.position \in UInt64 /\ payload.position <= medium.size /\ medium.size \in UInt64
      /\ byte_position \in UInt64 /\ available \in UInt64 /\ upstream_position \in UInt64
      /\ pending_segment_start \in UInt64 \cup {NoSegment} /\ 0 \in UInt64
      /\ upstream_position <= medium.size
      /\ pending_segment_start # NoSegment => Pushing
  BY DsfMediumType, WidthAssumption DEF DsfInv, DsfTypeOK, DsfInput, PayloadReported, UInt64
<1>2. Pushing' = Pushing /\ PayloadLocated' = PayloadLocated
  BY DEF Pushing, PayloadLocated
<1>3. CASE parse_stage = "Streaming" /\ UNCHANGED <<parse_stage, io_vars>>
  <2>1. ~Scanning' /\ parse_stage' \in Stages /\ ~EntersStreaming
    BY <1>3 DEF Scanning, Stages, EntersStreaming
  <2>2. DsfInput' /\ DsfStream'
    BY <1>1, <1>2, <1>3 DEF DsfInv, DsfInput, DsfStream, io_vars, Scanning
  <2>. QED BY <1>1, <1>3, <2>1, <2>2 DEF io_vars
<1>4. CASE FinishByRewinding
  <2>1. /\ ~Pushing /\ byte_position' = payload.position
        /\ parse_stage' \in {"Streaming", "StreamFailure"}
        /\ UNCHANGED <<available, upstream_position, pending_segment_start>>
    BY <1>4 DEF FinishByRewinding, StartStreamingAt
  <2>2. DsfInput' /\ DsfStream'
    BY <1>1, <1>2, <2>1 DEF DsfInput, DsfStream
  <2>. QED BY <1>1, <1>2, <2>1, <2>2 DEF Scanning, Stages, EntersStreaming, AtPayload
<1>5. CASE FinishBySeekingUpstream
  <2>1. Lesser(payload.position, medium.size) = payload.position
    BY <1>1 DEF Lesser
  <2>2. CASE /\ UpstreamSeek(payload.position, TRUE)
             /\ StartStreamingAt(upstream_position')
             /\ available' = 0
    <3>1. /\ upstream_position' = payload.position /\ byte_position' = payload.position
          /\ pending_segment_start' = NoSegment /\ available' = 0
          /\ parse_stage' \in {"Streaming", "StreamFailure"}
      BY <2>1, <2>2 DEF UpstreamSeek, StartStreamingAt
    <3>2. upstream_position' = byte_position' + available'
      BY <1>1, <3>1 DEF UInt64
    <3>3. DsfInput' /\ DsfStream'
      BY <1>1, <3>1, <3>2 DEF DsfInput, DsfStream, Scanning
    <3>. QED BY <1>1, <3>1, <3>2, <3>3 DEF Scanning, Stages, EntersStreaming, AtPayload
  <2>3. CASE /\ UpstreamSeek(payload.position, FALSE)
             /\ parse_stage' = "AwaitingSegment"
             /\ UNCHANGED <<byte_position, available>>
    <3>1. upstream_position' = payload.position /\ pending_segment_start' = payload.position /\ Pushing
      BY <1>5, <2>1, <2>3 DEF UpstreamSeek, FinishBySeekingUpstream
    <3>2. DsfInput' /\ DsfStream'
      BY <1>1, <1>2, <2>3, <3>1 DEF DsfInput, DsfStream, Scanning
    <3>. QED BY <1>1, <2>3, <3>1, <3>2 DEF Scanning, Stages, EntersStreaming
  <2>4. CASE parse_stage' = "StreamFailure" /\ UNCHANGED io_vars
    <3>1. DsfInput' /\ DsfStream'
      BY <1>1, <1>2, <2>4 DEF DsfInput, DsfStream, Scanning, io_vars
    <3>. QED BY <1>1, <2>4, <3>1 DEF Scanning, Stages, EntersStreaming, io_vars
  <2>. QED BY <1>5, <2>2, <2>3, <2>4 DEF FinishBySeekingUpstream
<1>. QED BY <1>3, <1>4, <1>5 DEF ScanningFinished, FinishWithoutPayload

-------------------------------------------------------------------------------
(***************************************************************************)
(* Entering, skipping and finishing a chunk                                *)
(***************************************************************************)

\* What a step outside of the excursion need not show of it.
LEMMA NoExcursion ==
  ASSUME ~reading_id3v2_metadata', pc' \notin {"header_read", "seek_back", "id3v2"}
  PROVE  ExcursionInside' /\ ExcursionProgress'
  BY DEF ExcursionInside, Excursion, ExcursionProgress

\* A stack of one chunk is flat and not empty.
LEMMA SingleChunk ==
  ASSUME NEW s \in Seq(Chunk), Len(s) = 1
  PROVE  Len(s) <= 1 /\ s # << >>
  OBVIOUS

\* An iterator into a flat stack that is not at its end stands on the only element.
LEMMA OnlyElement ==
  ASSUME NEW i \in Nat, NEW n \in Nat, i >= 1, i <= n, n <= 1
  PROVE  i = 1 /\ n = 1
  OBVIOUS

\* The chunk that push_chunk() puts on the empty stack, where its header ended.
LEMMA EnteredChunk ==
  ASSUME m_stack = << >>, NEW f \in Fourccs, NEW raw_size \in UInt64, NEW begin \in UInt64,
         ~SizeIsUnusable(raw_size, begin),
         PushChunk(f, ContentSize(raw_size), begin, begin + Padded(ContentSize(raw_size)))
  PROVE  LET size == ContentSize(raw_size)
             end  == begin + Padded(size)
         IN  /\ PushReturnCode(f, size, begin, end) # "Ok" => m_stack' = << >>
             /\ PushReturnCode(f, size, begin, end) = "Ok" =>
                  /\ m_stack' \in Seq(Chunk) /\ Len(m_stack') = 1 /\ m_stack' # << >>
                  /\ Front'.fourcc = f /\ Front'.size = size
                  /\ Front'.payload_begin_pos = begin /\ Front'.payload_end_pos = end
                  /\ begin + size <= end
                  /\ IF size = 0 THEN end = begin ELSE begin < end
                  /\ IsHeader(Front') => end = begin + Prefix'
<1>. DEFINE size == ContentSize(raw_size)
            end  == begin + Padded(size)
<1>1. size \in UInt64 /\ end \in UInt64 /\ begin + size <= end
  BY UsableSize
<1>2. m_stack \in Seq(Chunk) /\ Len(m_stack) = 0
  OBVIOUS
<1>3. PushChunk(f, size, begin, end)
  OBVIOUS
<1>. HIDE DEF size, end
<1>4. CASE PushReturnCode(f, size, begin, end) # "Ok"
  <2>1. m_stack' \in Seq(Chunk) /\ Len(m_stack') = 0
    BY <1>1, <1>2, <1>3, <1>4, PushKeepsStack
  <2>2. m_stack' = << >>
    BY <2>1, SingleChunk
  <2>. QED BY <1>4, <2>2 DEF size, end
<1>5. CASE PushReturnCode(f, size, begin, end) = "Ok"
  <2>1. /\ m_stack' \in Seq(Chunk) /\ Len(m_stack') = 1
        /\ m_stack'[1] = [fourcc |-> f, size |-> size, payload_begin_pos |-> begin,
                          payload_end_pos |-> end, observed |-> {}]
    BY <1>1, <1>2, <1>3, <1>5, PushKeepsStack
  <2>2. /\ Front'.fourcc = f /\ Front'.size = size
        /\ Front'.payload_begin_pos = begin /\ Front'.payload_end_pos = end
    BY <2>1 DEF Front
  <2>3. Wrap(size) = size
    BY <1>1, WrapIdentity
  <2>4. ASSUME size = 0 PROVE end = begin
    <3>1. size + (size % 2) = size
      BY <2>4
    <3>2. Padded(size) = 0
      BY <2>3, <2>4, <3>1 DEF Padded
    <3>. QED BY <3>2 DEF end, UInt64
  <2>5. ASSUME IsHeader(Front') PROVE end = begin + Prefix'
    <3>1. Known(f) /\ Descriptions[f].parse = "Header" /\ Prefix' = Descriptions[f].prefix
      BY <2>2, <2>5 DEF IsHeader, Prefix
    <3>2. /\ Descriptions[f].size_type = "ExactSize"
          /\ Descriptions[f].size = Descriptions[f].prefix /\ Descriptions[f].prefix % 2 = 0
      BY <3>1, DsfTableAssumption DEF Known
    <3>3. size = Descriptions[f].prefix
      BY <1>5, <3>1, <3>2 DEF PushReturnCode, SizeIsWrong
    <3>4. size + (size % 2) = size
      BY <1>1, <3>2, <3>3, WidthAssumption DEF UInt64
    <3>5. Padded(size) = size
      BY <2>3, <3>4 DEF Padded
    <3>. QED BY <3>1, <3>3, <3>5 DEF end
  <2>6. m_stack' # << >>
    BY <2>1, SingleChunk
  <2>7. size # 0 => begin < end
    BY <1>1, WidthAssumption DEF UInt64
  <2>. QED BY <1>1, <1>5, <2>1, <2>2, <2>4, <2>5, <2>6, <2>7 DEF size, end
<1>. QED BY <1>4, <1>5 DEF size, end

\* A chunk header is read, and the chunk entered where it is usable.
LEMMA DsfParseChunkStartInv ==
  ASSUME DsfInv, ParseChunkStart, UNCHANGED dsf_vars PROVE DsfInv'
<1>1. Dispatch("ParsingChunkStart") /\ Read(HeaderSize, "OK")
      /\ UNCHANGED <<parse_stage, payload, prop_vars>>
  BY DEF ParseChunkStart
<1>2. /\ pc = "loop" /\ flow_ret \in {"OK", "NOT_ENOUGH_DATA"} /\ Scanning
      /\ chunk_parse_stage = "ParsingChunkStart" /\ m_stack = << >>
      /\ pending_segment_start = NoSegment /\ ~PayloadLocated /\ ~reading_id3v2_metadata
      /\ UNCHANGED <<medium, pop_vars>> /\ scan_from' = byte_position
  BY <1>1, DsfDispatchFacts DEF DsfInv, DsfInput
<1>3. /\ byte_position' \in UInt64 /\ available' \in UInt64
      /\ UNCHANGED <<upstream_position, pending_segment_start>>
      /\ byte_position' <= medium.size
      /\ Pushing => byte_position' + available' = byte_position + available
  BY <1>1, <1>2, HeaderAssumption, DsfReadEffect
<1>4. DsfTypeOK /\ byte_position \in UInt64
  BY DEF DsfInv, DsfTypeOK
<1>5. /\ m_stack' \in Seq(Chunk) /\ Len(m_stack') <= 1 /\ ChunkExtent'
      /\ \/ pc' = "corrupt_settle" /\ UNCHANGED <<chunk_parse_stage, flow_ret>> /\ m_stack' = << >>
         \/ /\ pc' = "settle" /\ flow_ret' = "OK" /\ m_stack' # << >>
            /\ chunk_parse_stage' \in {"FinishingChunk", "ParsingChunkContent"}
            /\ chunk_parse_stage' = "FinishingChunk" => byte_position' = Front'.payload_end_pos
            /\ chunk_parse_stage' = "ParsingChunkContent" =>
                 /\ Front'.size > 0
                 /\ byte_position' = Front'.payload_begin_pos
                 /\ byte_position' < Front'.payload_end_pos
  <2>1. PICK f \in Fourccs, raw_size \in UInt64 :
          IF SizeIsUnusable(raw_size, byte_position')
          THEN pc' = "corrupt_settle" /\ UNCHANGED <<stack_vars, flow_ret>>
          ELSE EnterChunk(f, raw_size, byte_position')
    BY HeaderAssumption DEF ParseChunkStart
  <2>3. CASE pc' = "corrupt_settle" /\ UNCHANGED <<stack_vars, flow_ret>>
    BY <1>2, <2>3 DEF stack_vars, ChunkExtent
  <2>4. CASE ~SizeIsUnusable(raw_size, byte_position') /\ EnterChunk(f, raw_size, byte_position')
    <3>. DEFINE size == ContentSize(raw_size)
                end  == byte_position' + Padded(size)
                ok   == PushReturnCode(f, size, byte_position', end) = "Ok"
    <3>1. PushChunk(f, size, byte_position', end)
      BY <2>4 DEF EnterChunk
    <3>2. /\ ~ok => m_stack' = << >>
          /\ ok => /\ m_stack' \in Seq(Chunk) /\ Len(m_stack') = 1 /\ m_stack' # << >>
                   /\ Front'.size = size
                   /\ Front'.payload_begin_pos = byte_position' /\ Front'.payload_end_pos = end
                   /\ byte_position' + size <= end
                   /\ IF size = 0 THEN end = byte_position' ELSE byte_position' < end
                   /\ IsHeader(Front') => end = byte_position' + Prefix'
      BY <1>2, <1>3, <2>4, <3>1, EnteredChunk
    <3>3. size \in UInt64 /\ end \in UInt64
      BY <1>3, <2>4, UsableSize
    <3>4. IF ok THEN /\ chunk_parse_stage' = IF size = 0 THEN "FinishingChunk" ELSE "ParsingChunkContent"
                     /\ flow_ret' = "OK" /\ pc' = "settle"
                ELSE pc' = "corrupt_settle" /\ UNCHANGED <<chunk_parse_stage, flow_ret>>
      BY <2>4 DEF EnterChunk, Returns
    <3>. HIDE DEF size, end, ok
    <3>5. CASE ok
      <4>1. ChunkExtent'
        BY <3>2, <3>5 DEF ChunkExtent
      <4>2. Len(m_stack') <= 1
        BY <3>2, <3>5, SingleChunk
      <4>3. /\ chunk_parse_stage' = IF size = 0 THEN "FinishingChunk" ELSE "ParsingChunkContent"
            /\ flow_ret' = "OK" /\ pc' = "settle"
        BY <3>4, <3>5
      <4>4. CASE size = 0
        BY <3>2, <3>5, <4>1, <4>2, <4>3, <4>4
      <4>5. CASE size # 0
        <5>1. size > 0
          BY <3>3, <4>5, WidthAssumption DEF UInt64
        <5>. QED BY <3>2, <3>5, <4>1, <4>2, <4>3, <4>5, <5>1
      <4>. QED BY <4>4, <4>5
    <3>6. CASE ~ok
      BY <3>2, <3>4, <3>6 DEF ChunkExtent
    <3>. QED BY <3>5, <3>6
  <2>. QED BY <2>1, <2>3, <2>4
<1>. HIDE DEF ChunkExtent
<1>. USE DEF stack_vars, prop_vars, pop_vars, dsf_vars
<1>6. DsfTypeOK'
  <2>1. pc' \in DsfPlaces /\ flow_ret' \in FlowReturns /\ chunk_parse_stage' \in ChunkParseStages
    BY <1>2, <1>5 DEF DsfPlaces, Places, FlowReturns, ChunkParseStages
  <2>. QED BY <1>1, <1>2, <1>3, <1>4, <1>5, <2>1 DEF DsfTypeOK
<1>7. FlatStack' /\ DsfControl'
  BY <1>1, <1>2, <1>5 DEF FlatStack, DsfControl, Scanning
<1>8. ContentBegins' /\ HeaderFinished'
  BY <1>1, <1>2, <1>3, <1>5 DEF ContentBegins, AtContent, HeaderFinished
<1>9. DsfInput' /\ DsfStream'
  <2>1. /\ upstream_position <= medium.size
        /\ Pushing => /\ byte_position + available <= upstream_position
                      /\ ~seek_refused => byte_position + available = upstream_position
    BY <1>2 DEF DsfInv, DsfInput
  <2>2. Pushing' = Pushing /\ Scanning'
    BY <1>1, <1>2 DEF Pushing, Scanning
  <2>. QED BY <1>2, <1>3, <2>1, <2>2 DEF DsfInput, DsfStream, Scanning
<1>10. ExcursionInside' /\ ExcursionProgress'
  BY <1>2, <1>5, NoExcursion
<1>11. PayloadReported'
  BY <1>1, <1>2, DsfPayloadKept
<1>. QED BY <1>5, <1>6, <1>7, <1>8, <1>9, <1>10, <1>11 DEF DsfInv

\* A skip inside the open chunk, outside of the excursion, keeps the invariant if the
\* place and the stage that follow fit what was skipped.
LEMMA DsfSkipInv ==
  ASSUME DsfInv, Scanning, m_stack # << >>, ~IsHeader(Front), ~reading_id3v2_metadata,
         flow_ret # "ERROR", ~PayloadLocated,
         UNCHANGED <<medium, parse_stage, payload, m_stack, upstream_size, dsf_vars, pop_vars>>,
         NEW n \in UInt64, NEW ret, NEW skipped, Skip(n, FALSE, ret, skipped),
         SkipsBySeeking(n, FALSE) => pending_segment_start = NoSegment,
         byte_position + n <= Front.payload_end_pos,
         flow_ret' \in FlowReturns, ret = "ERROR" => flow_ret' = "ERROR",
         chunk_parse_stage' \in {"ParsingChunkContent", "FinishingChunk"},
         chunk_parse_stage' = "ParsingChunkContent" =>
           /\ chunk_parse_stage = "ParsingChunkContent"
           /\ pending_segment_start = NoSegment /\ ~Known(Front.fourcc)
           /\ ~(ret = "OK" /\ skipped = n)
           /\ byte_position < Front.payload_end_pos,
         scan_from' \in UInt64,
         pc' = "settle" /\ chunk_parse_stage' = "FinishingChunk" => flow_ret' \in {"OK", "NOTHING_TO_READ"},
         pc' \in {"settle", "finish", "scanned"},
         pc' = "finish" => chunk_parse_stage' = "FinishingChunk" /\ flow_ret' # "ERROR"
  PROVE  DsfInv'
<1>1. /\ byte_position' \in UInt64 /\ available' \in UInt64 /\ upstream_position' \in UInt64
      /\ pending_segment_start' \in UInt64 \cup {NoSegment}
      /\ ret \in {"OK", "ERROR", "ADVANCE_OUT_OF_BOUNDS"}
      /\ ret # "OK" => UNCHANGED <<byte_position, pending_segment_start>>
      /\ ret = "OK" /\ skipped # n =>
           UNCHANGED pending_segment_start /\ byte_position' < Front.payload_end_pos
      /\ upstream_position' <= medium.size
      /\ pending_segment_start' # NoSegment => Pushing
      /\ Pushing /\ ret # "ERROR" =>
           IF pending_segment_start' = NoSegment
           THEN /\ byte_position' + available' <= upstream_position'
                /\ ~seek_refused => byte_position' + available' = upstream_position'
           ELSE upstream_position' = pending_segment_start' /\ available' = 0
  BY DsfSkipEffect
<1>. USE DEF dsf_vars, pop_vars
<1>2. DsfTypeOK'
  <2>1. pc' \in DsfPlaces /\ chunk_parse_stage' \in ChunkParseStages
    BY DEF DsfPlaces, Places, ChunkParseStages
  <2>. QED BY <1>1, <2>1 DEF DsfInv, DsfTypeOK
<1>3. FlatStack' /\ DsfControl'
  BY DEF DsfInv, FlatStack, DsfControl, Scanning
<1>4. Front' = Front /\ (Known(Front.fourcc))' = Known(Front.fourcc) /\ IsHeader(Front)' = IsHeader(Front)
      /\ Pushing' = Pushing /\ Scanning'
  BY DEF Front, Known, IsHeader, Pushing, Scanning
<1>5. ASSUME chunk_parse_stage' = "ParsingChunkContent"
      PROVE  pending_segment_start' = NoSegment /\ byte_position' < Front.payload_end_pos
  BY <1>1, <1>5
<1>6. ContentBegins' /\ HeaderFinished'
  BY <1>4, <1>5 DEF ContentBegins, AtContent, HeaderFinished
<1>7. DsfInput' /\ DsfStream'
  BY <1>1, <1>4 DEF DsfInput, DsfStream, Scanning
<1>8. ExcursionInside' /\ ExcursionProgress'
  BY NoExcursion
<1>9. ChunkExtent' /\ PayloadReported'
  BY DsfStackKept, DsfPayloadKept
<1>. QED BY <1>2, <1>3, <1>6, <1>7, <1>8, <1>9 DEF DsfInv

\* An unknown chunk is skipped, as far as the adapter or a seek goes.
LEMMA DsfSkipUnknownChunkInv ==
  ASSUME DsfInv, SkipUnknownChunk, UNCHANGED dsf_vars PROVE DsfInv'
<1>1. Dispatch("ParsingChunkContent") /\ ~Known(Front.fourcc)
      /\ UNCHANGED <<parse_stage, payload, m_stack, prop_vars>>
  BY DEF SkipUnknownChunk
<1>2. /\ pc = "loop" /\ flow_ret \in {"OK", "NOT_ENOUGH_DATA"} /\ Scanning
      /\ chunk_parse_stage = "ParsingChunkContent" /\ m_stack # << >>
      /\ pending_segment_start = NoSegment /\ ~PayloadLocated
      /\ UNCHANGED <<medium, pop_vars>> /\ scan_from' = byte_position
  BY <1>1, DsfDispatchFacts DEF DsfInv, DsfInput
<1>3. ~reading_id3v2_metadata /\ ~IsHeader(Front)
  BY <1>1, <1>2, DsfIdleFacts DEF AtHeader, IsHeader
<1>4. byte_position < Front.payload_end_pos
  BY <1>1, <1>2, <1>3 DEF DsfInv, ContentBegins, AtContent
<1>5. byte_position \in UInt64 /\ Front.payload_end_pos \in UInt64
  BY <1>2, DsfFrontType DEF DsfInv, DsfTypeOK
<1>6. /\ NumRemaining \in UInt64 /\ byte_position + NumRemaining = Front.payload_end_pos
      /\ NumRemaining > 0
  <2>1. Front.payload_end_pos - byte_position \in UInt64
    BY <1>4, <1>5, WidthAssumption DEF UInt64
  <2>. QED BY <1>4, <1>5, <2>1, WrapIdentity, WidthAssumption DEF NumRemaining, UInt64
<1>7. PICK ret \in FlowReturns, skipped \in {NumRemaining, available} :
        /\ Skip(NumRemaining, FALSE, ret, skipped)
        /\ Returns(IF ret = "OK" /\ skipped = 0 THEN "NOT_ENOUGH_DATA" ELSE ret)
        /\ chunk_parse_stage' = IF ret = "OK" /\ skipped = NumRemaining THEN "FinishingChunk"
                                                                       ELSE chunk_parse_stage
  BY DEF SkipUnknownChunk
<1>8. pc' = "settle" /\ flow_ret' \in FlowReturns /\ (ret = "ERROR" => flow_ret' = "ERROR")
      /\ (chunk_parse_stage' = "FinishingChunk" => flow_ret' = "OK")
  <2>1. pc' = "settle" /\ flow_ret' = IF ret = "OK" /\ skipped = 0 THEN "NOT_ENOUGH_DATA" ELSE ret
    BY <1>7 DEF Returns
  <2>2. chunk_parse_stage' = "FinishingChunk" => ret = "OK" /\ skipped # 0
    BY <1>2, <1>6, <1>7
  <2>. QED BY <2>1, <2>2 DEF FlowReturns
<1>9. byte_position + NumRemaining <= Front.payload_end_pos /\ UNCHANGED upstream_size
  BY <1>1, <1>5, <1>6 DEF prop_vars, UInt64
<1>. QED BY <1>1, <1>2, <1>3, <1>4, <1>5, <1>6, <1>7, <1>8, <1>9, DsfSkipInv DEF prop_vars

\* The pad byte of a chunk that is to be finished is skipped.
LEMMA DsfSkipPadByteInv ==
  ASSUME DsfInv, SkipPadByte, UNCHANGED dsf_vars PROVE DsfInv'
<1>1. /\ pc = "finish" /\ Front.payload_end_pos - byte_position = 1
      /\ UNCHANGED <<medium, parse_stage, payload, stack_vars, prop_vars, pop_vars, scan_from>>
  BY DEF SkipPadByte, OnPadByte
<1>2. /\ Scanning /\ chunk_parse_stage = "FinishingChunk" /\ flow_ret # "ERROR" /\ m_stack # << >>
      /\ ~reading_id3v2_metadata /\ ~PayloadLocated
  BY <1>1 DEF DsfInv, DsfControl, FlatStack, ExcursionProgress, PayloadReported
<1>3. /\ byte_position \in UInt64 /\ Front.payload_end_pos \in UInt64 /\ scan_from \in UInt64
      /\ 1 \in UInt64
  <2>1. byte_position \in UInt64 /\ Front.payload_end_pos \in UInt64 /\ scan_from \in UInt64
    BY <1>2, DsfFrontType DEF DsfInv, DsfTypeOK
  <2>. QED BY <1>1, <2>1, WidthAssumption DEF UInt64
<1>4. ~IsHeader(Front) /\ byte_position + 1 <= Front.payload_end_pos
  BY <1>1, <1>2, <1>3, WidthAssumption DEF DsfInv, HeaderFinished, UInt64
<1>5. ~SkipsBySeeking(1, FALSE)
  BY SeekThresholdAssumption DEF SkipsBySeeking, SkipsPartially
<1>6. PICK ret \in FlowReturns, skipped \in {1, available} :
        /\ Skip(1, FALSE, ret, skipped)
        /\ IF ret = "OK" /\ skipped = 1
           THEN UNCHANGED <<pc, flow_ret>>
           ELSE pc' = "scanned" /\ flow_ret' = IF ret = "OK" THEN "NOT_ENOUGH_DATA" ELSE ret
  BY DEF SkipPadByte
<1>7. /\ pc' \in {"finish", "scanned"} /\ flow_ret' \in FlowReturns
      /\ ret = "ERROR" => flow_ret' = "ERROR"
      /\ pc' = "finish" => flow_ret' # "ERROR"
      /\ chunk_parse_stage' = "FinishingChunk"
  BY <1>1, <1>2, <1>6 DEF DsfInv, DsfTypeOK, FlowReturns, stack_vars
<1>. QED BY <1>1, <1>2, <1>3, <1>4, <1>5, <1>6, <1>7, DsfSkipInv DEF stack_vars, prop_vars

\* The open chunk ends at the position, and leaves the stack.
LEMMA DsfPopPlainChunkInv ==
  ASSUME DsfInv, PopPlainChunk, UNCHANGED dsf_vars PROVE DsfInv'
<1>1. /\ pc = "pop" /\ iter <= Len(m_stack) /\ Erase(iter) /\ any_popped' = TRUE
      /\ UNCHANGED <<medium, io_vars, parse_stage, payload, chunk_parse_stage, upstream_size,
                     pop_position, iter, pc, flow_ret, scan_from>>
  BY DEF PopPlainChunk, AtElement, EraseElement
<1>2. iter = 1 /\ Len(m_stack) = 1 /\ m_stack # << >>
  <2>1. iter \in Nat /\ iter >= 1 /\ m_stack \in Seq(Chunk) /\ Len(m_stack) <= 1
    BY <1>1, DsfPopFacts
  <2>2. Len(m_stack) \in Nat /\ iter <= Len(m_stack)
    BY <1>1, <2>1
  <2>3. iter = 1 /\ Len(m_stack) = 1
    BY <2>1, <2>2, OnlyElement
  <2>. QED BY <2>1, <2>3, SingleChunk
<1>3. m_stack' \in Seq(Chunk) /\ Len(m_stack') = 0
  BY <1>1, <1>2, DsfPopFacts, EraseKeepsStack
<1>4. m_stack' = << >>
  BY <1>3, EmptySeq
<1>. USE DEF io_vars, dsf_vars
<1>5. DsfTypeOK'
  <2>1. any_popped' \in BOOLEAN
    BY <1>1
  <2>. QED BY <1>1, <1>3, <2>1 DEF DsfInv, DsfTypeOK
<1>6. FlatStack'
  <2>1. Len(m_stack') <= 1
    BY <1>4
  <2>. QED BY <1>1, <1>4, <2>1, DsfPopFacts DEF FlatStack
<1>7. ChunkExtent' /\ DsfControl'
  BY <1>1, <1>4 DEF DsfInv, ChunkExtent, DsfControl, Scanning
<1>8. ContentBegins' /\ HeaderFinished'
  BY <1>1, DsfPopFacts DEF ContentBegins, AtContent, HeaderFinished
<1>9. DsfInput' /\ DsfStream'
  BY <1>1 DEF DsfInv, DsfInput, DsfStream, Pushing, Scanning, PayloadLocated
<1>10. ExcursionInside' /\ ExcursionProgress'
  BY <1>1, DsfPopFacts, NoExcursion
<1>11. PayloadReported'
  BY <1>1, DsfPopFacts, DsfPayloadKept
<1>. QED BY <1>5, <1>6, <1>7, <1>8, <1>9, <1>10, <1>11 DEF DsfInv

\* handle_corrupted_chunk_structure() concludes a scan that has found its payload, and
\* fails any other.
LEMMA DsfHandleCorruptedInv ==
  ASSUME DsfInv, HandleCorruptedChunkStructure, UNCHANGED dsf_vars
  PROVE  DsfInv' /\ (EntersStreaming => AtPayload)
<1>1. /\ pc \in {"corrupt_settle", "corrupt_finish"}
      /\ pc' = IF pc = "corrupt_settle" THEN "settle" ELSE "scanned"
      /\ UNCHANGED <<medium, payload, stack_vars, prop_vars, pop_vars, scan_from>>
  BY DEF HandleCorruptedChunkStructure
<1>2. Scanning /\ flow_ret # "ERROR" /\ ~reading_id3v2_metadata
      /\ (PayloadLocated => pc = "corrupt_settle" /\ chunk_parse_stage # "FinishingChunk")
      /\ (pc = "corrupt_settle" => chunk_parse_stage # "FinishingChunk")
  BY <1>1 DEF DsfInv, DsfControl, ExcursionProgress, PayloadReported
<1>. USE DEF stack_vars, prop_vars, pop_vars, dsf_vars
<1>3. CASE PayloadLocated
  <2>1. ScanningFinished /\ flow_ret' = "NOTHING_TO_READ" /\ pc' = "settle"
    BY <1>1, <1>2, <1>3 DEF HandleCorruptedChunkStructure
  <2>2. /\ ~Scanning' /\ parse_stage' \in Stages
        /\ byte_position' \in UInt64 /\ available' \in UInt64 /\ upstream_position' \in UInt64
        /\ pending_segment_start' \in UInt64 \cup {NoSegment}
        /\ DsfInput' /\ DsfStream'
        /\ EntersStreaming => AtPayload
    BY <1>1, <1>2, <1>3, <2>1, DsfScanningFinishedEffect DEF Scanning
  <2>3. DsfTypeOK'
    BY <1>1, <2>1, <2>2 DEF DsfInv, DsfTypeOK, DsfPlaces, Places, FlowReturns
  <2>4. FlatStack' /\ DsfControl'
    BY <1>1, <2>1, <2>2 DEF DsfInv, FlatStack, DsfControl
  <2>5. ChunkExtent' /\ ContentBegins' /\ HeaderFinished'
    BY <1>1, <2>2, DsfStackKept DEF ContentBegins, AtContent, HeaderFinished
  <2>6. ExcursionInside' /\ ExcursionProgress'
    BY <1>2, <2>1, NoExcursion
  <2>7. PayloadReported'
    BY <1>1, <2>2, DsfPayloadKept
  <2>. QED BY <2>2, <2>3, <2>4, <2>5, <2>6, <2>7 DEF DsfInv
<1>4. CASE ~PayloadLocated
  <2>1. flow_ret' = "ERROR" /\ DataUnchanged /\ UNCHANGED chunk_parse_stage
    BY <1>1, <1>4 DEF HandleCorruptedChunkStructure, DataUnchanged
  <2>. USE DEF DataUnchanged, io_vars
  <2>2. DsfTypeOK'
    BY <1>1, <2>1 DEF DsfInv, DsfTypeOK, DsfPlaces, Places, FlowReturns
  <2>3. FlatStack' /\ DsfControl'
    BY <1>1, <1>2, <2>1 DEF DsfInv, FlatStack, DsfControl, Scanning
  <2>4. ContentBegins' /\ HeaderFinished' /\ ExcursionProgress'
    BY <1>1, <1>2, <2>1 DEF ContentBegins, HeaderFinished, ExcursionProgress
  <2>5. ~EntersStreaming
    BY <2>1 DEF EntersStreaming
  <2>. QED BY <1>1, <1>2, <1>4, <2>1, <2>2, <2>3, <2>4, <2>5, DsfQuietInv DEF Excursion
<1>. QED BY <1>3, <1>4

-------------------------------------------------------------------------------
(***************************************************************************)
(* The header chunk and the excursion to the tag                           *)
(***************************************************************************)

\* What a parse function can rely on.
LEMMA DsfParsingFacts ==
  ASSUME DsfInv, NEW kind, Parsing(kind)
  PROVE  /\ pc = "loop" /\ flow_ret \in {"OK", "NOT_ENOUGH_DATA"}
         /\ Scanning /\ chunk_parse_stage = "ParsingChunkContent" /\ m_stack # << >>
         /\ pending_segment_start = NoSegment /\ ~PayloadLocated
         /\ UNCHANGED <<medium, pop_vars>> /\ scan_from' = byte_position
         /\ Known(Front.fourcc) /\ (IsHeader(Front) <=> kind = "Header") /\ Prefix \in UInt64
         /\ kind # "Header" => ~reading_id3v2_metadata
         /\ ~reading_id3v2_metadata =>
              /\ Front.size > 0
              /\ byte_position = Front.payload_begin_pos /\ byte_position <= medium.size
<1>1. /\ Dispatch("ParsingChunkContent") /\ Known(Front.fourcc)
      /\ Descriptions[Front.fourcc].parse = kind
  BY DEF Parsing
<1>2. /\ pc = "loop" /\ flow_ret \in {"OK", "NOT_ENOUGH_DATA"}
      /\ Scanning /\ chunk_parse_stage = "ParsingChunkContent" /\ m_stack # << >>
      /\ pending_segment_start = NoSegment /\ ~PayloadLocated
      /\ UNCHANGED <<medium, pop_vars>> /\ scan_from' = byte_position
  BY <1>1, DsfDispatchFacts DEF DsfInv, DsfInput
<1>3. /\ IsHeader(Front) <=> kind = "Header"
      /\ Prefix \in UInt64
  BY <1>1, DsfPrefixType DEF IsHeader
<1>4. kind # "Header" => ~reading_id3v2_metadata
  BY <1>2, <1>3, DsfIdleFacts DEF AtHeader
<1>5. ~reading_id3v2_metadata =>
        /\ Front.size > 0
        /\ byte_position = Front.payload_begin_pos /\ byte_position <= medium.size
  BY <1>1, <1>2 DEF DsfInv, ContentBegins, AtContent
<1>. QED BY <1>1, <1>2, <1>3, <1>4, <1>5

\* The fixed part of a header or a format chunk is read; then the chunk is finished, or
\* refused.
LEMMA DsfPrefixReadInv ==
  ASSUME DsfInv, NEW kind, Parsing(kind), ~reading_id3v2_metadata, Read(Prefix, "OK"),
         UNCHANGED <<parse_stage, payload, m_stack, reading_id3v2_metadata,
                     id3v2_pre_seek_byte_position, id3v2_size, total_num_indices, seek_refused>>,
         fmt_data' \in [expected : UInt64, actual : UInt64], fmt_data'.actual = fmt_data'.expected,
         upstream_size' \in {upstream_size, medium.size},
         \/ Returns("OK") /\ chunk_parse_stage' = "FinishingChunk"
         \/ Returns("ERROR") /\ UNCHANGED chunk_parse_stage
  PROVE  DsfInv'
<1>1. /\ pc = "loop" /\ flow_ret \in {"OK", "NOT_ENOUGH_DATA"}
      /\ Scanning /\ chunk_parse_stage = "ParsingChunkContent" /\ m_stack # << >>
      /\ pending_segment_start = NoSegment /\ ~PayloadLocated
      /\ UNCHANGED <<medium, pop_vars>> /\ scan_from' = byte_position
      /\ byte_position = Front.payload_begin_pos
      /\ Prefix \in UInt64
  BY DsfParsingFacts
<1>2. /\ byte_position' \in UInt64 /\ available' \in UInt64
      /\ UNCHANGED <<upstream_position, pending_segment_start>>
      /\ byte_position' = byte_position + Prefix
      /\ Pushing => byte_position' + available' = byte_position + available
  BY <1>1, DsfReadEffect
<1>3. /\ pc' = "settle"
      /\ \/ flow_ret' = "OK" /\ chunk_parse_stage' = "FinishingChunk"
         \/ flow_ret' = "ERROR" /\ chunk_parse_stage' = "ParsingChunkContent"
  BY <1>1 DEF Returns
<1>4. DsfTypeOK
  BY DEF DsfInv
<1>. USE DEF pop_vars
<1>5. DsfTypeOK'
  <2>1. /\ pc' \in DsfPlaces /\ flow_ret' \in FlowReturns /\ chunk_parse_stage' \in ChunkParseStages
        /\ scan_from' \in UInt64 /\ upstream_size' \in {0, medium'.size}
    BY <1>1, <1>3, <1>4 DEF DsfPlaces, Places, FlowReturns, ChunkParseStages, DsfTypeOK
  <2>. QED BY <1>1, <1>2, <1>4, <2>1 DEF DsfTypeOK
<1>6. FlatStack' /\ DsfControl'
  BY <1>1, <1>3 DEF DsfInv, FlatStack, DsfControl, Scanning
<1>7. ChunkExtent'
  BY DsfStackKept
<1>8. ContentBegins'
  BY <1>3 DEF ContentBegins, AtContent
<1>9. HeaderFinished'
  <2>1. Front' = Front /\ IsHeader(Front)' = IsHeader(Front)
    BY DEF Front, IsHeader
  <2>2. IsHeader(Front) => Front.payload_end_pos = Front.payload_begin_pos + Prefix
    BY <1>1 DEF DsfInv, ChunkExtent
  <2>. QED BY <1>1, <1>2, <1>3, <2>1, <2>2 DEF HeaderFinished
<1>10. DsfInput' /\ DsfStream'
  <2>1. /\ upstream_position <= medium.size
        /\ Pushing => /\ byte_position + available <= upstream_position
                      /\ ~seek_refused => byte_position + available = upstream_position
    BY <1>1 DEF DsfInv, DsfInput
  <2>2. Pushing' = Pushing /\ Scanning'
    BY <1>1 DEF Pushing, Scanning
  <2>. QED BY <1>1, <1>2, <2>1, <2>2 DEF DsfInput, DsfStream, Scanning
<1>11. ExcursionInside' /\ ExcursionProgress'
  BY <1>3, NoExcursion
<1>12. PayloadReported'
  BY <1>1 DEF DsfInv, PayloadReported, PayloadInsideMedium, IndicesCoverPayload, PayloadLocated
<1>. QED BY <1>5, <1>6, <1>7, <1>8, <1>9, <1>10, <1>11, <1>12 DEF DsfInv

\* Until the payload is reported, nothing has been deducted from the format's bytes.
LEMMA DsfFormatUntouched ==
  ASSUME DsfInv, ~PayloadLocated
  PROVE  fmt_data \in [expected : UInt64, actual : UInt64] /\ fmt_data.actual = fmt_data.expected
  BY DEF DsfInv, DsfTypeOK, PayloadReported

\* A header chunk of a medium that is too small, or whose size is not known, is refused.
LEMMA DsfHeaderRefusedInv ==
  ASSUME DsfInv, HeaderRefused PROVE DsfInv'
<1>1. /\ Parsing("Header") /\ ~reading_id3v2_metadata /\ Read(Prefix, "OK") /\ Returns("ERROR")
      /\ upstream_size' \in {upstream_size, medium.size}
      /\ UNCHANGED <<chunk_parse_stage, dsf_vars, parse_stage, payload, m_stack>>
  BY DEF HeaderRefused, OnlyStageAndInput
<1>2. fmt_data' \in [expected : UInt64, actual : UInt64] /\ fmt_data'.actual = fmt_data'.expected
  BY <1>1, DsfParsingFacts, DsfFormatUntouched DEF dsf_vars
<1>. QED BY <1>1, <1>2, DsfPrefixReadInv DEF dsf_vars

\* A format chunk gives the number of bytes, or is refused.
LEMMA DsfParseFormatInv ==
  ASSUME DsfInv, ParseFormat PROVE DsfInv'
<1>1. /\ Parsing("Format") /\ Read(Prefix, "OK") /\ ~reading_id3v2_metadata
      /\ UNCHANGED <<parse_stage, payload, m_stack, upstream_size, reading_id3v2_metadata,
                     id3v2_pre_seek_byte_position, id3v2_size, total_num_indices, seek_refused>>
  BY DsfParsingFacts DEF ParseFormat, OnlyStageAndInput
<1>2. CASE \E count \in ByteCounts : /\ fmt_data' = [expected |-> count, actual |-> count]
                                     /\ chunk_parse_stage' = "FinishingChunk"
                                     /\ Returns("OK")
  <2>1. fmt_data' \in [expected : UInt64, actual : UInt64] /\ fmt_data'.actual = fmt_data'.expected
    BY <1>2, DsfAssumption
  <2>. QED BY <1>1, <1>2, <2>1, DsfPrefixReadInv
<1>3. CASE Returns("ERROR") /\ UNCHANGED <<fmt_data, chunk_parse_stage>>
  <2>1. fmt_data' \in [expected : UInt64, actual : UInt64] /\ fmt_data'.actual = fmt_data'.expected
    BY <1>1, <1>3, DsfParsingFacts, DsfFormatUntouched
  <2>. QED BY <1>1, <1>3, <2>1, DsfPrefixReadInv
<1>. QED BY <1>2, <1>3 DEF ParseFormat

\* What the excursion can rely on at each of its places.
LEMMA ExcursionFacts ==
  ASSUME DsfInv, pc \in {"header_read", "id3v2", "seek_back"}
  PROVE  /\ Scanning /\ chunk_parse_stage = "ParsingChunkContent" /\ m_stack # << >> /\ IsHeader(Front)
         /\ upstream_size = medium.size /\ medium.size \in UInt64
         /\ id3v2_pre_seek_byte_position = Front.payload_end_pos
         /\ id3v2_pre_seek_byte_position <= medium.size
         /\ ~PayloadLocated /\ flow_ret # "ERROR"
         /\ reading_id3v2_metadata <=> pc = "id3v2"
<1>1. pc = "id3v2" => reading_id3v2_metadata
  BY DEF DsfInv, ExcursionProgress
<1>2. /\ AtHeader /\ upstream_size = medium.size
      /\ id3v2_pre_seek_byte_position = Front.payload_end_pos
      /\ id3v2_pre_seek_byte_position <= medium.size
      /\ pc \in {"header_read", "seek_back"} => ~reading_id3v2_metadata
  BY <1>1 DEF DsfInv, ExcursionInside, Excursion
<1>3. Scanning /\ chunk_parse_stage = "ParsingChunkContent" /\ IsHeader(Front)
  BY <1>2 DEF AtHeader, AtContent
<1>4. m_stack # << >> /\ ~PayloadLocated /\ flow_ret # "ERROR"
  BY <1>3 DEF DsfInv, FlatStack, PayloadReported, DsfControl
<1>. QED BY <1>1, <1>2, <1>3, <1>4, DsfMediumType DEF DsfInv, DsfTypeOK

\* A step within the excursion leaves the stack and the payload alone.
LEMMA ExcursionFrame ==
  ASSUME DsfInv, pc \in {"header_read", "id3v2", "seek_back"},
         UNCHANGED <<medium, parse_stage, payload, m_stack, upstream_size, fmt_data, total_num_indices>>
  PROVE  /\ ChunkExtent' /\ DsfStream' /\ PayloadReported'
         /\ Front' = Front /\ IsHeader(Front)' /\ Scanning' /\ Pushing' = Pushing
         /\ Known(Front.fourcc)'
<1>1. Scanning /\ IsHeader(Front) /\ ~PayloadLocated
  BY ExcursionFacts
<1>2. ChunkExtent' /\ PayloadReported'
  BY <1>1, DsfStackKept, DsfPayloadKept
<1>. QED BY <1>1, <1>2 DEF DsfStream, Scanning, Front, IsHeader, Pushing, Known

\* The header chunk of a medium of known size is finished, or points to a tag.
LEMMA DsfParseHeaderInv ==
  ASSUME DsfInv, ParseHeader PROVE DsfInv'
<1>1. /\ Parsing("Header") /\ ~reading_id3v2_metadata /\ Read(Prefix, "OK") /\ upstream_size' = medium.size
      /\ UNCHANGED <<parse_stage, payload, m_stack, reading_id3v2_metadata, id3v2_size, fmt_data,
                     total_num_indices, seek_refused>>
  BY DEF ParseHeader, OnlyStageAndInput
<1>2. fmt_data' \in [expected : UInt64, actual : UInt64] /\ fmt_data'.actual = fmt_data'.expected
  BY <1>1, DsfParsingFacts, DsfFormatUntouched
<1>3. CASE /\ chunk_parse_stage' = "FinishingChunk" /\ Returns("OK")
           /\ UNCHANGED id3v2_pre_seek_byte_position
  BY <1>1, <1>2, <1>3, DsfPrefixReadInv
<1>4. CASE /\ id3v2_pre_seek_byte_position' = byte_position' /\ pc' = "header_read"
           /\ UNCHANGED <<chunk_parse_stage, flow_ret>>
  <2>1. /\ pc = "loop" /\ flow_ret \in {"OK", "NOT_ENOUGH_DATA"}
        /\ Scanning /\ chunk_parse_stage = "ParsingChunkContent" /\ m_stack # << >>
        /\ pending_segment_start = NoSegment /\ ~PayloadLocated
        /\ UNCHANGED <<medium, pop_vars>> /\ scan_from' = byte_position
        /\ byte_position = Front.payload_begin_pos
        /\ IsHeader(Front) /\ Prefix \in UInt64
    BY <1>1, DsfParsingFacts
  <2>2. /\ byte_position' \in UInt64 /\ available' \in UInt64
        /\ UNCHANGED <<upstream_position, pending_segment_start>>
        /\ byte_position' = byte_position + Prefix /\ byte_position' <= medium.size
        /\ Pushing => byte_position' + available' = byte_position + available
    BY <1>1, <2>1, DsfReadEffect
  <2>3. Front.payload_end_pos = Front.payload_begin_pos + Prefix
    BY <2>1 DEF DsfInv, ChunkExtent
  <2>4. Front' = Front /\ IsHeader(Front)' /\ Scanning' /\ Pushing' = Pushing
    BY <1>1, <2>1 DEF Front, IsHeader, Scanning, Pushing
  <2>. USE DEF pop_vars
  <2>5. DsfTypeOK /\ byte_position \in UInt64
    BY DEF DsfInv, DsfTypeOK
  <2>6. DsfTypeOK'
    BY <1>1, <1>2, <1>4, <2>1, <2>2, <2>5 DEF DsfTypeOK, DsfPlaces
  <2>7. FlatStack' /\ DsfControl'
    BY <1>1, <1>4, <2>1 DEF DsfInv, FlatStack, DsfControl, Scanning
  <2>8. ChunkExtent' /\ ContentBegins' /\ HeaderFinished'
    BY <1>1, <1>4, <2>1, DsfStackKept DEF ContentBegins, AtContent, HeaderFinished
  <2>9. DsfInput' /\ DsfStream'
    <3>1. /\ upstream_position <= medium.size
          /\ Pushing => /\ byte_position + available <= upstream_position
                        /\ ~seek_refused => byte_position + available = upstream_position
      BY <2>1 DEF DsfInv, DsfInput
    <3>. QED BY <1>1, <2>1, <2>2, <2>4, <3>1 DEF DsfInput, DsfStream, Scanning
  <2>10. ExcursionInside'
    BY <1>1, <1>4, <2>1, <2>2, <2>3, <2>4 DEF ExcursionInside, AtHeader, AtContent
  <2>11. ExcursionProgress'
    BY <1>1, <1>4 DEF ExcursionProgress
  <2>12. PayloadReported'
    BY <1>1, <2>1, DsfPayloadKept
  <2>. QED BY <2>6, <2>7, <2>8, <2>9, <2>10, <2>11, <2>12 DEF DsfInv
<1>. QED BY <1>3, <1>4 DEF ParseHeader

\* A seek inside the medium: the position is moved at once or when the segment comes,
\* and what the adapter held is gone; a seek that is refused moves nothing.
LEMMA DsfSeekEffect ==
  ASSUME DsfInv, NEW position \in UInt64, position <= medium.size,
         NEW succeeds \in BOOLEAN, SeekDuringScan(position, succeeds)
  PROVE  /\ byte_position' \in UInt64 /\ available' \in UInt64 /\ upstream_position' \in UInt64
         /\ pending_segment_start' \in UInt64 \cup {NoSegment}
         /\ upstream_position' <= medium.size
         /\ pending_segment_start' # NoSegment => Pushing
         /\ succeeds =>
              /\ byte_position' = position
              /\ pending_segment_start' # NoSegment => pending_segment_start' = position
              /\ Pushing => /\ available' = 0 /\ upstream_position' = position
                            /\ byte_position' + available' = upstream_position'
                            /\ byte_position' + available' <= upstream_position'
         /\ ~succeeds => UNCHANGED <<byte_position, upstream_position, pending_segment_start>>
         /\ ~succeeds => UNCHANGED available \/ (Pushing /\ medium.seekable /\ available' = 0)
<1>1. /\ byte_position \in UInt64 /\ available \in UInt64 /\ upstream_position \in UInt64
      /\ pending_segment_start \in UInt64 \cup {NoSegment} /\ upstream_position <= medium.size
      /\ pending_segment_start # NoSegment => Pushing
      /\ 0 \in UInt64 /\ medium.size \in UInt64
  BY DsfMediumType, WidthAssumption DEF DsfInv, DsfTypeOK, DsfInput, UInt64
<1>2. CASE ~succeeds /\ UNCHANGED io_vars
  BY <1>1, <1>2 DEF io_vars
<1>3. CASE /\ ~Pushing /\ succeeds /\ byte_position' = position
           /\ UNCHANGED <<available, upstream_position, pending_segment_start>>
  BY <1>1, <1>3
<1>4. CASE Pushing /\ medium.seekable /\ available' = 0
  <2>1. CASE /\ succeeds
             /\ \E sync \in BOOLEAN :
                  /\ UpstreamSeek(position, sync)
                  /\ byte_position' = IF sync THEN upstream_position' ELSE position
    <3>1. Lesser(position, medium.size) = position
      BY DEF Lesser
    <3>2. /\ upstream_position' = position /\ byte_position' = position
          /\ pending_segment_start' \in {NoSegment, position}
      BY <2>1, <3>1 DEF UpstreamSeek
    <3>3. position \in Int
      BY WidthAssumption DEF UInt64
    <3>4. /\ byte_position' + available' = upstream_position'
          /\ byte_position' + available' <= upstream_position'
      BY <1>4, <3>2, <3>3, EmptyAdds
    <3>. QED BY <1>1, <1>4, <2>1, <3>2, <3>4
  <2>2. CASE ~succeeds /\ UNCHANGED <<byte_position, upstream_position, pending_segment_start>>
    BY <1>1, <1>4, <2>2
  <2>. QED BY <1>4, <2>1, <2>2 DEF SeekDuringScan
<1>. QED BY <1>2, <1>3, <1>4 DEF SeekDuringScan

\* The seek to the tag; if it fails, the header chunk is finished where it ends.
LEMMA DsfSeekToMetadataInv ==
  ASSUME DsfInv, SeekToMetadata PROVE DsfInv'
<1>1. /\ pc = "header_read"
      /\ UNCHANGED <<medium, upstream_size, id3v2_pre_seek_byte_position, id3v2_size, fmt_data,
                     total_num_indices, pop_vars, scan_from, parse_stage, payload, m_stack>>
  BY DEF SeekToMetadata, OnlyStageAndInput
<1>2. PICK position \in MetadataPositions, succeeds \in BOOLEAN :
        /\ ~HasNoTag(position)
        /\ SeekDuringScan(position, succeeds)
        /\ IF succeeds THEN pc' = "id3v2" /\ UNCHANGED <<chunk_parse_stage, flow_ret>>
                       ELSE chunk_parse_stage' = "FinishingChunk" /\ Returns("OK")
        /\ reading_id3v2_metadata' = succeeds
        /\ seek_refused' = (seek_refused \/ (Pushing /\ medium.seekable /\ ~succeeds))
  BY DEF SeekToMetadata
<1>3. /\ Scanning /\ chunk_parse_stage = "ParsingChunkContent" /\ m_stack # << >> /\ IsHeader(Front)
      /\ upstream_size = medium.size /\ medium.size \in UInt64
      /\ id3v2_pre_seek_byte_position = Front.payload_end_pos
      /\ id3v2_pre_seek_byte_position <= medium.size
      /\ ~PayloadLocated /\ ~reading_id3v2_metadata
  BY <1>1, ExcursionFacts
<1>4. /\ pending_segment_start = NoSegment /\ byte_position = Front.payload_end_pos
      /\ flow_ret \in {"OK", "NOT_ENOUGH_DATA"}
      /\ byte_position \in UInt64 /\ available \in UInt64 /\ upstream_position \in UInt64
      /\ Pushing => /\ byte_position + available <= upstream_position
                    /\ ~seek_refused => byte_position + available = upstream_position
  BY <1>1, <1>3 DEF DsfInv, ExcursionInside, Excursion, DsfControl, DsfTypeOK, DsfInput
<1>5. position \in UInt64 /\ position <= medium.size /\ position + Id3v2HeaderSize <= medium.size
  BY <1>2, <1>3, DsfAssumption, WidthAssumption DEF HasNoTag, UInt64
<1>6. /\ byte_position' \in UInt64 /\ available' \in UInt64 /\ upstream_position' \in UInt64
      /\ pending_segment_start' \in UInt64 \cup {NoSegment}
      /\ upstream_position' <= medium.size
      /\ pending_segment_start' # NoSegment => Pushing
      /\ succeeds =>
           /\ byte_position' = position
           /\ pending_segment_start' # NoSegment => pending_segment_start' = position
           /\ Pushing => /\ available' = 0 /\ upstream_position' = position
                         /\ byte_position' + available' = upstream_position'
                         /\ byte_position' + available' <= upstream_position'
      /\ ~succeeds => UNCHANGED <<byte_position, upstream_position, pending_segment_start>>
      /\ ~succeeds => UNCHANGED available \/ (Pushing /\ medium.seekable /\ available' = 0)
  BY <1>2, <1>5, DsfSeekEffect
<1>7. /\ ChunkExtent' /\ DsfStream' /\ PayloadReported'
      /\ Front' = Front /\ IsHeader(Front)' /\ Scanning' /\ Pushing' = Pushing
      /\ Known(Front.fourcc)'
  BY <1>1, ExcursionFrame
<1>8. DsfTypeOK
  BY DEF DsfInv
<1>. USE DEF pop_vars
<1>9. CASE succeeds
  <2>1. /\ pc' = "id3v2" /\ UNCHANGED <<chunk_parse_stage, flow_ret>>
        /\ reading_id3v2_metadata' /\ reading_id3v2_metadata' \in BOOLEAN
    BY <1>2, <1>9
  <2>1a. seek_refused' <=> seek_refused
    BY <1>2, <1>9
  <2>2. DsfTypeOK'
    BY <1>1, <1>6, <1>8, <2>1 DEF DsfTypeOK, DsfPlaces
  <2>3. FlatStack' /\ DsfControl'
    BY <1>1, <1>3, <1>4, <2>1 DEF DsfInv, FlatStack, DsfControl
  <2>4. ContentBegins' /\ HeaderFinished'
    BY <1>3, <2>1 DEF ContentBegins, HeaderFinished
  <2>5. DsfInput'
    BY <1>1, <1>6, <1>7, <1>9, <2>1a DEF DsfInput
  <2>6. ExcursionInside'
    BY <1>1, <1>3, <1>5, <1>6, <1>7, <1>9, <2>1 DEF ExcursionInside, AtHeader, AtContent
  <2>7. ExcursionProgress'
    BY <1>4, <1>6, <1>7, <1>9, <2>1 DEF ExcursionProgress
  <2>. QED BY <1>7, <2>2, <2>3, <2>4, <2>5, <2>6, <2>7 DEF DsfInv
<1>10. CASE ~succeeds
  <2>1. /\ pc' = "settle" /\ flow_ret' = "OK" /\ chunk_parse_stage' = "FinishingChunk"
        /\ ~reading_id3v2_metadata' /\ reading_id3v2_metadata' \in BOOLEAN
        /\ UNCHANGED <<byte_position, upstream_position, pending_segment_start>>
    BY <1>2, <1>6, <1>10 DEF Returns
  <2>1a. \/ UNCHANGED available /\ (seek_refused => seek_refused')
         \/ available' = 0 /\ seek_refused'
    BY <1>2, <1>6, <1>10
  <2>2. DsfTypeOK'
    BY <1>1, <1>6, <1>8, <2>1 DEF DsfTypeOK, DsfPlaces, Places, FlowReturns, ChunkParseStages
  <2>3. FlatStack' /\ DsfControl'
    BY <1>1, <1>3, <2>1 DEF DsfInv, FlatStack, DsfControl
  <2>4. ContentBegins' /\ HeaderFinished'
    BY <1>4, <1>7, <2>1 DEF ContentBegins, AtContent, HeaderFinished
  <2>5. DsfInput'
    <3>1. CASE UNCHANGED available /\ (seek_refused => seek_refused')
      BY <1>1, <1>4, <1>6, <1>7, <2>1, <3>1 DEF DsfInput
    <3>2. CASE available' = 0 /\ seek_refused'
      <4>1. Pushing => byte_position' + available' <= upstream_position'
        BY <1>4, <2>1, <3>2 DEF UInt64
      <4>. QED BY <1>1, <1>4, <1>6, <1>7, <2>1, <3>2, <4>1 DEF DsfInput
    <3>. QED BY <2>1a, <3>1, <3>2
  <2>6. ExcursionInside' /\ ExcursionProgress'
    BY <2>1, NoExcursion
  <2>. QED BY <1>7, <2>2, <2>3, <2>4, <2>5, <2>6 DEF DsfInv
<1>. QED BY <1>9, <1>10

\* A read within the excursion, of bytes that the medium has: they are there, or in push
\* mode have yet to come.
LEMMA ReadMetadataEffect ==
  ASSUME DsfInv, pc = "id3v2", NEW n \in UInt64, n > 0, byte_position + n <= medium.size,
         NEW ret, ReadMetadata(n, ret)
  PROVE  \/ ret = "NOT_ENOUGH_DATA" /\ Pushing /\ available < n /\ UNCHANGED io_vars
         \/ /\ ret = "OK"
            /\ byte_position' \in UInt64 /\ available' \in UInt64
            /\ byte_position' = byte_position + n
            /\ pending_segment_start = NoSegment
            /\ UNCHANGED <<upstream_position, pending_segment_start>>
            /\ Pushing => /\ byte_position' + available' = upstream_position'
                          /\ scan_from < byte_position'
<1>1. /\ Scanning /\ upstream_size = medium.size /\ medium.size \in UInt64
      /\ reading_id3v2_metadata /\ flow_ret # "ERROR"
  BY ExcursionFacts
<1>2. /\ byte_position \in UInt64 /\ available \in UInt64 /\ upstream_position \in UInt64
      /\ pending_segment_start # NoSegment => Pushing
      /\ Pushing => IF pending_segment_start = NoSegment
                    THEN byte_position + available = upstream_position
                    ELSE available = 0
      /\ Pushing => available = 0 \/ scan_from = byte_position
  BY <1>1 DEF DsfInv, DsfTypeOK, DsfInput, ExcursionProgress
<1>3. byte_position + n \in UInt64
  BY <1>1, <1>2, WidthAssumption DEF UInt64
<1>4. Wrap(byte_position + n) = byte_position + n
  BY <1>3, WrapIdentity
<1>5. ret = MetadataReturnCode(n) /\ IF ret = "OK" THEN Consume(n) ELSE UNCHANGED io_vars
  BY DEF ReadMetadata
<1>6. CASE Pushing /\ available < n
  BY <1>5, <1>6 DEF MetadataReturnCode
<1>7. CASE ~(Pushing /\ available < n)
  <2>1. ~(byte_position + n > medium.size)
    BY <1>1, <1>2 DEF UInt64
  <2>2. ret = "OK" /\ Consume(n)
    BY <1>1, <1>4, <1>5, <1>7, <2>1 DEF MetadataReturnCode
  <2>3. /\ byte_position' = byte_position + n
        /\ available' = IF Pushing THEN available - n ELSE available
        /\ UNCHANGED <<upstream_position, pending_segment_start>>
    BY <1>4, <2>2 DEF Consume
  <2>4. Pushing => available >= n /\ available > 0
    BY <1>2, <1>7 DEF UInt64
  <2>5. pending_segment_start = NoSegment
    BY <1>2, <2>4 DEF UInt64
  <2>6. CASE Pushing
    <3>1. available - n \in UInt64 /\ (byte_position + n) + (available - n) = upstream_position
      BY <1>2, <2>4, <2>5, <2>6, WidthAssumption DEF UInt64
    <3>2. scan_from < byte_position + n
      BY <1>2, <2>4, <2>6 DEF UInt64
    <3>. QED BY <1>3, <2>2, <2>3, <2>5, <2>6, <3>1, <3>2
  <2>7. CASE ~Pushing
    BY <1>2, <1>3, <2>2, <2>3, <2>5, <2>7
  <2>. QED BY <2>6, <2>7
<1>. QED BY <1>6, <1>7

\* The tag's header is read, or has yet to come.
LEMMA DsfReadId3v2HeaderInv ==
  ASSUME DsfInv, ReadId3v2Header PROVE DsfInv'
<1>1. /\ pc = "id3v2" /\ id3v2_size = NotRead /\ pc' = "settle"
      /\ UNCHANGED <<medium, chunk_parse_stage, upstream_size, reading_id3v2_metadata, fmt_data,
                     id3v2_pre_seek_byte_position, total_num_indices, seek_refused, pop_vars, scan_from,
                     parse_stage, payload, m_stack>>
  BY DEF ReadId3v2Header, OnlyStageAndInput, Returns
<1>2. PICK ret \in FlowReturns :
        /\ ReadMetadata(Id3v2HeaderSize, ret) /\ flow_ret' = ret
        /\ IF ret = "OK" THEN id3v2_size' \in Id3v2Sizes ELSE UNCHANGED id3v2_size
  BY DEF ReadId3v2Header, Returns
<1>3. /\ Scanning /\ chunk_parse_stage = "ParsingChunkContent" /\ m_stack # << >> /\ IsHeader(Front)
      /\ upstream_size = medium.size /\ medium.size \in UInt64
      /\ id3v2_pre_seek_byte_position = Front.payload_end_pos
      /\ id3v2_pre_seek_byte_position <= medium.size
      /\ ~PayloadLocated /\ reading_id3v2_metadata
  BY <1>1, ExcursionFacts
<1>4. /\ byte_position \in UInt64 /\ byte_position <= medium.size
      /\ byte_position + Id3v2HeaderSize <= medium.size
      /\ pending_segment_start # NoSegment => pending_segment_start = byte_position
  BY <1>1, <1>3 DEF DsfInv, DsfTypeOK, ExcursionInside, Excursion
<1>5. Id3v2HeaderSize \in UInt64 /\ Id3v2HeaderSize > 0
  BY DsfAssumption, WidthAssumption DEF UInt64
<1>6. \/ ret = "NOT_ENOUGH_DATA" /\ Pushing /\ available < Id3v2HeaderSize /\ UNCHANGED io_vars
      \/ /\ ret = "OK"
         /\ byte_position' \in UInt64 /\ available' \in UInt64
         /\ byte_position' = byte_position + Id3v2HeaderSize
         /\ pending_segment_start = NoSegment
         /\ UNCHANGED <<upstream_position, pending_segment_start>>
         /\ Pushing => /\ byte_position' + available' = upstream_position'
                       /\ scan_from < byte_position'
  BY <1>1, <1>2, <1>4, <1>5, ReadMetadataEffect
<1>7. /\ ChunkExtent' /\ DsfStream' /\ PayloadReported'
      /\ Front' = Front /\ IsHeader(Front)' /\ Scanning' /\ Pushing' = Pushing
      /\ Known(Front.fourcc)'
  BY <1>1, ExcursionFrame
<1>8. DsfTypeOK
  BY DEF DsfInv
<1>. USE DEF pop_vars
<1>9. FlatStack' /\ DsfControl' /\ ContentBegins' /\ HeaderFinished'
  BY <1>1, <1>2, <1>3, <1>6, <1>7 DEF DsfInv, FlatStack, DsfControl, ContentBegins, HeaderFinished
<1>10. CASE ret = "NOT_ENOUGH_DATA" /\ Pushing /\ available < Id3v2HeaderSize /\ UNCHANGED io_vars
  <2>. USE DEF io_vars
  <2>1. UNCHANGED id3v2_size
    BY <1>2, <1>10
  <2>2. DsfTypeOK'
    BY <1>1, <1>2, <1>8, <1>10, <2>1 DEF DsfTypeOK, DsfPlaces, Places
  <2>3. DsfInput'
    BY <1>1, <1>3, <1>10, ExcursionFacts DEF DsfInv, DsfInput, Pushing
  <2>4. ExcursionInside'
    BY <1>1, <1>3, <1>4, <1>7, <1>10, <2>1 DEF ExcursionInside, Excursion, AtHeader, AtContent
  <2>5. Starved /\ Starved' = Starved
    BY <1>1, <1>10, <2>1, StarvedFrame DEF Starved
  <2>6. ExcursionProgress'
    BY <1>1, <1>2, <1>10, <2>5 DEF ExcursionProgress
  <2>. QED BY <1>7, <1>9, <2>2, <2>3, <2>4, <2>6 DEF DsfInv
<1>11. CASE /\ ret = "OK"
            /\ byte_position' \in UInt64 /\ available' \in UInt64
            /\ byte_position' = byte_position + Id3v2HeaderSize
            /\ pending_segment_start = NoSegment
            /\ UNCHANGED <<upstream_position, pending_segment_start>>
            /\ Pushing => /\ byte_position' + available' = upstream_position'
                          /\ scan_from < byte_position'
  <2>1. id3v2_size' \in Id3v2Sizes /\ id3v2_size' # NotRead
    BY <1>2, <1>11, DsfAssumption DEF UInt64, NotRead
  <2>2. DsfTypeOK'
    BY <1>1, <1>2, <1>8, <1>11, <2>1 DEF DsfTypeOK, DsfPlaces, Places
  <2>3. Pushing => byte_position' + available' <= upstream_position'
    BY <1>8, <1>11 DEF DsfTypeOK, UInt64
  <2>4. DsfInput'
    BY <1>1, <1>7, <1>11, <2>3 DEF DsfInv, DsfInput
  <2>5. ExcursionInside'
    BY <1>1, <1>3, <1>4, <1>7, <1>11, <2>1 DEF ExcursionInside, AtHeader, AtContent
  <2>6. ExcursionProgress'
    BY <1>1, <1>2, <1>7, <1>11 DEF ExcursionProgress
  <2>. QED BY <1>7, <1>9, <2>2, <2>4, <2>5, <2>6 DEF DsfInv
<1>. QED BY <1>6, <1>10, <1>11

\* The rest of the tag is read, or given up, or has yet to come.
LEMMA DsfReadId3v2RestInv ==
  ASSUME DsfInv, ReadId3v2Rest PROVE DsfInv'
<1>1. /\ pc = "id3v2" /\ id3v2_size # NotRead
      /\ UNCHANGED <<medium, chunk_parse_stage, upstream_size, id3v2_pre_seek_byte_position, fmt_data,
                     total_num_indices, seek_refused, pop_vars, scan_from,
                     parse_stage, payload, m_stack>>
  BY DEF ReadId3v2Rest, OnlyStageAndInput
<1>2. PICK ret \in FlowReturns :
        /\ IF TagIsReadable THEN ReadMetadata(NumLeftover, ret) ELSE ret = "OK" /\ UNCHANGED io_vars
        /\ IF ret = "OK"
           THEN /\ pc' = "seek_back" /\ reading_id3v2_metadata' = FALSE
                /\ id3v2_size' = IF TagIsReadable THEN NotRead ELSE id3v2_size
                /\ UNCHANGED flow_ret
           ELSE Returns(ret) /\ UNCHANGED <<reading_id3v2_metadata, id3v2_size>>
  BY DEF ReadId3v2Rest
<1>3. /\ Scanning /\ chunk_parse_stage = "ParsingChunkContent" /\ m_stack # << >> /\ IsHeader(Front)
      /\ upstream_size = medium.size /\ medium.size \in UInt64
      /\ id3v2_pre_seek_byte_position = Front.payload_end_pos
      /\ id3v2_pre_seek_byte_position <= medium.size
      /\ ~PayloadLocated /\ reading_id3v2_metadata /\ flow_ret # "ERROR"
  BY <1>1, ExcursionFacts
<1>4. DsfTypeOK
  BY DEF DsfInv
<1>5. id3v2_size \in UInt64
  BY <1>1, <1>4, DsfAssumption DEF DsfTypeOK
<1>6. \/ /\ ret = "NOT_ENOUGH_DATA" /\ Pushing /\ TagIsReadable /\ available < NumLeftover
         /\ UNCHANGED io_vars
      \/ /\ ret = "OK"
         /\ byte_position' \in UInt64 /\ available' \in UInt64
         /\ UNCHANGED <<upstream_position, pending_segment_start>>
         /\ UNCHANGED <<byte_position, available>> \/
              (pending_segment_start = NoSegment /\ (Pushing => byte_position' + available' = upstream_position'))
  <2>1. CASE TagIsReadable
    <3>1. NumLeftover \in UInt64 /\ NumLeftover > 0 /\ byte_position + NumLeftover <= medium.size
      BY <1>3, <1>4, <1>5, <2>1, ReadableTag DEF DsfTypeOK
    <3>. QED BY <1>1, <1>2, <2>1, <3>1, ReadMetadataEffect
  <2>2. CASE ~TagIsReadable
    BY <1>2, <1>4, <2>2 DEF DsfTypeOK, io_vars
  <2>. QED BY <2>1, <2>2
<1>7. /\ ChunkExtent' /\ DsfStream' /\ PayloadReported'
      /\ Front' = Front /\ IsHeader(Front)' /\ Scanning' /\ Pushing' = Pushing
      /\ Known(Front.fourcc)'
  BY <1>1, ExcursionFrame
<1>. USE DEF pop_vars
<1>8. CASE /\ ret = "NOT_ENOUGH_DATA" /\ Pushing /\ TagIsReadable /\ available < NumLeftover
           /\ UNCHANGED io_vars
  <2>. USE DEF io_vars
  <2>1. /\ pc' = "settle" /\ flow_ret' = "NOT_ENOUGH_DATA"
        /\ UNCHANGED <<reading_id3v2_metadata, id3v2_size>>
    BY <1>2, <1>8 DEF Returns
  <2>2. DsfTypeOK'
    BY <1>1, <1>4, <1>8, <2>1 DEF DsfTypeOK, DsfPlaces, Places, FlowReturns
  <2>3. FlatStack' /\ DsfControl' /\ ContentBegins' /\ HeaderFinished'
    BY <1>1, <1>3, <2>1 DEF DsfInv, FlatStack, DsfControl, ContentBegins, HeaderFinished
  <2>4. DsfInput'
    BY <1>1, <1>3, <1>8, <2>1 DEF DsfInv, DsfInput, Pushing
  <2>5. ExcursionInside'
    BY <1>1, <1>3, <1>7, <1>8, <2>1 DEF DsfInv, ExcursionInside, Excursion, AtHeader, AtContent
  <2>6. Starved /\ Starved' = Starved
    BY <1>1, <1>8, <2>1, StarvedFrame DEF Starved
  <2>7. ExcursionProgress'
    BY <1>1, <2>1, <2>6 DEF ExcursionProgress
  <2>. QED BY <1>7, <2>2, <2>3, <2>4, <2>5, <2>7 DEF DsfInv
<1>9. CASE /\ ret = "OK"
           /\ byte_position' \in UInt64 /\ available' \in UInt64
           /\ UNCHANGED <<upstream_position, pending_segment_start>>
           /\ UNCHANGED <<byte_position, available>> \/
                (pending_segment_start = NoSegment /\ (Pushing => byte_position' + available' = upstream_position'))
  <2>1. pc' = "seek_back" /\ UNCHANGED flow_ret /\ id3v2_size' \in {NotRead, id3v2_size}
    BY <1>2, <1>9
  <2>2. ~reading_id3v2_metadata' /\ reading_id3v2_metadata' \in BOOLEAN
    BY <1>2, <1>9
  <2>3. DsfTypeOK'
    <3>1. id3v2_size' \in Id3v2Sizes \cup {NotRead}
      BY <1>4, <2>1 DEF DsfTypeOK
    <3>. QED BY <1>1, <1>4, <1>9, <2>1, <2>2, <3>1 DEF DsfTypeOK, DsfPlaces
  <2>4. FlatStack' /\ DsfControl' /\ ContentBegins' /\ HeaderFinished'
    BY <1>1, <1>3, <2>1 DEF DsfInv, FlatStack, DsfControl, ContentBegins, HeaderFinished
  <2>5. DsfInput'
    <3>1. CASE UNCHANGED <<byte_position, available>>
      BY <1>1, <1>3, <1>7, <1>9, <2>1, <2>2, <3>1 DEF DsfInv, DsfInput
    <3>2. CASE pending_segment_start = NoSegment /\ (Pushing => byte_position' + available' = upstream_position')
      <4>1. upstream_position' \in Int
        BY <1>4, <1>9, WidthAssumption DEF DsfTypeOK, UInt64
      <4>2. Pushing => byte_position' + available' <= upstream_position'
        BY <3>2, <4>1, EqualIsWithin
      <4>. QED BY <1>1, <1>7, <1>9, <3>2, <4>2 DEF DsfInv, DsfInput
    <3>. QED BY <1>9, <3>1, <3>2
  <2>6. ExcursionInside'
    BY <1>1, <1>3, <1>7, <2>1, <2>2 DEF ExcursionInside, AtHeader, AtContent
  <2>7. ExcursionProgress'
    BY <2>1, <2>2 DEF ExcursionProgress
  <2>. QED BY <1>7, <2>3, <2>4, <2>5, <2>6, <2>7 DEF DsfInv
<1>. QED BY <1>6, <1>8, <1>9

\* The seek back to the end of the header chunk; if it fails, so does the scan.
LEMMA DsfSeekBackInv ==
  ASSUME DsfInv, SeekBack PROVE DsfInv'
<1>1. /\ pc = "seek_back"
      /\ UNCHANGED <<medium, upstream_size, dsf_vars, pop_vars, scan_from, parse_stage, payload, m_stack>>
  BY DEF SeekBack, OnlyStageAndInput
<1>2. PICK succeeds \in BOOLEAN :
        /\ SeekDuringScan(id3v2_pre_seek_byte_position, succeeds)
        /\ IF succeeds THEN chunk_parse_stage' = "FinishingChunk" /\ Returns("OK")
                       ELSE UNCHANGED chunk_parse_stage /\ Returns("ERROR")
  BY DEF SeekBack
<1>3. /\ Scanning /\ chunk_parse_stage = "ParsingChunkContent" /\ m_stack # << >> /\ IsHeader(Front)
      /\ id3v2_pre_seek_byte_position = Front.payload_end_pos
      /\ id3v2_pre_seek_byte_position <= medium.size
      /\ ~PayloadLocated /\ ~reading_id3v2_metadata
  BY <1>1, ExcursionFacts
<1>4. DsfTypeOK /\ id3v2_pre_seek_byte_position \in UInt64
  BY DEF DsfInv, DsfTypeOK
<1>5. /\ byte_position' \in UInt64 /\ available' \in UInt64 /\ upstream_position' \in UInt64
      /\ pending_segment_start' \in UInt64 \cup {NoSegment}
      /\ upstream_position' <= medium.size
      /\ pending_segment_start' # NoSegment => Pushing
      /\ succeeds =>
           /\ byte_position' = Front.payload_end_pos
           /\ pending_segment_start' # NoSegment => pending_segment_start' = Front.payload_end_pos
           /\ Pushing => /\ available' = 0 /\ upstream_position' = Front.payload_end_pos
                         /\ byte_position' + available' = upstream_position'
                         /\ byte_position' + available' <= upstream_position'
  BY <1>2, <1>3, <1>4, DsfSeekEffect
<1>6. /\ ChunkExtent' /\ DsfStream' /\ PayloadReported'
      /\ Front' = Front /\ IsHeader(Front)' /\ Scanning' /\ Pushing' = Pushing
      /\ Known(Front.fourcc)'
  BY <1>1, ExcursionFrame DEF dsf_vars
<1>7. /\ pc' = "settle"
      /\ \/ succeeds /\ flow_ret' = "OK" /\ chunk_parse_stage' = "FinishingChunk"
         \/ flow_ret' = "ERROR" /\ chunk_parse_stage' = "ParsingChunkContent"
  BY <1>2, <1>3 DEF Returns
<1>. USE DEF pop_vars, dsf_vars
<1>8. DsfTypeOK'
  BY <1>1, <1>4, <1>5, <1>7 DEF DsfTypeOK, DsfPlaces, Places, FlowReturns, ChunkParseStages
<1>9. FlatStack' /\ DsfControl' /\ ContentBegins' /\ HeaderFinished'
  BY <1>1, <1>3, <1>5, <1>6, <1>7 DEF DsfInv, FlatStack, DsfControl, ContentBegins, AtContent, HeaderFinished
<1>10. DsfInput'
  BY <1>1, <1>5, <1>6, <1>7 DEF DsfInput
<1>11. ExcursionInside' /\ ExcursionProgress'
  BY <1>1, <1>3, <1>7, NoExcursion
<1>. QED BY <1>6, <1>8, <1>9, <1>10, <1>11 DEF DsfInv

-------------------------------------------------------------------------------
(***************************************************************************)
(* The payload: its size, its bytes per channel and its indices            *)
(***************************************************************************)

LEMMA DivBounds ==
  ASSUME NEW a \in Nat, NEW b \in Nat \ {0}
  PROVE  a \div b \in Nat /\ b * (a \div b) <= a /\ a < b * (a \div b) + b
  OBVIOUS

LEMMA DivAtLeast ==
  ASSUME NEW a \in Nat, NEW b \in Nat \ {0}, NEW c \in Nat
  PROVE  c <= a \div b <=> c * b <= a
  BY DivBounds

LEMMA DivMonotone ==
  ASSUME NEW a \in Nat, NEW b \in Nat \ {0}, NEW c \in Nat, a <= c
  PROVE  a \div b <= c \div b
<1>1. a \div b \in Nat /\ c \div b \in Nat
  BY DivBounds
<1>2. (a \div b) * b <= a
  BY <1>1, DivAtLeast
<1>3. (a \div b) * b <= c
  BY <1>1, <1>2
<1>. QED BY <1>1, <1>3, DivAtLeast

\* Rounding up does not exceed what is divided.
LEMMA RoundedUp ==
  ASSUME NEW a \in Nat, NEW b \in Nat \ {0}
  PROVE  (a + (b - 1)) \div b \in Nat /\ (a + (b - 1)) \div b <= a
<1>. DEFINE q == (a + (b - 1)) \div b
<1>1. a + (b - 1) \in Nat
  OBVIOUS
<1>2. q \in Nat /\ b * q <= a + (b - 1)
  BY <1>1, DivBounds
<1>. HIDE DEF q
<1>3. ASSUME q > a PROVE FALSE
  <2>1. b * q >= b * (a + 1)
    BY <1>2, <1>3
  <2>2. b * (a + 1) = b * a + b /\ b * a >= a
    OBVIOUS
  <2>. QED BY <1>2, <2>1, <2>2
<1>4. q \in Nat /\ q <= a
  BY <1>2, <1>3
<1>. QED BY <1>4 DEF q

\* A quotient is the integer next to its dividend, at most.
LEMMA DivWithin ==
  ASSUME NEW a \in Nat, NEW b \in Nat \ {0}
  PROVE  a \div b \in Nat /\ a \div b <= a
<1>1. a \div b \in Nat /\ b * (a \div b) <= a
  BY DivBounds
<1>2. a \div b <= b * (a \div b)
  BY <1>1
<1>. QED BY <1>1, <1>2

\* Dividing by a product is no more than dividing by one factor and, rounding up, by
\* the other.
LEMMA DivTwice ==
  ASSUME NEW a \in Nat, NEW b \in Nat \ {0}, NEW c \in Nat \ {0}
  PROVE  a \div (b * c) <= ((a \div c) + (b - 1)) \div b
<1>. DEFINE q == a \div (b * c)
            r == a \div c
<1>1. b * c \in Nat \ {0}
  OBVIOUS
<1>2. q \in Nat /\ (b * c) * q <= a /\ r \in Nat
  BY <1>1, DivBounds
<1>3. (q * b) * c = (b * c) * q /\ q * b \in Nat
  BY <1>2
<1>4. (q * b) * c <= a
  BY <1>2, <1>3
<1>5. q * b <= r
  BY <1>3, <1>4, DivAtLeast
<1>. HIDE DEF q, r
<1>6. q * b <= r + (b - 1) /\ r + (b - 1) \in Nat
  BY <1>2, <1>3, <1>5
<1>7. q <= (r + (b - 1)) \div b
  BY <1>2, <1>6, DivAtLeast
<1>. QED BY <1>7 DEF q, r

\* A block group is not empty.
LEMMA DsfSizes ==
  Alignment \in Nat \ {0} /\ NumChannels \in Nat \ {0} /\ BlockSize \in Nat \ {0}
<1>1. NumChannels \in Nat \ {0} /\ BlockSize \in Nat \ {0}
  BY DsfAssumption
<1>. QED BY <1>1 DEF Alignment

\* What is computed from a 64 bit number of bytes is one.
LEMMA DsfCounts ==
  ASSUME NEW count \in UInt64
  PROVE  NumBlocks(count) \in UInt64 /\ count \div NumChannels \in UInt64
<1>1. count \in Nat /\ count <= MaxUInt64
  BY WidthAssumption DEF UInt64
<1>2. NumBlocks(count) \in Nat /\ NumBlocks(count) <= count
  BY <1>1, RoundedUp, DsfSizes DEF NumBlocks
<1>3. count \div NumChannels \in Nat /\ count \div NumChannels <= count
  BY <1>1, DivWithin, DsfSizes
<1>. QED BY <1>1, <1>2, <1>3, WidthAssumption DEF UInt64

\* The payload's size is at most what the chunk gives, what the sample count asks for
\* and what the medium has, and not zero.
LEMMA SizeBySampleCountType ==
  ASSUME m_stack \in Seq(Chunk), m_stack # << >>, Front.size > 0,
         fmt_data \in [expected : UInt64, actual : UInt64]
  PROVE  /\ SizeBySampleCount \in UInt64 /\ SizeBySampleCount <= Front.size
         /\ fmt_data.expected > 0 => SizeBySampleCount > 0
         /\ SizeBySampleCount \div Alignment <= NumBlocks(fmt_data.expected)
<1>. DEFINE blocks == NumBlocks(fmt_data.expected)
<1>1. /\ Front.size \in UInt64 /\ Front.size \in Nat /\ Front.size <= MaxUInt64 /\ MaxUInt64 \in Nat
      /\ fmt_data.expected \in UInt64 /\ fmt_data.expected \in Nat
  BY DsfFrontType, WidthAssumption DEF UInt64
<1>2. /\ Alignment \in Nat \ {0} /\ BlockSize \in Nat \ {0} /\ blocks \in Nat
  <2>1. blocks \in UInt64
    BY <1>1, DsfCounts
  <2>. QED BY <2>1, DsfSizes, WidthAssumption DEF UInt64
<1>3. fmt_data.expected > 0 => blocks >= 1
  <2>1. fmt_data.expected > 0 => 1 * BlockSize <= fmt_data.expected + (BlockSize - 1)
    BY <1>1, <1>2
  <2>2. fmt_data.expected + (BlockSize - 1) \in Nat
    BY <1>1, <1>2
  <2>. QED BY <1>2, <2>1, <2>2, DivAtLeast DEF NumBlocks
<1>. HIDE DEF blocks
<1>4. CASE blocks > MaxUInt64 \div Alignment
  <2>1. SizeBySampleCount = Front.size
    BY <1>4 DEF SizeBySampleCount, blocks
  <2>2. Front.size \div Alignment <= MaxUInt64 \div Alignment
    BY <1>1, <1>2, DivMonotone
  <2>3. Front.size \div Alignment \in Nat /\ MaxUInt64 \div Alignment \in Nat
    BY <1>1, <1>2, DivBounds
  <2>4. Front.size \div Alignment <= blocks
    BY <1>2, <1>4, <2>2, <2>3
  <2>. QED BY <1>1, <2>1, <2>4 DEF blocks
<1>5. CASE ~(blocks > MaxUInt64 \div Alignment)
  <2>. DEFINE wanted == blocks * Alignment
  <2>1. SizeBySampleCount = Lesser(Front.size, wanted)
    BY <1>5 DEF SizeBySampleCount, blocks
  <2>2. wanted \in Nat /\ (blocks >= 1 => wanted > 0)
    BY <1>2
  <2>3. wanted \div Alignment = blocks
    <3>1. blocks <= wanted \div Alignment
      BY <1>2, <2>2, DivAtLeast
    <3>2. wanted \div Alignment \in Nat /\ Alignment * (wanted \div Alignment) <= wanted
      BY <1>2, <2>2, DivBounds
    <3>3. wanted \div Alignment <= blocks
      BY <1>2, <3>2
    <3>. QED BY <1>2, <3>1, <3>2, <3>3
  <2>. HIDE DEF wanted
  <2>4. /\ SizeBySampleCount \in Nat /\ SizeBySampleCount <= Front.size /\ SizeBySampleCount <= wanted
        /\ blocks >= 1 => SizeBySampleCount > 0
    BY <1>1, <2>1, <2>2 DEF Lesser
  <2>5. SizeBySampleCount \div Alignment <= wanted \div Alignment
    BY <1>2, <2>2, <2>4, DivMonotone
  <2>6. SizeBySampleCount \in UInt64
    BY <1>1, <2>4 DEF UInt64
  <2>. QED BY <1>3, <2>3, <2>4, <2>5, <2>6 DEF blocks
<1>. QED BY <1>4, <1>5

\* What gst_dsfparse_parse_chunk_data() computes, from a format chunk and enough bytes.
LEMMA PayloadFacts ==
  ASSUME DsfInv, Parsing("Payload"), fmt_data # NoFormat, NumAvailable >= Alignment
  PROVE  /\ PayloadSize \in UInt64 /\ PayloadSize > 0 /\ PayloadSize <= Front.size
         /\ ActualBytes \in UInt64 /\ NumBlocks(ActualBytes) \in UInt64
         /\ PayloadSize \div Alignment <= NumBlocks(ActualBytes)
         /\ upstream_size # 0 => byte_position + PayloadSize <= medium.size
<1>1. /\ m_stack # << >> /\ Front.size > 0 /\ ~PayloadLocated
      /\ byte_position = Front.payload_begin_pos /\ byte_position <= medium.size
  BY DsfParsingFacts
<1>2. /\ m_stack \in Seq(Chunk) /\ byte_position \in UInt64 /\ medium.size \in UInt64
      /\ upstream_size \in {0, medium.size}
      /\ fmt_data \in [expected : UInt64, actual : UInt64] /\ fmt_data.actual = fmt_data.expected
  BY <1>1, DsfMediumType, DsfFormatUntouched DEF DsfInv, DsfTypeOK
<1>3. fmt_data.expected \in UInt64 /\ fmt_data.expected > 0
  <2>1. fmt_data.expected \in UInt64 /\ fmt_data = [expected |-> fmt_data.expected, actual |-> fmt_data.actual]
    BY <1>2
  <2>2. fmt_data.expected # 0
    BY <1>2, <2>1 DEF NoFormat
  <2>. QED BY <2>1, <2>2, WidthAssumption DEF UInt64
<1>4. /\ SizeBySampleCount \in UInt64 /\ SizeBySampleCount <= Front.size /\ SizeBySampleCount > 0
      /\ SizeBySampleCount \div Alignment <= NumBlocks(fmt_data.expected)
  BY <1>1, <1>2, <1>3, SizeBySampleCountType
<1>5. NumAvailable \in UInt64 /\ Alignment \in Nat \ {0} /\ NumAvailable > 0
  <2>1. upstream_size - byte_position \in Int
    BY <1>2, WidthAssumption DEF UInt64
  <2>2. NumAvailable \in UInt64
    BY <2>1, WidthAssumption DEF NumAvailable, Wrap, UInt64
  <2>. QED BY <2>2, DsfSizes, WidthAssumption DEF UInt64
<1>6. Front.size \in UInt64
  BY <1>1, <1>2, DsfFrontType
<1>7. /\ PayloadSize \in UInt64 /\ PayloadSize > 0 /\ PayloadSize <= Front.size
      /\ PayloadSize <= NumAvailable
      /\ PayloadSize = IF DataTruncated THEN NumAvailable ELSE SizeBySampleCount
  BY <1>4, <1>5, <1>6, WidthAssumption DEF PayloadSize, Lesser, DataTruncated, UInt64
<1>8. ActualBytes \in UInt64
  BY <1>2, <1>3, <1>7, DsfCounts DEF ActualBytes
<1>9. PayloadSize \div Alignment <= NumBlocks(ActualBytes)
  <2>1. CASE DataTruncated
    <3>1. ActualBytes = PayloadSize \div NumChannels
      BY <2>1 DEF ActualBytes
    <3>2. PayloadSize \in Nat
      BY <1>7, WidthAssumption DEF UInt64
    <3>3. PayloadSize \div (BlockSize * NumChannels)
            <= ((PayloadSize \div NumChannels) + (BlockSize - 1)) \div BlockSize
      BY <3>2, DsfSizes, DivTwice
    <3>. QED BY <3>1, <3>3 DEF Alignment, NumBlocks
  <2>2. CASE ~DataTruncated
    <3>1. ActualBytes = fmt_data.expected /\ PayloadSize = SizeBySampleCount
      BY <1>2, <1>7, <2>2 DEF ActualBytes
    <3>. QED BY <1>4, <3>1
  <2>. QED BY <2>1, <2>2
<1>10. ASSUME upstream_size # 0
       PROVE  byte_position + PayloadSize <= medium.size
  <2>1. upstream_size = medium.size /\ medium.size - byte_position \in UInt64
    BY <1>1, <1>2, <1>10, WidthAssumption DEF UInt64
  <2>2. NumAvailable = medium.size - byte_position
    BY <2>1, WrapIdentity DEF NumAvailable
  <2>. QED BY <1>2, <1>7, <2>2, WidthAssumption DEF UInt64
<1>. QED BY <1>7, <1>8, <1>9, <1>10, DsfCounts

\* The payload is reported, and skipped, or streamed at once, from its first byte.
LEMMA DsfParseDataInv ==
  ASSUME DsfInv, ParseData
  PROVE  DsfInv' /\ (EntersStreaming /\ ~seek_refused => AtPayload)
<1>1. /\ Parsing("Payload") /\ fmt_data # NoFormat /\ NumAvailable >= Alignment
      /\ fmt_data' = [fmt_data EXCEPT !.actual = ActualBytes]
      /\ total_num_indices' = NumBlocks(fmt_data'.actual)
      /\ UNCHANGED <<stack_vars, prop_vars, reading_id3v2_metadata, id3v2_pre_seek_byte_position,
                     id3v2_size, seek_refused>>
  BY DEF ParseData
<1>2. PICK ret \in FlowReturns :
        /\ ReportPayloadFound(PayloadSize, DataTruncated, ret)
        /\ IF ret = "OK" THEN pc' = "reported" /\ UNCHANGED flow_ret ELSE Returns(ret)
  BY DEF ParseData
<1>3. /\ pc = "loop" /\ flow_ret \in {"OK", "NOT_ENOUGH_DATA"}
      /\ Scanning /\ chunk_parse_stage = "ParsingChunkContent" /\ m_stack # << >>
      /\ pending_segment_start = NoSegment /\ ~PayloadLocated
      /\ UNCHANGED <<medium, pop_vars>> /\ scan_from' = byte_position
      /\ Known(Front.fourcc) /\ ~IsHeader(Front)
      /\ ~reading_id3v2_metadata
      /\ byte_position = Front.payload_begin_pos /\ byte_position <= medium.size
      /\ Front.size > 0
  BY <1>1, DsfParsingFacts
<1>4. /\ PayloadSize \in UInt64 /\ PayloadSize > 0 /\ PayloadSize <= Front.size
      /\ ActualBytes \in UInt64 /\ NumBlocks(ActualBytes) \in UInt64
      /\ PayloadSize \div Alignment <= NumBlocks(ActualBytes)
      /\ upstream_size # 0 => byte_position + PayloadSize <= medium.size
  BY <1>1, PayloadFacts
<1>5. /\ payload' = [position |-> byte_position, size |-> PayloadSize]
      /\ \/ /\ \E skipped \in {PayloadSize, available} : Skip(PayloadSize, TRUE, ret, skipped)
            /\ UNCHANGED parse_stage
         \/ /\ parse_stage' = "Streaming" /\ ret \in {"OK", "ERROR"}
            /\ UNCHANGED io_vars
  BY <1>2 DEF ReportPayloadFound
<1>6. DsfTypeOK /\ byte_position \in UInt64 /\ available \in UInt64
  BY DEF DsfInv, DsfTypeOK
<1>7. /\ fmt_data' \in [expected : UInt64, actual : UInt64] /\ total_num_indices' = NumBlocks(ActualBytes)
  BY <1>1, <1>4, <1>6 DEF DsfTypeOK
<1>8. /\ payload' \in [position : UInt64, size : UInt64]
      /\ payload'.position = byte_position /\ payload'.size = PayloadSize /\ PayloadLocated'
  BY <1>4, <1>5, <1>6 DEF PayloadLocated
<1>9. \/ ret = "OK" /\ pc' = "reported" /\ UNCHANGED flow_ret
      \/ ret # "OK" /\ pc' = "settle" /\ flow_ret' = ret
  BY <1>2 DEF Returns
<1>10. Front' = Front /\ IsHeader(Front)' = IsHeader(Front) /\ Pushing' = Pushing
       /\ Known(Front.fourcc)' = Known(Front.fourcc)
  BY <1>1, <1>3 DEF Front, IsHeader, Pushing, Known, stack_vars
<1>. USE DEF stack_vars, prop_vars, pop_vars
<1>11. ChunkExtent' /\ HeaderFinished' /\ ExcursionInside' /\ ExcursionProgress'
  BY <1>1, <1>3, <1>9, DsfStackKept, NoExcursion DEF HeaderFinished
<1>12. FlatStack'
  BY <1>1, <1>3, <1>9 DEF DsfInv, FlatStack
<1>13. ASSUME ret \in {"OK", "ERROR"} \/ (ret = "ADVANCE_OUT_OF_BOUNDS" /\ Scanning')
       PROVE  PayloadReported'
  <2>1. payload'.position <= medium'.size
    BY <1>3, <1>8
  <2>2. PayloadInsideMedium'
    BY <1>1, <1>3, <1>4, <1>8 DEF PayloadInsideMedium
  <2>3. IndicesCoverPayload'
    BY <1>4, <1>7, <1>8 DEF IndicesCoverPayload, Alignment
  <2>. QED BY <1>8, <1>9, <1>13, <2>1, <2>2, <2>3 DEF PayloadReported
<1>14. CASE /\ parse_stage' = "Streaming" /\ ret \in {"OK", "ERROR"} /\ UNCHANGED io_vars
  <2>. USE DEF io_vars
  <2>1. DsfTypeOK'
    BY <1>1, <1>3, <1>4, <1>6, <1>7, <1>8, <1>9, <1>14 DEF DsfTypeOK, DsfPlaces, Places, Stages
  <2>2. DsfControl' /\ ContentBegins'
    BY <1>1, <1>3, <1>8, <1>9, <1>14 DEF DsfControl, ContentBegins, AtContent, Scanning
  <2>3. Pushing /\ ~seek_refused => upstream_position = byte_position + available
    BY <1>3 DEF DsfInv, DsfInput
  <2>4. DsfInput' /\ DsfStream'
    BY <1>1, <1>3, <1>10, <1>14, <2>3 DEF DsfInv, DsfInput, DsfStream, Scanning
  <2>5. EntersStreaming /\ ~seek_refused => AtPayload
    BY <1>8, <1>14, <2>3 DEF AtPayload
  <2>. QED BY <1>11, <1>12, <1>13, <1>14, <2>1, <2>2, <2>4, <2>5 DEF DsfInv
<1>15. CASE /\ \E skipped \in {PayloadSize, available} : Skip(PayloadSize, TRUE, ret, skipped)
            /\ UNCHANGED parse_stage
  <2>1. PICK skipped \in {PayloadSize, available} : Skip(PayloadSize, TRUE, ret, skipped)
    BY <1>15
  <2>2. byte_position + PayloadSize <= Front.payload_end_pos
    <3>1. Front.payload_begin_pos + Front.size <= Front.payload_end_pos
      BY <1>3 DEF DsfInv, ChunkExtent
    <3>2. Front.size \in UInt64 /\ Front.payload_end_pos \in UInt64
      BY <1>3, <1>6, DsfFrontType DEF DsfTypeOK
    <3>. QED BY <1>3, <1>4, <1>6, <3>1, <3>2 DEF UInt64
  <2>3. /\ byte_position' \in UInt64 /\ available' \in UInt64 /\ upstream_position' \in UInt64
        /\ pending_segment_start' \in UInt64 \cup {NoSegment}
        /\ ret \in {"OK", "ERROR", "ADVANCE_OUT_OF_BOUNDS"}
        /\ ret # "OK" => UNCHANGED <<byte_position, pending_segment_start>>
        /\ upstream_position' <= medium.size
        /\ pending_segment_start' # NoSegment => Pushing
        /\ Pushing /\ ret # "ERROR" =>
             IF pending_segment_start' = NoSegment
             THEN /\ byte_position' + available' <= upstream_position'
                  /\ ~seek_refused => byte_position' + available' = upstream_position'
             ELSE upstream_position' = pending_segment_start' /\ available' = 0
    BY <1>3, <1>4, <2>1, <2>2, DsfSkipEffect
  <2>4. Scanning'
    BY <1>3, <1>15 DEF Scanning
  <2>5. DsfTypeOK'
    BY <1>1, <1>3, <1>4, <1>6, <1>7, <1>8, <1>9, <1>15, <2>3 DEF DsfTypeOK, DsfPlaces, Places
  <2>6. DsfControl'
    BY <1>1, <1>3, <1>8, <1>9, <2>3, <2>4 DEF DsfControl, Scanning
  <2>7. ContentBegins'
    BY <1>3, <1>9, <1>10, <2>3 DEF ContentBegins
  <2>8. DsfInput' /\ DsfStream'
    BY <1>1, <1>3, <1>9, <1>10, <2>3, <2>4 DEF DsfInput, DsfStream, Scanning
  <2>9. ~EntersStreaming
    BY <1>15 DEF EntersStreaming
  <2>. QED BY <1>11, <1>12, <1>13, <2>3, <2>4, <2>5, <2>6, <2>7, <2>8, <2>9 DEF DsfInv
<1>. QED BY <1>5, <1>14, <1>15

\* After the payload, the rest of the medium is not looked at.
LEMMA DsfFinishDataInv ==
  ASSUME DsfInv, FinishData
  PROVE  DsfInv' /\ (EntersStreaming => AtPayload)
<1>1. /\ pc = "reported" /\ ScanningFinished /\ chunk_parse_stage' = "FinishingChunk"
      /\ pc' = "settle" /\ flow_ret' = "NOTHING_TO_READ"
      /\ UNCHANGED <<medium, payload, m_stack, prop_vars, dsf_vars, pop_vars, scan_from>>
  BY DEF FinishData, Returns
<1>. USE DEF prop_vars, dsf_vars, pop_vars
<1>2. /\ PayloadLocated /\ chunk_parse_stage = "ParsingChunkContent"
      /\ parse_stage \in {"ScanningInfo", "Streaming"} /\ m_stack # << >>
      /\ ~reading_id3v2_metadata
  BY <1>1 DEF DsfInv, DsfControl, FlatStack, ExcursionProgress
<1>3. /\ ~Scanning' /\ parse_stage' \in Stages
      /\ byte_position' \in UInt64 /\ available' \in UInt64 /\ upstream_position' \in UInt64
      /\ pending_segment_start' \in UInt64 \cup {NoSegment}
      /\ DsfInput' /\ DsfStream'
      /\ EntersStreaming => AtPayload
  BY <1>1, <1>2, DsfScanningFinishedEffect
<1>4. DsfTypeOK'
  BY <1>1, <1>3 DEF DsfInv, DsfTypeOK, DsfPlaces, Places, FlowReturns, ChunkParseStages
<1>5. FlatStack' /\ DsfControl'
  BY <1>1, <1>2, <1>3 DEF DsfInv, FlatStack, DsfControl
<1>6. ChunkExtent' /\ ContentBegins' /\ HeaderFinished'
  BY <1>1, <1>3, DsfStackKept DEF ContentBegins, AtContent, HeaderFinished
<1>7. ExcursionInside' /\ ExcursionProgress'
  BY <1>1, <1>2, NoExcursion
<1>8. PayloadReported'
  BY <1>1, <1>3, DsfPayloadKept
<1>. QED BY <1>3, <1>4, <1>5, <1>6, <1>7, <1>8 DEF DsfInv

-------------------------------------------------------------------------------
(***************************************************************************)
(* Every step, and the theorems                                            *)
(***************************************************************************)

\* The steps that GstDsdChunkParse takes whatever the subclass.
LEMMA DsfChunkParseStep ==
  ASSUME DsfInv, ChunkParseStep
  PROVE  DsfInv' /\ (EntersStreaming => AtPayload)
<1>1. UNCHANGED dsf_vars
  BY DEF ChunkParseStep
<1>2. CASE HandleCorruptedChunkStructure
  BY <1>1, <1>2, DsfHandleCorruptedInv
<1>3. CASE ~HandleCorruptedChunkStructure
  <2>1. DsfInv'
    BY <1>1, <1>3, DsfNoFurtherSubchunkInv, DsfHeaderNotReadInv, DsfParseChunkStartInv,
       DsfSkipUnknownChunkInv, DsfRetryFinishInv, DsfSettleInv, DsfSkipPadByteInv,
       DsfPopFinishedChunksInv, DsfKeepElementInv, DsfPopPlainChunkInv, DsfEndOfStackInv,
       DsfScanInfoReturnedInv, DsfChainReturnsInv, DsfScanIsOverInv DEF ChunkParseStep
  <2>2. UNCHANGED parse_stage
    BY <1>3 DEF ChunkParseStep, NoFurtherSubchunk, HeaderNotRead, ParseChunkStart, SkipUnknownChunk,
       RetryFinish, Settle, SkipPadByte, PopFinishedChunks, KeepElement, PopPlainChunk, EndOfStack,
       ScanInfoReturned, ChainReturns, ScanIsOver
  <2>. QED BY <2>1, <2>2 DEF EntersStreaming
<1>. QED BY <1>2, <1>3

\* The steps of upstream.
LEMMA DsfUpstreamStep ==
  ASSUME DsfInv, DsfUpstream
  PROVE  DsfInv' /\ (EntersStreaming => AtPayload)
<1>1. UNCHANGED dsf_vars
  BY DEF DsfUpstream
<1>2. DsfInv'
  BY <1>1, DsfDeliverInv, DsfUpstreamSegmentInv, DsfEndOfStreamInv DEF DsfUpstream, Upstream
<1>3. CASE Deliver
  BY <1>2, <1>3 DEF Deliver, EntersStreaming
<1>4. CASE UpstreamSegment
  <2>1. ASSUME EntersStreaming PROVE AtPayload
    <3>1. /\ parse_stage = "AwaitingSegment" /\ available' = 0
          /\ byte_position' = pending_segment_start
          /\ UNCHANGED <<upstream_position, payload>>
      BY <1>4, <2>1 DEF EntersStreaming, UpstreamSegment, HandleSinkSegment, StartStreamingAt, Scanning
    <3>2. /\ payload.position \in UInt64
          /\ pending_segment_start = payload.position /\ upstream_position = payload.position
      BY <3>1 DEF DsfInv, DsfTypeOK, DsfStream
    <3>3. payload'.position \in Int /\ payload'.position = upstream_position'
      BY <3>1, <3>2, WidthAssumption DEF UInt64
    <3>4. payload'.position + available' = upstream_position'
      BY <3>1, <3>3, EmptyAdds
    <3>. QED BY <3>1, <3>2, <3>4 DEF AtPayload
  <2>. QED BY <1>2, <2>1
<1>5. CASE EndOfStream
  <2>1. ~PayloadLocated
    BY <1>5, DsfIdleFacts DEF EndOfStream
  <2>2. parse_stage' = "StreamFailure"
    BY <1>5, <2>1 DEF EndOfStream, FinishWithoutPayload
  <2>. QED BY <1>2, <2>2 DEF EntersStreaming
<1>. QED BY <1>3, <1>4, <1>5 DEF DsfUpstream, Upstream

\* The steps of the parse functions of DSF chunks.
LEMMA DsfParseStep ==
  ASSUME DsfInv, ContentNotRead \/ ParseDsfHeader \/ ParseFormat \/ DataUnusable \/ ParseData \/ FinishData
  PROVE  DsfInv' /\ (EntersStreaming /\ ~seek_refused => AtPayload)
<1>1. CASE ParseData
  BY <1>1, DsfParseDataInv
<1>2. CASE FinishData
  BY <1>2, DsfFinishDataInv
<1>3. CASE ContentNotRead \/ ParseDsfHeader \/ ParseFormat \/ DataUnusable
  <2>1. DsfInv'
    BY <1>3, DsfContentNotReadInv, DsfHeaderRefusedInv, DsfParseHeaderInv, DsfSeekToMetadataInv,
       DsfResumeMetadataInv, DsfReadId3v2HeaderInv, DsfReadId3v2RestInv, DsfSeekBackInv,
       DsfParseFormatInv, DsfDataUnusableInv DEF ParseDsfHeader
  <2>2. UNCHANGED parse_stage
    BY <1>3 DEF ParseDsfHeader, ContentNotRead, HeaderRefused, ParseHeader, SeekToMetadata, ResumeMetadata,
       ReadId3v2Header, ReadId3v2Rest, SeekBack, ParseFormat, DataUnusable, OnlyStageAndInput
  <2>. QED BY <2>1, <2>2 DEF EntersStreaming
<1>. QED BY <1>1, <1>2, <1>3

\* A step that changes nothing changes nothing of the invariant.
LEMMA DsfStutterInv ==
  ASSUME DsfInv, UNCHANGED all_vars PROVE DsfInv'
<1>. USE DEF all_vars, vars, dsf_vars, io_vars, stack_vars, prop_vars, pop_vars
<1>1. DataUnchanged
  BY DEF DataUnchanged
<1>2. DsfTypeOK' /\ FlatStack' /\ DsfControl' /\ ContentBegins' /\ HeaderFinished'
  BY DEF DsfInv, DsfTypeOK, FlatStack, DsfControl, ContentBegins, HeaderFinished, AtContent, IsHeader,
     Front, Scanning, Pushing, PayloadLocated
<1>3. ExcursionProgress'
  BY StarvedFrame DEF DsfInv, ExcursionProgress, Pushing
<1>4. ChunkExtent' /\ DsfInput' /\ DsfStream'
  BY DsfStackKept DEF DsfInv, DsfInput, DsfStream, Pushing, Scanning, PayloadLocated
<1>5. ExcursionInside'
  BY DEF DsfInv, ExcursionInside, Excursion, AtHeader, AtContent, IsHeader, Front, Scanning
<1>6. PayloadReported'
  BY DEF DsfInv, PayloadReported, PayloadInsideMedium, IndicesCoverPayload, PayloadLocated, Scanning
<1>. QED BY <1>2, <1>3, <1>4, <1>5, <1>6 DEF DsfInv

LEMMA DsfStep ==
  ASSUME DsfInv, [DsfNext]_all_vars
  PROVE  DsfInv' /\ [EntersStreaming /\ ~seek_refused => AtPayload]_all_vars
<1>1. CASE UNCHANGED all_vars
  BY <1>1, DsfStutterInv
<1>2. CASE DsfNext
  BY <1>2, DsfChunkParseStep, DsfUpstreamStep, DsfParseStep DEF DsfNext, DsfStreamingThread
<1>. QED BY <1>1, <1>2

\* The invariant holds in every state of every scan of a DSF medium.
THEOREM DsfInvHolds == DsfSpec => []DsfInv
<1>1. DsfInit => DsfInv
  BY DsfInitInv
<1>2. DsfInv /\ [DsfNext]_all_vars => DsfInv'
  BY DsfStep
<1>. QED BY <1>1, <1>2, PTL DEF DsfSpec

\* Wherever the ID3v2 tag lies, however many calls of the parse function it takes and
\* whenever the segments of its two seeks come: gst_dsfparse_parse_chunk_dsf_header()
\* leaves the scan at the end of the header chunk, with adapter and upstream in step.
THEOREM ExcursionAlwaysReturns == DsfSpec => []ExcursionReturns
<1>1. DsfInv => ExcursionReturns
  <2>. SUFFICES ASSUME DsfInv PROVE ExcursionReturns
    OBVIOUS
  <2>1. ASSUME pc = "finish", Known(Front.fourcc), Descriptions[Front.fourcc].parse = "Header"
        PROVE  ~reading_id3v2_metadata /\ byte_position = Front.payload_end_pos
    <3>1. Scanning /\ chunk_parse_stage = "FinishingChunk" /\ flow_ret # "ERROR" /\ m_stack # << >>
      BY <2>1 DEF DsfInv, DsfControl, FlatStack
    <3>2. ~reading_id3v2_metadata
      BY <2>1 DEF DsfInv, ExcursionProgress
    <3>. QED BY <2>1, <3>1, <3>2 DEF DsfInv, HeaderFinished, IsHeader
  <2>2. ASSUME ~seek_refused PROVE InputAligned
    <3>. SUFFICES ASSUME Pushing, flow_ret # "ERROR", parse_stage # "StreamFailure"
                  PROVE  IF pending_segment_start = NoSegment
                         THEN upstream_position = byte_position + available
                         ELSE /\ upstream_position = pending_segment_start
                              /\ Scanning => available = 0
      BY DEF InputAligned
    <3>1. CASE Scanning
      BY <2>2, <3>1 DEF DsfInv, DsfInput
    <3>2. CASE parse_stage = "AwaitingSegment"
      <4>1. payload.position # NoSegment
        BY DEF DsfInv, DsfTypeOK, NoSegment, UInt64
      <4>. QED BY <3>2, <4>1 DEF DsfInv, DsfStream, Scanning
    <3>3. CASE parse_stage = "Streaming"
      BY <2>2, <3>3 DEF DsfInv, DsfStream
    <3>. QED BY <3>1, <3>2, <3>3 DEF DsfInv, DsfTypeOK, Stages, Scanning
  <2>. QED BY <2>1, <2>2 DEF ExcursionReturns
<1>. QED BY <1>1, DsfInvHolds, PTL

\* A tag that the medium does not hold, whatever the header says of its position and of
\* its size, neither ends the scan nor leaves it waiting for bytes that never come.
THEOREM ExcursionAlwaysStaysInMedium == DsfSpec => []ExcursionStaysInMedium
<1>1. DsfInv => ExcursionStaysInMedium
  BY DEF DsfInv, ExcursionProgress, ExcursionStaysInMedium
<1>. QED BY <1>1, DsfInvHolds, PTL

\* Once a header chunk was read, gst_dsfparse_parse_chunk_data() never reports a payload
\* that exceeds the medium.
THEOREM PayloadAlwaysInsideMedium == DsfSpec => []PayloadInsideMedium
<1>1. DsfInv => PayloadInsideMedium
  BY DEF DsfInv, PayloadReported
<1>. QED BY <1>1, DsfInvHolds, PTL

\* Whether the data chunk is truncated, longer than the sample count or its size not
\* representable, no whole block group of the payload is without an index.
THEOREM IndicesAlwaysCoverPayload == DsfSpec => []IndicesCoverPayload
<1>1. DsfInv => IndicesCoverPayload
  BY DEF DsfInv, PayloadReported
<1>. QED BY <1>1, DsfInvHolds, PTL

\* Unless upstream has refused the seek to the tag, the Streaming stage begins with the
\* first byte of the payload, at once, after rewinding or when the segment comes.
THEOREM PlaybackAlwaysStartsAtData == DsfSpec => PlaybackStartsAtData
<1>1. DsfInv /\ [DsfNext]_all_vars => [EntersStreaming /\ ~seek_refused => AtPayload]_all_vars
  BY DsfStep
<1>. QED BY <1>1, DsfInvHolds, PTL DEF DsfSpec, PlaybackStartsAtData

===============================================================================
