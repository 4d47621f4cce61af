--------------------------- MODULE ChunkParseProofs ---------------------------
(***************************************************************************)
(* The theorems about a scan: ScanInv holds initially, and every action keeps *)
(* it (a lemma for every action), hence it holds throughout, and with it the *)
(* properties that it implies.                                             *)
(***************************************************************************)
EXTENDS ChunkParseLemmas

\* The invariant holds when a scan starts.
LEMMA InitInv == Init => ScanInv
<1>. SUFFICES ASSUME Init PROVE ScanInv
  OBVIOUS
<1>. USE DEF Init, MediaScanInit
<1>1. TypeOK
  <2>1. 0 \in UInt64
    BY WidthAssumption DEF UInt64
  <2>2. m_stack \in Seq(Chunk) /\ num_chars \in [Fourccs -> UInt64 \cup {NotRead}]
    OBVIOUS
  <2>3. pc \in Places /\ flow_ret \in FlowReturns /\ parse_stage \in Stages
          /\ chunk_parse_stage \in ChunkParseStages
    BY DEF Stages, ChunkParseStages, Places, FlowReturns
  <2>. QED BY <2>1, <2>2, <2>3 DEF TypeOK, NoPayload
<1>2. m_stack = << >> /\ DOMAIN m_stack = {}
  OBVIOUS
<1>3. medium.size \in UInt64
  BY <1>1, MediumType
<1>. QED BY <1>1, <1>2, <1>3 DEF UInt64, ScanInv, StackSorted, SizesFit, PositionInside, InputInv, HasChunk, ControlInv,
              ContentInv, PopInv, NoSegment, Pushing

\* Leaving a chunk that has no further subchunk.
LEMMA NoFurtherSubchunkInv == ASSUME ScanInv, NoFurtherSubchunk PROVE ScanInv'
<1>1. TypeOK'
  BY DispatchFacts DEF NoFurtherSubchunk, ScanInv, TypeOK, Returns, io_vars, prop_vars, pop_vars, ChunkParseStages, Places, FlowReturns, UInt64
<1>2. UNCHANGED <<medium, io_vars, parse_stage, m_stack>>
  BY DispatchFacts DEF NoFurtherSubchunk
<1>3. InputInv' /\ HasChunk' /\ ControlInv' /\ ContentInv' /\ PopInv'
  BY <1>2, DispatchFacts, QuietSteps DEF NoFurtherSubchunk, Returns, ScanInv, InputInv, HasChunk, ControlInv, ContentInv, PopInv, Pushing, Scanning, io_vars
<1>. QED BY <1>1, <1>2, <1>3, QuietSteps DEF ScanInv

\* A chunk header that cannot be read.
LEMMA HeaderNotReadInv == ASSUME ScanInv, HeaderNotRead PROVE ScanInv'
<1>1. PICK ret \in FlowReturns \ {"OK"} : Read(HeaderSize, ret) /\ Returns(ret)
  BY DEF HeaderNotRead
<1>2. Dispatch("ParsingChunkStart") /\ UNCHANGED <<parse_stage, payload, stack_vars, prop_vars>>
  BY DEF HeaderNotRead
<1>3. UNCHANGED io_vars
  BY <1>1 DEF Read
<1>4. TypeOK'
  BY <1>1, <1>2, <1>3, DispatchFacts DEF ScanInv, TypeOK, Returns, io_vars, prop_vars, pop_vars, stack_vars, Places
<1>5. HasChunk' /\ ControlInv' /\ PopInv' /\ ContentInv'
  BY <1>1, <1>2, DispatchFacts DEF Returns, HasChunk, ControlInv, PopInv, ContentInv, stack_vars
<1>. QED BY <1>2, <1>3, <1>4, <1>5, DispatchFacts, QuietInv DEF stack_vars

\* Entering a chunk, or refusing its header.
LEMMA ParseChunkStartInv == ASSUME ScanInv, ParseChunkStart PROVE ScanInv'
<1>1. /\ Dispatch("ParsingChunkStart") /\ Read(HeaderSize, "OK")
      /\ UNCHANGED <<parse_stage, payload, prop_vars>>
  BY DEF ParseChunkStart
<1>2. TypeOK /\ InputIsAligned /\ HeaderSize \in UInt64
  BY <1>1, DispatchFacts, HeaderAssumption DEF ScanInv
<1>3. m_stack # << >> => byte_position <= Front.payload_end_pos
  BY <1>1, <1>2, DispatchFacts, FrontType DEF ScanInv, PositionInside, Front
<1>4. /\ byte_position' \in UInt64 /\ available' \in UInt64
      /\ UNCHANGED <<upstream_position, pending_segment_start>>
      /\ byte_position <= byte_position'
      /\ m_stack # << >> => byte_position' <= Front.payload_end_pos
      /\ Pushing => pending_segment_start = NoSegment
                      /\ upstream_position = byte_position' + available'
  BY <1>1, <1>2, <1>3, DispatchFacts, ReadEffect
<1>5. InputInv'
  BY <1>1, <1>2, <1>4, DispatchFacts DEF InputInv, InputIsAligned, Pushing
<1>6. PICK f \in Fourccs : \E raw_size \in RawSizes[f] :
        IF SizeIsUnusable(raw_size, byte_position')
        THEN pc' = "corrupt_settle" /\ UNCHANGED <<stack_vars, flow_ret>>
        ELSE EnterChunk(f, raw_size, byte_position')
  BY DEF ParseChunkStart
<1>7. PICK raw_size \in RawSizes[f] :
        IF SizeIsUnusable(raw_size, byte_position')
        THEN pc' = "corrupt_settle" /\ UNCHANGED <<stack_vars, flow_ret>>
        ELSE EnterChunk(f, raw_size, byte_position')
  BY <1>6
<1>8. raw_size \in UInt64
  BY HeaderAssumption
<1>9. CASE SizeIsUnusable(raw_size, byte_position')
  <2>1. pc' = "corrupt_settle" /\ UNCHANGED <<stack_vars, flow_ret>>
    BY <1>7, <1>9
  <2>2. TypeOK'
    BY <1>1, <1>4, <2>1, DispatchFacts DEF ScanInv, TypeOK, prop_vars, pop_vars, stack_vars, Places
  <2>3. HasChunk' /\ ControlInv' /\ PopInv' /\ ContentInv'
    BY <1>1, <2>1, DispatchFacts DEF HasChunk, ControlInv, PopInv, ContentInv, stack_vars
  <2>4. StackSorted' /\ SizesFit' /\ PositionInside'
    BY <1>1, <1>2, <1>4, <2>1, DispatchFacts, MovingSteps DEF stack_vars, InputIsAligned
  <2>. QED BY <1>5, <2>2, <2>3, <2>4 DEF ScanInv
<1>10. CASE ~SizeIsUnusable(raw_size, byte_position')
  <2>. DEFINE size == ContentSize(raw_size)
              end  == byte_position' + Padded(size)
              code == PushReturnCode(f, size, byte_position', end)
  <2>1. size \in UInt64 /\ end \in UInt64 /\ byte_position' + size <= end
    BY <1>4, <1>8, <1>10, UsableSize
  <2>2. /\ PushChunk(f, size, byte_position', end)
        /\ IF code = "Ok"
           THEN /\ chunk_parse_stage' = IF size = 0 THEN "FinishingChunk" ELSE "ParsingChunkContent"
                /\ pc' = "settle" /\ flow_ret' = "OK"
           ELSE /\ pc' = "corrupt_settle"
                /\ UNCHANGED <<chunk_parse_stage, flow_ret>>
    BY <1>7, <1>10 DEF EnterChunk, Returns
  <2>3. size # 0 => byte_position' < end
    <3>1. ASSUME NEW a \in UInt64, NEW b \in UInt64, NEW c \in UInt64, a + b <= c, b # 0 PROVE a < c
      BY <3>1, WidthAssumption DEF UInt64
    <3>. HIDE DEF size, end
    <3>. QED BY <1>4, <2>1, <3>1
  <2>. HIDE DEF size, end
  <2>4. /\ m_stack' \in Seq(Chunk)
        /\ StackSorted' /\ SizesFit' /\ PositionInside'
        /\ code = "Ok" => /\ m_stack' # << >>
                          /\ Front'.payload_begin_pos = byte_position'
                          /\ Front'.payload_end_pos = end
    BY <1>1, <1>4, <2>1, <2>2, DispatchFacts, EnteredStack
  <2>. HIDE DEF code
  <2>5. TypeOK'
    BY <1>1, <1>4, <2>2, <2>4, DispatchFacts DEF ScanInv, TypeOK, prop_vars, pop_vars, Places, ChunkParseStages, FlowReturns
  <2>6. HasChunk' /\ ControlInv' /\ PopInv'
    BY <1>1, <2>2, <2>4, DispatchFacts DEF HasChunk, ControlInv, PopInv
  <2>7. ContentInv'
    BY <1>1, <2>2, <2>4, <2>3, DispatchFacts DEF ContentInv
  <2>. QED BY <1>5, <2>4, <2>5, <2>6, <2>7 DEF ScanInv
<1>. QED BY <1>9, <1>10

\* Skipping an unknown chunk, in one call or in several.
LEMMA SkipUnknownChunkInv == ASSUME ScanInv, SkipUnknownChunk PROVE ScanInv'
<1>1. PICK ret \in FlowReturns, skipped \in {NumRemaining, available} :
        /\ Skip(NumRemaining, FALSE, ret, skipped)
        /\ Returns(IF ret = "OK" /\ skipped = 0 THEN "NOT_ENOUGH_DATA" ELSE ret)
        /\ chunk_parse_stage' = IF ret = "OK" /\ skipped = NumRemaining THEN "FinishingChunk"
                                                                        ELSE chunk_parse_stage
  BY DEF SkipUnknownChunk
<1>2. /\ Dispatch("ParsingChunkContent") /\ ~Known(Front.fourcc)
      /\ UNCHANGED <<parse_stage, payload, m_stack, prop_vars>>
  BY DEF SkipUnknownChunk
<1>3. /\ pc = "loop" /\ flow_ret # "ERROR" /\ Scanning /\ m_stack # << >>
      /\ Pushing => pending_segment_start = NoSegment
      /\ UNCHANGED medium
  BY <1>2, DispatchFacts
<1>4. SkipsBySeeking(NumRemaining, FALSE) => Pushing /\ pending_segment_start = NoSegment
  BY <1>3 DEF SkipsBySeeking, SkipsByConsuming
<1>5. /\ NumRemaining \in UInt64
      /\ byte_position + NumRemaining <= Front.payload_end_pos
  BY <1>3, RemainingBytes DEF UInt64
<1>6. ret = "ERROR" => flow_ret' = "ERROR"
  BY <1>1 DEF Returns
<1>7. ret = "OK" /\ skipped = NumRemaining => chunk_parse_stage' # "ParsingChunkContent"
  BY <1>1
<1>8. /\ byte_position' \in UInt64 /\ available' \in UInt64 /\ upstream_position' \in UInt64
      /\ pending_segment_start' \in UInt64 \cup {NoSegment}
      /\ ret # "OK" => byte_position' = byte_position
      /\ ret = "OK" /\ skipped # NumRemaining => byte_position' < Front.payload_end_pos
      /\ StackSorted' /\ SizesFit' /\ PositionInside' /\ InputInv'
  BY <1>1, <1>2, <1>3, <1>4, <1>5, <1>6, <1>7, SkipKeepsInput
<1>9. pc' = "settle" /\ flow_ret' \in FlowReturns
        /\ chunk_parse_stage' \in {"FinishingChunk", "ParsingChunkContent"}
  BY <1>1, <1>2, DispatchFacts DEF Returns, FlowReturns
<1>10. TypeOK'
  BY <1>2, <1>8, <1>9, DispatchFacts DEF ScanInv, TypeOK, prop_vars, pop_vars, Places, ChunkParseStages
<1>11. HasChunk' /\ ControlInv' /\ PopInv'
  BY <1>2, <1>3, <1>9 DEF HasChunk, ControlInv, PopInv
<1>12. ContentInv'
  BY <1>1, <1>2, <1>3, <1>8, DispatchFacts DEF ScanInv, ContentInv, Front
<1>. QED BY <1>8, <1>10, <1>11, <1>12 DEF ScanInv

\* A fixed field that cannot be read.
LEMMA PrefixNotReadInv == ASSUME ScanInv, PrefixNotRead PROVE ScanInv'
<1>1. PICK ret \in FlowReturns \ {"OK"} : Read(Prefix, ret) /\ Returns(ret)
  BY DEF PrefixNotRead
<1>2. Dispatch("ParsingChunkContent") /\ UNCHANGED <<parse_stage, payload, stack_vars, prop_vars>>
  BY DEF PrefixNotRead, Parsing
<1>3. UNCHANGED io_vars
  BY <1>1 DEF Read
<1>4. TypeOK'
  BY <1>1, <1>2, <1>3, DispatchFacts DEF ScanInv, TypeOK, Returns, io_vars, prop_vars, pop_vars, stack_vars, Places
<1>5. HasChunk' /\ ControlInv' /\ PopInv'
  BY <1>1, <1>2, DispatchFacts DEF Returns, HasChunk, ControlInv, PopInv, stack_vars
<1>6. ContentInv'
  BY <1>2, <1>3 DEF ScanInv, ContentInv, stack_vars, io_vars, Scanning, Front
<1>. QED BY <1>2, <1>3, <1>4, <1>5, <1>6, DispatchFacts, QuietInv DEF stack_vars

\* FVER, FS and LSCO.
LEMMA ParseLeafInv == ASSUME ScanInv, ParseLeaf PROVE ScanInv'
<1>1. /\ Dispatch("ParsingChunkContent") /\ Known(Front.fourcc)
      /\ Descriptions[Front.fourcc].parse = "Leaf"
      /\ Read(Prefix, "OK")
      /\ UNCHANGED <<parse_stage, payload, m_stack, num_chars, upstream_size, prop_finished>>
      /\ pc' = "settle" /\ flow_ret' \in FlowReturns
      /\ chunk_parse_stage' \in {"FinishingChunk", "ParsingChunkContent"}
      /\ parsed' \subseteq parsed \cup {Front.fourcc}
  BY DispatchFacts DEF ParseLeaf, Parsing, Returns, FlowReturns
<1>2. /\ byte_position' \in UInt64 /\ available' \in UInt64
      /\ UNCHANGED <<upstream_position, pending_segment_start>>
      /\ StackSorted' /\ SizesFit' /\ PositionInside' /\ InputInv'
  BY <1>1, DispatchFacts, PrefixType, ReadKeepsInput
<1>3. TypeOK'
  BY <1>1, <1>2, DispatchFacts, PrefixType DEF ScanInv, TypeOK, pop_vars, Places, ChunkParseStages
<1>4. HasChunk' /\ ControlInv' /\ PopInv' /\ ContentInv'
  BY <1>1, DispatchFacts DEF HasChunk, ControlInv, PopInv, ContentInv, Front
<1>. QED BY <1>2, <1>3, <1>4 DEF ScanInv

\* FRM8 and PROP.
LEMMA ParseFormInv == ASSUME ScanInv, ParseForm PROVE ScanInv'
<1>1. /\ Dispatch("ParsingChunkContent") /\ Known(Front.fourcc)
      /\ Descriptions[Front.fourcc].parse \in {"Form", "Properties"}
      /\ Read(Prefix, "OK")
      /\ UNCHANGED <<parse_stage, payload, m_stack, parsed, num_chars, prop_finished>>
      /\ pc' = "settle" /\ flow_ret' \in FlowReturns
      /\ chunk_parse_stage' \in {"ParsingChunkStart", "ParsingChunkContent"}
      /\ upstream_size' \in {medium.size, upstream_size}
  BY DispatchFacts DEF ParseForm, Parsing, Returns, FlowReturns
<1>2. /\ byte_position' \in UInt64 /\ available' \in UInt64
      /\ UNCHANGED <<upstream_position, pending_segment_start>>
      /\ StackSorted' /\ SizesFit' /\ PositionInside' /\ InputInv'
  BY <1>1, DispatchFacts, PrefixType, ReadKeepsInput
<1>3. TypeOK'
  BY <1>1, <1>2, DispatchFacts, MediumType DEF ScanInv, TypeOK, pop_vars, Places, ChunkParseStages
<1>4. HasChunk' /\ ControlInv' /\ PopInv' /\ ContentInv'
  BY <1>1, DispatchFacts DEF HasChunk, ControlInv, PopInv, ContentInv, Front
<1>. QED BY <1>2, <1>3, <1>4 DEF ScanInv

\* The length of a text.
LEMMA ReadTextLengthInv == ASSUME ScanInv, ReadTextLength PROVE ScanInv'
<1>1. /\ Dispatch("ParsingChunkContent") /\ Known(Front.fourcc)
      /\ Descriptions[Front.fourcc].parse = "Text"
      /\ UNCHANGED <<parse_stage, payload, stack_vars, upstream_size, prop_finished>>
  BY DEF ReadTextLength, Parsing
<1>2. PICK ret \in FlowReturns :
        /\ Read(Prefix, ret)
        /\ \/ /\ \E length \in Lengths : num_chars' = [num_chars EXCEPT ![Front.fourcc] = length]
              /\ parsed' = parsed \cup {Front.fourcc}
              /\ pc' = "text"
              /\ UNCHANGED flow_ret
           \/ /\ Returns(IF ret = "OK" THEN "ERROR" ELSE ret)
              /\ UNCHANGED <<num_chars, parsed>>
  BY DEF ReadTextLength
<1>3. /\ byte_position' \in UInt64 /\ available' \in UInt64
      /\ UNCHANGED <<upstream_position, pending_segment_start>>
      /\ StackSorted' /\ SizesFit' /\ PositionInside' /\ InputInv'
  BY <1>1, <1>2, DispatchFacts, PrefixType, ReadKeepsInput DEF stack_vars
<1>4. pc' \in {"text", "settle"} /\ flow_ret' \in FlowReturns /\ (pc' = "text" => UNCHANGED flow_ret)
  BY <1>2 DEF Returns, ScanInv, TypeOK, FlowReturns
<1>5. parsed' \subseteq parsed \cup {Front.fourcc}
  BY <1>2
<1>6. num_chars' \in [Fourccs -> UInt64 \cup {NotRead}]
  <2>1. Lengths \subseteq UInt64
    BY HeaderAssumption DEF Lengths, IdListLengths
  <2>. QED BY <1>2, <2>1 DEF ScanInv, TypeOK
<1>7. TypeOK'
  BY <1>1, <1>3, <1>4, <1>5, <1>6, DispatchFacts, PrefixType DEF ScanInv, TypeOK, pop_vars, stack_vars, Places
<1>8. HasChunk' /\ ControlInv' /\ PopInv' /\ ContentInv'
  BY <1>1, <1>4, DispatchFacts DEF HasChunk, ControlInv, PopInv, ContentInv, Front, stack_vars, Scanning
<1>. QED BY <1>3, <1>7, <1>8 DEF ScanInv

\* The characters of a text.
LEMMA ReadTextInv == ASSUME ScanInv, ReadText PROVE ScanInv'
<1>1. /\ pc = "text" /\ Scanning /\ chunk_parse_stage = "ParsingChunkContent" /\ flow_ret # "ERROR"
      /\ Known(Front.fourcc) /\ Descriptions[Front.fourcc].parse = "Text"
      /\ Pushing => pending_segment_start = NoSegment
      /\ m_stack # << >>
      /\ UNCHANGED <<medium, parse_stage, payload, m_stack, prop_vars, pop_vars, scan_from>>
  BY DEF ScanInv, ControlInv, InputInv, HasChunk, ReadText
<1>2. TypeOK /\ TextLength \in UInt64 \cup {NotRead}
  BY <1>1, DescriptionType DEF ScanInv, TypeOK, TextLength
<1>3. UNCHANGED io_vars \/ (TextLength # NotRead /\ \E ret \in FlowReturns : Read(TextLength, ret))
  BY <1>2, WidthAssumption DEF ReadText, NotRead, UInt64
<1>4. /\ pc' = "settle"
      /\ flow_ret' \in FlowReturns
      /\ chunk_parse_stage' \in {"ParsingChunkContent", "FinishingChunk"}
  BY <1>1 DEF ReadText, Returns, FlowReturns
<1>5. /\ byte_position' \in UInt64 /\ available' \in UInt64
      /\ UNCHANGED <<upstream_position, pending_segment_start>>
      /\ StackSorted' /\ SizesFit' /\ PositionInside' /\ InputInv'
  <2>1. CASE UNCHANGED io_vars
    <3>1. UNCHANGED <<byte_position, available, upstream_position, pending_segment_start>>
      BY <2>1 DEF io_vars
    <3>2. InputInv'
      BY <1>1, <3>1 DEF ScanInv, InputInv, Pushing, Scanning
    <3>. QED BY <1>1, <1>2, <2>1, <3>1, <3>2, QuietSteps DEF TypeOK
  <2>2. CASE TextLength # NotRead /\ \E ret \in FlowReturns : Read(TextLength, ret)
    BY <1>1, <1>2, <2>2, ReadKeepsInput
  <2>. QED BY <1>3, <2>1, <2>2
<1>7. TypeOK'
  BY <1>1, <1>4, <1>5 DEF ScanInv, TypeOK, prop_vars, pop_vars, Places, ChunkParseStages
<1>8. HasChunk' /\ ControlInv' /\ PopInv' /\ ContentInv'
  BY <1>1, <1>4 DEF HasChunk, ControlInv, PopInv, ContentInv, Front
<1>. QED BY <1>5, <1>7, <1>8 DEF ScanInv

\* DIIN.
LEMMA ParseContainerInv == ASSUME ScanInv, ParseContainer PROVE ScanInv'
<1>1. Dispatch("ParsingChunkContent") /\ Returns("NOTHING_TO_READ")
        /\ chunk_parse_stage' = "ParsingChunkStart"
        /\ UNCHANGED <<io_vars, parse_stage, payload, m_stack, prop_vars>>
  BY DEF ParseContainer, Parsing
<1>2. TypeOK'
  BY <1>1, DispatchFacts DEF ScanInv, TypeOK, Returns, io_vars, prop_vars, pop_vars, ChunkParseStages, Places, FlowReturns
<1>3. HasChunk' /\ ControlInv' /\ ContentInv' /\ PopInv'
  BY <1>1, DispatchFacts DEF Returns, HasChunk, ControlInv, ContentInv, PopInv
<1>. QED BY <1>1, <1>2, <1>3, DispatchFacts, QuietInv

\* A text whose length an earlier call has read.
LEMMA ResumeTextInv == ASSUME ScanInv, ResumeText PROVE ScanInv'
<1>1. Dispatch("ParsingChunkContent") /\ pc' = "text"
        /\ Known(Front.fourcc) /\ Descriptions[Front.fourcc].parse = "Text"
        /\ UNCHANGED <<io_vars, parse_stage, payload, stack_vars, prop_vars, flow_ret>>
  BY DEF ResumeText, Parsing
<1>2. TypeOK'
  BY <1>1, DispatchFacts DEF ScanInv, TypeOK, io_vars, prop_vars, pop_vars, stack_vars, Places
<1>3. HasChunk' /\ ControlInv' /\ ContentInv' /\ PopInv'
  BY <1>1, DispatchFacts DEF HasChunk, ControlInv, ContentInv, PopInv, stack_vars, Scanning, Front
<1>. QED BY <1>1, <1>2, <1>3, DispatchFacts, QuietInv DEF stack_vars

\* DSD before the properties, or without a whole frame.
LEMMA PayloadUnusableInv == ASSUME ScanInv, PayloadUnusable PROVE ScanInv'
<1>1. Dispatch("ParsingChunkContent") /\ Returns("ERROR")
        /\ UNCHANGED <<io_vars, parse_stage, payload, stack_vars, prop_vars>>
  BY DEF PayloadUnusable, Parsing
<1>2. TypeOK'
  BY <1>1, DispatchFacts DEF ScanInv, TypeOK, Returns, io_vars, prop_vars, pop_vars, stack_vars, Places, FlowReturns
<1>3. HasChunk' /\ ControlInv' /\ PopInv'
  BY <1>1, DispatchFacts DEF Returns, HasChunk, ControlInv, PopInv, stack_vars
<1>4. ContentInv'
  BY <1>1 DEF ScanInv, ContentInv, stack_vars, io_vars, Scanning, Front
<1>. QED BY <1>1, <1>2, <1>3, <1>4, DispatchFacts, QuietInv DEF stack_vars

\* DSD for the second time.
LEMMA PayloadReportedAgainInv == ASSUME ScanInv, PayloadReportedAgain PROVE ScanInv'
<1>1. Dispatch("ParsingChunkContent") /\ pc' = "aborted"
        /\ UNCHANGED <<io_vars, parse_stage, payload, stack_vars, prop_vars, flow_ret>>
  BY DEF PayloadReportedAgain, Parsing
<1>2. TypeOK'
  BY <1>1, DispatchFacts DEF ScanInv, TypeOK, io_vars, prop_vars, pop_vars, stack_vars, Places
<1>3. HasChunk' /\ ControlInv' /\ PopInv'
  BY <1>1, DispatchFacts DEF HasChunk, ControlInv, PopInv, stack_vars
<1>4. ContentInv'
  BY <1>1 DEF ScanInv, ContentInv, stack_vars, io_vars, Scanning, Front
<1>. QED BY <1>1, <1>2, <1>3, <1>4, DispatchFacts, QuietInv DEF stack_vars

\* Looking again at a chunk that could not be finished.
LEMMA RetryFinishInv == ASSUME ScanInv, RetryFinish PROVE ScanInv'
<1>1. Dispatch("FinishingChunk") /\ Returns("OK")
        /\ UNCHANGED <<io_vars, parse_stage, payload, stack_vars, prop_vars>>
  BY DEF RetryFinish
<1>2. TypeOK'
  BY <1>1, DispatchFacts DEF ScanInv, TypeOK, Returns, io_vars, prop_vars, pop_vars, stack_vars, Places, FlowReturns
<1>3. HasChunk' /\ ControlInv' /\ PopInv' /\ ContentInv'
  BY <1>1, DispatchFacts DEF Returns, HasChunk, ControlInv, PopInv, ContentInv, stack_vars
<1>. QED BY <1>1, <1>2, <1>3, DispatchFacts, QuietInv DEF stack_vars

\* What scan_info() does with the flow return of the dispatched call.
LEMMA SettleInv == ASSUME ScanInv, Settle PROVE ScanInv'
<1>1. /\ pc = "settle"
      /\ UNCHANGED <<medium, io_vars, parse_stage, payload, stack_vars, prop_vars, pop_vars, scan_from>>
      /\ pc' \in {"corrupt_settle", "finish", "scanned"}
      /\ flow_ret' = flow_ret \/ flow_ret' = "ERROR"
      /\ pc' # "scanned" => flow_ret' # "ERROR"
      /\ pc' = "finish" => Scanning /\ chunk_parse_stage = "FinishingChunk"
      /\ flow_ret = "ERROR" => flow_ret' = "ERROR"
  BY DEF Settle
<1>2. TypeOK'
  BY <1>1 DEF ScanInv, TypeOK, io_vars, prop_vars, pop_vars, stack_vars, Places, FlowReturns
<1>3. HasChunk' /\ ControlInv' /\ PopInv'
  BY <1>1 DEF ScanInv, HasChunk, ControlInv, PopInv, stack_vars, Scanning
<1>4. ContentInv'
  BY <1>1 DEF ScanInv, ContentInv, stack_vars, io_vars, Scanning, Front
<1>. QED BY <1>1, <1>2, <1>3, <1>4, QuietInv DEF stack_vars

\* The first pass of pop_finished_chunks().
LEMMA PopFinishedChunksInv == ASSUME ScanInv, PopFinishedChunks PROVE ScanInv'
<1>1. /\ pc = "finish" /\ Scanning /\ m_stack # << >> /\ chunk_parse_stage = "FinishingChunk"
      /\ flow_ret # "ERROR"
      /\ UNCHANGED <<medium, io_vars, parse_stage, payload, stack_vars, prop_vars, flow_ret, scan_from>>
  BY DEF ScanInv, HasChunk, ControlInv, PopFinishedChunks
<1>2. CASE pc' = "corrupt_finish" /\ UNCHANGED pop_vars
  <2>1. TypeOK'
    BY <1>1, <1>2 DEF ScanInv, TypeOK, io_vars, prop_vars, pop_vars, stack_vars, Places
  <2>2. HasChunk' /\ ControlInv' /\ PopInv' /\ ContentInv'
    BY <1>1, <1>2 DEF HasChunk, ControlInv, PopInv, ContentInv, stack_vars
  <2>. QED BY <1>1, <2>1, <2>2, QuietInv DEF stack_vars
<1>3. CASE /\ pc' = "pop" /\ pop_position' = byte_position /\ iter' = 1 /\ any_popped' = FALSE
           /\ ~FinishableChunkIsIncomplete(byte_position)
  <2>1. TypeOK'
    BY <1>1, <1>3 DEF ScanInv, TypeOK, io_vars, prop_vars, pop_vars, stack_vars, Places
  <2>2. HasChunk' /\ ControlInv' /\ ContentInv'
    BY <1>1, <1>3 DEF HasChunk, ControlInv, ContentInv, stack_vars
  <2>3. PopInv'
    <3>1. m_stack' = m_stack
      BY <1>1 DEF stack_vars
    <3>2. ASSUME NEW i \in DOMAIN m_stack
          PROVE  /\ m_stack[i].payload_end_pos >= byte_position
                 /\ m_stack[i].payload_end_pos = byte_position => Missing(m_stack[i]) = {}
      <4>1. byte_position <= m_stack[i].payload_end_pos
        BY <1>1 DEF ScanInv, PositionInside
      <4>2. m_stack[i].payload_end_pos \in UInt64 /\ byte_position \in UInt64
        BY ElementType DEF ScanInv, TypeOK
      <4>. QED BY <1>3, <4>1, <4>2 DEF FinishableChunkIsIncomplete, UInt64
    <3>. QED BY <1>3, <3>1, <3>2 DEF PopInv, Missing, Known
  <2>. QED BY <1>1, <2>1, <2>2, <2>3, QuietInv DEF stack_vars
<1>. QED BY <1>2, <1>3 DEF PopFinishedChunks

\* The second pass, at a chunk that goes on.
LEMMA KeepElementInv == ASSUME ScanInv, KeepElement PROVE ScanInv'
<1>1. /\ pc = "pop" /\ iter <= Len(m_stack) /\ m_stack[iter].payload_end_pos # pop_position
      /\ iter' = iter + 1
      /\ UNCHANGED <<medium, io_vars, parse_stage, payload, stack_vars, prop_vars, pop_position,
                     any_popped, pc, flow_ret, scan_from>>
  BY DEF KeepElement, AtElement, Ends
<1>2. TypeOK'
  BY <1>1 DEF ScanInv, TypeOK, io_vars, prop_vars, stack_vars
<1>3. HasChunk' /\ ControlInv'
  BY <1>1 DEF ScanInv, HasChunk, ControlInv, stack_vars, Scanning
<1>4. ContentInv'
  BY <1>1 DEF ScanInv, ContentInv, stack_vars, io_vars, Scanning, Front
<1>5. PopInv'
  <2>1. iter \in Nat /\ iter >= 1 /\ m_stack \in Seq(Chunk) /\ iter \in DOMAIN m_stack /\ pop_position \in UInt64
    BY <1>1 DEF ScanInv, PopInv, TypeOK
  <2>2. \A i \in DOMAIN m_stack : m_stack[i].payload_end_pos \in UInt64
    BY ElementType DEF ScanInv
  <2>3. ASSUME NEW i \in DOMAIN m_stack PROVE m_stack[i].payload_end_pos > pop_position
    <3>1. CASE iter > 1
      BY <1>1, <3>1 DEF ScanInv, PopInv
    <3>2. CASE iter = 1
      <4>1. m_stack[1].payload_end_pos > pop_position
        BY <1>1, <2>1, <2>2, <3>2 DEF ScanInv, PopInv, UInt64
      <4>2. m_stack[1].payload_end_pos <= m_stack[i].payload_end_pos
        BY <2>1, <3>2 DEF ScanInv, StackSorted
      <4>. QED BY <2>1, <2>2, <3>2, <4>1, <4>2 DEF UInt64
    <3>. QED BY <2>1, <3>1, <3>2
  <2>4. m_stack' = m_stack
    BY <1>1 DEF stack_vars
  <2>. QED BY <1>1, <2>1, <2>3, <2>4 DEF ScanInv, PopInv, Missing, Known
<1>. QED BY <1>1, <1>2, <1>3, <1>4, <1>5, QuietInv DEF stack_vars

\* The second pass, past the last chunk.
LEMMA EndOfStackInv == ASSUME ScanInv, EndOfStack PROVE ScanInv'
<1>1. /\ pc = "pop" /\ chunk_parse_stage = "FinishingChunk"
      /\ UNCHANGED <<medium, io_vars, parse_stage, payload, m_stack, prop_vars, pop_vars,
                     flow_ret, scan_from>>
      /\ \/ chunk_parse_stage' = "ParsingChunkStart" /\ pc' = "scanned"
         \/ pc' = "corrupt_finish" /\ UNCHANGED chunk_parse_stage
  BY DEF EndOfStack, ScanInv, ControlInv
<1>2. TypeOK'
  BY <1>1 DEF ScanInv, TypeOK, io_vars, prop_vars, pop_vars, ChunkParseStages, Places
<1>3. HasChunk' /\ ControlInv' /\ ContentInv' /\ PopInv'
  BY <1>1 DEF ScanInv, HasChunk, ControlInv, ContentInv, PopInv
<1>. QED BY <1>1, <1>2, <1>3, QuietInv

\* What the loop does with the flow return of scan_info().
LEMMA ScanInfoReturnedInv == ASSUME ScanInv, ScanInfoReturned PROVE ScanInv'
<1>1. /\ pc = "scanned"
      /\ UNCHANGED <<medium, io_vars, parse_stage, payload, stack_vars, prop_vars>>
      /\ LocalsReset
      /\ pc' \in {"loop", "idle", "stopped"} /\ (pc' = "idle" => Pushing)
      /\ flow_ret' \in FlowReturns
      /\ pc' # "stopped" => flow_ret # "ERROR" /\ flow_ret' # "ERROR"
      /\ flow_ret = "ERROR" => flow_ret' = "ERROR"
  BY DEF ScanInfoReturned, FlowReturns, ScanInv, TypeOK
<1>2. TypeOK'
  <2>1. scan_from' \in UInt64 /\ pop_position' \in UInt64 /\ iter' \in Nat
    BY <1>1, WidthAssumption DEF LocalsReset, UInt64
  <2>2. any_popped' \in BOOLEAN
    BY <1>1 DEF LocalsReset
  <2>. QED BY <1>1, <2>1, <2>2 DEF ScanInv, TypeOK, io_vars, prop_vars, stack_vars, Places
<1>3. HasChunk' /\ ControlInv' /\ PopInv'
  BY <1>1 DEF ScanInv, HasChunk, ControlInv, PopInv, stack_vars, Scanning, Pushing
<1>4. ContentInv'
  BY <1>1 DEF ScanInv, ContentInv, stack_vars, io_vars, Scanning, Front
<1>. QED BY <1>1, <1>2, <1>3, <1>4, QuietInv DEF stack_vars

\* The loop, when the scan is over.
LEMMA ScanIsOverInv == ASSUME ScanInv, ScanIsOver PROVE ScanInv'
<1>1. /\ pc = "loop" /\ ~Scanning /\ pc' = "stopped"
      /\ UNCHANGED <<medium, io_vars, parse_stage, payload, stack_vars, prop_vars, pop_vars,
                     flow_ret, scan_from>>
  BY DEF ScanIsOver, Scanning
<1>2. TypeOK'
  BY <1>1 DEF ScanInv, TypeOK, io_vars, prop_vars, stack_vars, pop_vars, Places
<1>3. HasChunk' /\ ControlInv' /\ PopInv' /\ ContentInv'
  BY <1>1 DEF ScanInv, HasChunk, ControlInv, PopInv, ContentInv, stack_vars, Scanning
<1>. QED BY <1>1, <1>2, <1>3, QuietInv DEF stack_vars

\* The pad byte of a chunk of odd size.
LEMMA SkipPadByteInv== ASSUME ScanInv, SkipPadByte PROVE ScanInv'
<1>1. PICK ret \in FlowReturns, skipped \in {1, available} :
        /\ Skip(1, FALSE, ret, skipped)
        /\ IF ret = "OK" /\ skipped = 1
           THEN UNCHANGED <<pc, flow_ret>>
           ELSE pc' = "scanned" /\ flow_ret' = IF ret = "OK" THEN "NOT_ENOUGH_DATA" ELSE ret
  BY DEF SkipPadByte
<1>2. /\ pc = "finish" /\ OnPadByte
      /\ UNCHANGED <<medium, parse_stage, payload, stack_vars, prop_vars, pop_vars, scan_from>>
  BY DEF SkipPadByte
<1>3. /\ Scanning /\ m_stack # << >> /\ chunk_parse_stage = "FinishingChunk" /\ flow_ret # "ERROR"
  BY <1>2 DEF ScanInv, ControlInv, HasChunk
<1>4. ~SkipsBySeeking(1, FALSE)
  BY SeekThresholdAssumption DEF SkipsBySeeking, SkipsPartially
<1>5. byte_position + 1 <= Front.payload_end_pos /\ 1 \in UInt64
  <2>1. Front.payload_end_pos - byte_position = 1
    BY <1>2 DEF OnPadByte
  <2>. QED BY <1>3, <2>1, RemainingBytes DEF UInt64
<1>6. UNCHANGED <<m_stack, chunk_parse_stage>>
  BY <1>2 DEF stack_vars
<1>7. /\ byte_position' \in UInt64 /\ available' \in UInt64 /\ upstream_position' \in UInt64
      /\ pending_segment_start' \in UInt64 \cup {NoSegment}
      /\ StackSorted' /\ SizesFit' /\ PositionInside' /\ InputInv'
  BY <1>1, <1>2, <1>3, <1>4, <1>5, <1>6, SkipKeepsInput
<1>8. pc' \in {"finish", "scanned"} /\ flow_ret' \in FlowReturns /\ (pc' = "finish" => UNCHANGED flow_ret)
  BY <1>1, <1>2 DEF FlowReturns, ScanInv, TypeOK
<1>9. TypeOK'
  BY <1>2, <1>7, <1>8 DEF ScanInv, TypeOK, prop_vars, pop_vars, stack_vars, Places
<1>10. HasChunk' /\ ControlInv' /\ PopInv' /\ ContentInv'
  BY <1>2, <1>3, <1>6, <1>8 DEF HasChunk, ControlInv, PopInv, ContentInv, Front, Scanning
<1>. QED BY <1>7, <1>9, <1>10 DEF ScanInv

\* DSD: the payload is reported, and skipped or streamed.
LEMMA ParsePayloadInv == ASSUME ScanInv, ParsePayload PROVE ScanInv'
<1>. DEFINE n == Lesser(Front.size, NumAvailable)
<1>1. /\ Dispatch("ParsingChunkContent") /\ Known(Front.fourcc)
      /\ Descriptions[Front.fourcc].parse = "Payload"
      /\ UNCHANGED <<m_stack, prop_vars>>
  BY DEF ParsePayload, Parsing
<1>2. PICK ret \in FlowReturns :
        /\ ReportPayloadFound(n, Front.size > NumAvailable, ret)
        /\ Returns(IF ret = "OK" THEN "NOTHING_TO_READ" ELSE ret)
        /\ chunk_parse_stage' = IF ret = "OK" THEN "FinishingChunk" ELSE chunk_parse_stage
  BY DEF ParsePayload
<1>3. /\ pc = "loop" /\ flow_ret # "ERROR" /\ Scanning /\ m_stack # << >>
      /\ chunk_parse_stage = "ParsingChunkContent"
      /\ Pushing => pending_segment_start = NoSegment
      /\ UNCHANGED <<medium, pop_vars>> /\ scan_from' = byte_position
  BY <1>1, DispatchFacts
<1>4. TypeOK /\ byte_position \in UInt64
  BY DEF ScanInv, TypeOK
<1>5. n \in UInt64 /\ byte_position + n <= Front.payload_end_pos
  <2>1. byte_position = Front.payload_begin_pos
    BY <1>1, <1>3 DEF ScanInv, ContentInv
  <2>2. Front.payload_begin_pos + Front.size <= Front.payload_end_pos
    BY <1>3, <1>4, FrontType DEF ScanInv, SizesFit, Front
  <2>3. NumAvailable \in UInt64
    <3>1. upstream_size - byte_position \in Int
      BY <1>4, WidthAssumption DEF TypeOK, UInt64
    <3>. QED BY <3>1, WrapType DEF NumAvailable
  <2>. QED BY <1>3, <1>4, <2>1, <2>2, <2>3, FrontType DEF Lesser, UInt64
<1>. HIDE DEF n
<1>6. /\ payload' = [position |-> byte_position, size |-> n]
      /\ payload' \in [position : UInt64, size : UInt64]
  BY <1>2, <1>4, <1>5 DEF ReportPayloadFound
<1>7. /\ pc' = "settle" /\ flow_ret' \in FlowReturns
      /\ ret = "ERROR" => flow_ret' = "ERROR"
      /\ chunk_parse_stage' \in {"FinishingChunk", "ParsingChunkContent"}
      /\ ret = "OK" => chunk_parse_stage' = "FinishingChunk"
  BY <1>2, <1>3 DEF Returns, FlowReturns
<1>8. CASE parse_stage' = "Streaming" /\ UNCHANGED io_vars
  <2>1. TypeOK'
    BY <1>1, <1>3, <1>6, <1>7, <1>8 DEF ScanInv, TypeOK, io_vars, prop_vars, pop_vars, Places, ChunkParseStages, Stages
  <2>2. ~Scanning'
    BY <1>8 DEF Scanning
  <2>3. StackSorted' /\ SizesFit' /\ PositionInside' /\ InputInv'
    BY <1>1, <1>3, <1>8, <2>2 DEF ScanInv, StackSorted, SizesFit, PositionInside, InputInv, io_vars
  <2>4. HasChunk' /\ ControlInv' /\ PopInv' /\ ContentInv'
    BY <1>7, <2>2 DEF HasChunk, ControlInv, PopInv, ContentInv
  <2>. QED BY <2>1, <2>3, <2>4 DEF ScanInv
<1>9. CASE UNCHANGED parse_stage /\ \E skipped \in {n, available} : Skip(n, TRUE, ret, skipped)
  <2>1. PICK skipped \in {n, available} : Skip(n, TRUE, ret, skipped)
    BY <1>9
  <2>2. SkipsBySeeking(n, TRUE) => Pushing /\ pending_segment_start = NoSegment
    BY <1>3 DEF SkipsBySeeking, SkipsByConsuming
  <2>3. /\ byte_position' \in UInt64 /\ available' \in UInt64 /\ upstream_position' \in UInt64
        /\ pending_segment_start' \in UInt64 \cup {NoSegment}
        /\ ret # "OK" => byte_position' = byte_position
        /\ StackSorted' /\ SizesFit' /\ PositionInside' /\ InputInv'
    BY <1>1, <1>3, <1>5, <1>7, <1>9, <2>1, <2>2, SkipKeepsInput
  <2>4. TypeOK'
    BY <1>1, <1>3, <1>4, <1>6, <1>7, <1>9, <2>3 DEF TypeOK, prop_vars, pop_vars, Places, ChunkParseStages
  <2>5. HasChunk' /\ ControlInv' /\ PopInv'
    BY <1>1, <1>3, <1>7 DEF HasChunk, ControlInv, PopInv
  <2>6. ContentInv'
    BY <1>1, <1>3, <1>7, <2>3 DEF ScanInv, ContentInv, Front
  <2>. QED BY <2>3, <2>4, <2>5, <2>6 DEF ScanInv
<1>. QED BY <1>2, <1>8, <1>9 DEF ReportPayloadFound

\* handle_corrupted_chunk_structure(): an error, or the end of the scan.
LEMMA HandleCorruptedChunkStructureInv == ASSUME ScanInv, HandleCorruptedChunkStructure PROVE ScanInv'
<1>1. /\ pc \in {"corrupt_settle", "corrupt_finish"}
      /\ pc' = IF pc = "corrupt_settle" THEN "settle" ELSE "scanned"
      /\ UNCHANGED <<medium, payload, stack_vars, prop_vars, pop_vars, scan_from>>
  BY DEF HandleCorruptedChunkStructure
<1>2. CASE ScanningFinished /\ flow_ret' = "NOTHING_TO_READ"
  <2>1. /\ ~Scanning'
        /\ parse_stage' \in Stages
        /\ byte_position' \in UInt64 /\ available' \in UInt64 /\ upstream_position' \in UInt64
        /\ pending_segment_start' \in UInt64 \cup {NoSegment}
        /\ upstream_position' <= medium.size
    BY <1>1, <1>2, ScanningFinishedEffect DEF ScanInv, InputInv
  <2>2. TypeOK'
    BY <1>1, <1>2, <2>1 DEF ScanInv, TypeOK, prop_vars, pop_vars, stack_vars, Places, FlowReturns
  <2>3. m_stack' = m_stack
    BY <1>1 DEF stack_vars
  <2>4. StackSorted' /\ SizesFit'
    BY <2>3 DEF ScanInv, StackSorted, SizesFit
  <2>5. PositionInside' /\ InputInv' /\ HasChunk' /\ ControlInv' /\ PopInv' /\ ContentInv'
    BY <1>1, <2>1 DEF PositionInside, InputInv, HasChunk, ControlInv, PopInv, ContentInv
  <2>. QED BY <2>2, <2>4, <2>5 DEF ScanInv
<1>3. CASE flow_ret' = "ERROR" /\ UNCHANGED <<io_vars, parse_stage>>
  <2>1. TypeOK'
    BY <1>1, <1>3 DEF ScanInv, TypeOK, io_vars, prop_vars, pop_vars, stack_vars, Places, FlowReturns
  <2>2. HasChunk' /\ ControlInv' /\ PopInv'
    BY <1>1, <1>3 DEF ScanInv, HasChunk, ControlInv, PopInv, stack_vars, Scanning
  <2>3. ContentInv'
    BY <1>1, <1>3 DEF ScanInv, ContentInv, stack_vars, io_vars, Scanning, Front
  <2>. QED BY <1>1, <1>3, <2>1, <2>2, <2>3, QuietInv DEF stack_vars
<1>. QED BY <1>2, <1>3 DEF HandleCorruptedChunkStructure

\* The second pass, at a finished chunk without a finish function.
LEMMA PopPlainChunkInv == ASSUME ScanInv, PopPlainChunk PROVE ScanInv'
<1>1. /\ AtElement /\ Ends(iter) /\ EraseElement
      /\ UNCHANGED <<io_vars, parse_stage, prop_finished>>
  BY DEF PopPlainChunk
<1>2. /\ pc = "pop" /\ chunk_parse_stage = "FinishingChunk" /\ flow_ret # "ERROR"
      /\ any_popped' = TRUE
      /\ UNCHANGED <<medium, payload, chunk_parse_stage, parsed, num_chars, upstream_size,
                     pop_position, iter, pc, flow_ret, scan_from>>
  BY <1>1 DEF AtElement, EraseElement, ScanInv, ControlInv
<1>3. /\ m_stack' \in Seq(Chunk) /\ StackSorted' /\ SizesFit' /\ PopInv' /\ PositionInside'
  BY <1>1, EraseElementEffect DEF io_vars
<1>4. TypeOK'
  BY <1>1, <1>2, <1>3 DEF ScanInv, TypeOK, io_vars
<1>5. HasChunk' /\ ControlInv' /\ ContentInv'
  BY <1>2 DEF HasChunk, ControlInv, ContentInv
<1>6. InputInv'
  <2>1. \A i \in DOMAIN m_stack' : i + 1 \in DOMAIN m_stack /\ m_stack'[i] = m_stack[i + 1]
    BY <1>1, EraseElementEffect
  <2>. QED BY <1>1, <1>2, <2>1 DEF ScanInv, InputInv, io_vars, Pushing, Scanning
<1>. QED BY <1>3, <1>4, <1>5, <1>6 DEF ScanInv

\* The second pass, at FRM8: the scan is concluded.
LEMMA PopFormInv == ASSUME ScanInv, PopForm PROVE ScanInv'
<1>1. AtElement /\ Ends(iter) /\ ScanningFinished /\ EraseElement /\ UNCHANGED prop_finished
  BY DEF PopForm
<1>2. /\ pc = "pop" /\ chunk_parse_stage = "FinishingChunk" /\ flow_ret # "ERROR"
      /\ any_popped' = TRUE
      /\ UNCHANGED <<medium, payload, chunk_parse_stage, parsed, num_chars, upstream_size,
                     pop_position, iter, pc, flow_ret, scan_from>>
  BY <1>1 DEF AtElement, EraseElement, ScanInv, ControlInv
<1>3. m_stack' \in Seq(Chunk) /\ StackSorted' /\ SizesFit' /\ PopInv'
  BY <1>1, EraseElementEffect
<1>4. /\ ~Scanning'
      /\ parse_stage' \in Stages
      /\ byte_position' \in UInt64 /\ available' \in UInt64 /\ upstream_position' \in UInt64
      /\ pending_segment_start' \in UInt64 \cup {NoSegment}
      /\ upstream_position' <= medium.size
  BY <1>1, <1>2, ScanningFinishedEffect DEF ScanInv, InputInv
<1>5. TypeOK'
  BY <1>1, <1>2, <1>3, <1>4 DEF ScanInv, TypeOK
<1>6. PositionInside' /\ InputInv' /\ HasChunk' /\ ControlInv' /\ ContentInv'
  BY <1>2, <1>4 DEF PositionInside, InputInv, HasChunk, ControlInv, ContentInv
<1>. QED BY <1>3, <1>5, <1>6 DEF ScanInv

\* The second pass, at PROP: the properties are validated.
LEMMA PopPropertiesInv == ASSUME ScanInv, PopProperties PROVE ScanInv'
<1>1. AtElement /\ Ends(iter) /\ UNCHANGED <<io_vars, parse_stage>>
  BY DEF PopProperties
<1>2. pc = "pop" /\ chunk_parse_stage = "FinishingChunk" /\ flow_ret # "ERROR"
  BY <1>1 DEF AtElement, ScanInv, ControlInv
<1>3. CASE EraseElement /\ prop_finished' = TRUE
  <2>1. /\ any_popped' = TRUE
        /\ UNCHANGED <<medium, payload, chunk_parse_stage, parsed, num_chars, upstream_size,
                       pop_position, iter, pc, flow_ret, scan_from>>
    BY <1>3 DEF EraseElement
  <2>2. /\ m_stack' \in Seq(Chunk) /\ StackSorted' /\ SizesFit' /\ PopInv' /\ PositionInside'
    BY <1>1, <1>3, EraseElementEffect DEF io_vars
  <2>3. TypeOK'
    BY <1>1, <1>3, <2>1, <2>2 DEF ScanInv, TypeOK, io_vars
  <2>4. HasChunk' /\ ControlInv' /\ ContentInv'
    BY <1>2, <2>1 DEF HasChunk, ControlInv, ContentInv
  <2>5. InputInv'
    <3>1. \A i \in DOMAIN m_stack' : i + 1 \in DOMAIN m_stack /\ m_stack'[i] = m_stack[i + 1]
      BY <1>1, <1>3, EraseElementEffect
    <3>. QED BY <1>1, <2>1, <3>1 DEF ScanInv, InputInv, io_vars, Pushing, Scanning
  <2>. QED BY <2>2, <2>3, <2>4, <2>5 DEF ScanInv
<1>4. CASE /\ pc' = "corrupt_finish"
           /\ UNCHANGED <<medium, payload, stack_vars, prop_vars, pop_vars, flow_ret, scan_from>>
  <2>1. TypeOK'
    BY <1>1, <1>4 DEF ScanInv, TypeOK, io_vars, prop_vars, pop_vars, stack_vars, Places
  <2>2. HasChunk' /\ ControlInv' /\ PopInv' /\ ContentInv'
    BY <1>2, <1>4 DEF HasChunk, ControlInv, PopInv, ContentInv, stack_vars
  <2>. QED BY <1>1, <1>4, <2>1, <2>2, QuietInv DEF stack_vars
<1>. QED BY <1>3, <1>4 DEF PopProperties

\* Upstream pushes a buffer.
LEMMA DeliverInv == ASSUME ScanInv, Deliver PROVE ScanInv'
<1>1. /\ pc = "idle" /\ pending_segment_start = NoSegment /\ Scanning /\ flow_ret # "ERROR" /\ Pushing
      /\ upstream_position < medium.size
      /\ pc' = "loop"
      /\ UNCHANGED <<medium, byte_position, pending_segment_start, parse_stage, payload,
                     stack_vars, prop_vars, pop_vars, flow_ret, scan_from>>
  BY DEF Deliver, ScanInv, ControlInv
<1>2. PICK n \in BufferSizes :
        LET delivered == Lesser(n, medium.size - upstream_position)
        IN  /\ available' = available + delivered
            /\ upstream_position' = upstream_position + delivered
  BY DEF Deliver
<1>3. /\ upstream_position' \in UInt64 /\ available' \in UInt64
      /\ upstream_position' <= medium.size
      /\ upstream_position' = byte_position + available'
  <2>1. n \in Nat /\ medium.size \in UInt64
    BY BufferSizesAssumption, MediumType DEF ScanInv
  <2>2. Lesser(n, medium.size - upstream_position) \in 0 .. (medium.size - upstream_position)
    BY <1>1, <2>1, WidthAssumption DEF ScanInv, TypeOK, Lesser, UInt64
  <2>3. upstream_position = byte_position + available
    BY <1>1 DEF ScanInv, InputInv
  <2>4. PICK delivered \in 0 .. (medium.size - upstream_position) :
          available' = available + delivered /\ upstream_position' = upstream_position + delivered
    BY <1>2, <2>2
  <2>5. /\ medium.size \in 0 .. MaxUInt64 /\ upstream_position \in 0 .. MaxUInt64
        /\ byte_position \in 0 .. MaxUInt64 /\ available \in 0 .. MaxUInt64
    BY <2>1 DEF ScanInv, TypeOK, UInt64
  <2>6. MaxUInt64 \in Nat
    BY WidthAssumption
  <2>. QED BY <1>1, <2>3, <2>4, <2>5, <2>6 DEF UInt64
<1>4. TypeOK'
  BY <1>1, <1>3 DEF ScanInv, TypeOK, prop_vars, pop_vars, stack_vars, Places
<1>5. StackSorted' /\ SizesFit' /\ PositionInside'
  BY <1>1 DEF ScanInv, StackSorted, SizesFit, PositionInside, stack_vars, Scanning
<1>6. InputInv' /\ HasChunk' /\ ControlInv' /\ PopInv' 
  BY <1>1, <1>3 DEF ScanInv, InputInv, HasChunk, ControlInv, PopInv, stack_vars, Scanning
<1>7. ContentInv'
  BY <1>1 DEF ScanInv, ContentInv, stack_vars, Scanning, Front
<1>. QED BY <1>4, <1>5, <1>6, <1>7 DEF ScanInv

\* The chain function returns.
LEMMA ChainReturnsInv == ASSUME ScanInv, ChainReturns PROVE ScanInv'
<1>1. /\ pc = "loop" /\ Pushing /\ flow_ret # "ERROR"
      /\ available = 0 \/ ~Scanning
      /\ available' = 0
      /\ pc' \in {"idle", "stopped"}
      /\ UNCHANGED <<medium, byte_position, upstream_position, pending_segment_start, parse_stage,
                     payload, stack_vars, prop_vars, pop_vars, flow_ret, scan_from>>
  BY DEF ChainReturns, ScanInv, ControlInv, Scanning
<1>2. TypeOK'
  BY <1>1, WidthAssumption DEF ScanInv, TypeOK, prop_vars, pop_vars, stack_vars, Places, UInt64
<1>3. StackSorted' /\ SizesFit' /\ PositionInside'
  BY <1>1 DEF ScanInv, StackSorted, SizesFit, PositionInside, stack_vars, Scanning
<1>4. InputInv'
  BY <1>1 DEF ScanInv, InputInv, stack_vars, Scanning, Pushing
<1>5. HasChunk' /\ ControlInv' /\ PopInv' 
  BY <1>1 DEF ScanInv, HasChunk, ControlInv, PopInv, stack_vars, Scanning, Pushing
<1>6. ContentInv'
  BY <1>1 DEF ScanInv, ContentInv, stack_vars, Scanning, Front
<1>. QED BY <1>2, <1>3, <1>4, <1>5, <1>6 DEF ScanInv

\* The segment that answers a seek.
LEMMA UpstreamSegmentInv == ASSUME ScanInv, UpstreamSegment PROVE ScanInv'
<1>1. /\ pc = "idle" /\ HandleSinkSegment /\ flow_ret # "ERROR" /\ Pushing
      /\ pc' = IF parse_stage' = "ScanningInfo" THEN "idle" ELSE "stopped"
      /\ UNCHANGED <<medium, payload, stack_vars, prop_vars, pop_vars, flow_ret, scan_from>>
  BY DEF UpstreamSegment, ScanInv, ControlInv
<1>2. /\ pending_segment_start # NoSegment /\ pending_segment_start \in UInt64
      /\ pending_segment_start' = NoSegment
      /\ UNCHANGED upstream_position
  BY <1>1 DEF HandleSinkSegment, ScanInv, TypeOK
<1>3. m_stack' = m_stack /\ chunk_parse_stage' = chunk_parse_stage
  BY <1>1 DEF stack_vars
<1>4. StackSorted' /\ SizesFit'
  BY <1>3 DEF ScanInv, StackSorted, SizesFit
<1>5. CASE Scanning /\ byte_position' = pending_segment_start /\ UNCHANGED <<available, parse_stage>>
  <2>1. TypeOK'
    BY <1>1, <1>2, <1>5 DEF ScanInv, TypeOK, prop_vars, pop_vars, stack_vars, Places
  <2>2. /\ upstream_position = pending_segment_start /\ available = 0
        /\ chunk_parse_stage # "ParsingChunkContent"
        /\ pending_segment_start <= byte_position
        /\ \A i \in DOMAIN m_stack : m_stack[i].payload_begin_pos <= pending_segment_start
    BY <1>1, <1>2, <1>5 DEF ScanInv, InputInv
  <2>3. PositionInside'
    <3>1. ASSUME NEW i \in DOMAIN m_stack PROVE pending_segment_start <= m_stack[i].payload_end_pos
      <4>1. byte_position <= m_stack[i].payload_end_pos
        BY <1>5 DEF ScanInv, PositionInside
      <4>2. m_stack[i].payload_end_pos \in UInt64 /\ byte_position \in UInt64
        BY ElementType DEF ScanInv, TypeOK
      <4>. QED BY <1>2, <2>2, <4>1, <4>2 DEF UInt64
    <3>. QED BY <1>3, <1>5, <2>2, <3>1 DEF PositionInside
  <2>4. InputInv'
    BY <1>1, <1>2, <1>3, <1>5, <2>2 DEF ScanInv, InputInv, Pushing, UInt64
  <2>5. HasChunk' /\ ControlInv' /\ PopInv' /\ ContentInv'
    BY <1>1, <1>3, <1>5, <2>2 DEF ScanInv, HasChunk, ControlInv, PopInv, ContentInv, Scanning, Pushing
  <2>. QED BY <1>4, <2>1, <2>3, <2>4, <2>5 DEF ScanInv
<1>6. CASE /\ parse_stage' \in Stages /\ ~Scanning'
           /\ byte_position' \in UInt64 /\ available' \in UInt64
  <2>1. TypeOK'
    BY <1>1, <1>2, <1>6 DEF ScanInv, TypeOK, prop_vars, pop_vars, stack_vars, Places
  <2>2. PositionInside' /\ InputInv' /\ HasChunk' /\ ControlInv' /\ PopInv' /\ ContentInv'
    BY <1>1, <1>2, <1>6 DEF ScanInv, PositionInside, InputInv, HasChunk, ControlInv, PopInv, ContentInv, Scanning
  <2>. QED BY <1>4, <2>1, <2>2 DEF ScanInv
<1>7. 0 \in UInt64
  BY WidthAssumption DEF UInt64
<1>. QED BY <1>1, <1>2, <1>5, <1>6, <1>7 DEF HandleSinkSegment, StartStreamingAt, ScanInv, TypeOK, Stages, Scanning

\* Upstream pushes EOS.
LEMMA EndOfStreamInv == ASSUME ScanInv, EndOfStream PROVE ScanInv'
<1>1. /\ pc = "idle" /\ flow_ret # "ERROR" /\ Pushing /\ Scanning
      /\ ScanningFinished
      /\ pc' = IF parse_stage' = "AwaitingSegment" THEN "idle" ELSE "stopped"
      /\ UNCHANGED <<medium, payload, stack_vars, prop_vars, pop_vars, flow_ret, scan_from>>
  BY DEF EndOfStream, ScanInv, ControlInv, ScanningFinished, Scanning
<1>2. /\ ~Scanning'
      /\ parse_stage' \in Stages
      /\ byte_position' \in UInt64 /\ available' \in UInt64 /\ upstream_position' \in UInt64
      /\ pending_segment_start' \in UInt64 \cup {NoSegment}
      /\ upstream_position' <= medium.size
  BY <1>1, ScanningFinishedEffect DEF ScanInv, InputInv
<1>3. TypeOK'
  BY <1>1, <1>2 DEF ScanInv, TypeOK, prop_vars, pop_vars, stack_vars, Places
<1>4. StackSorted' /\ SizesFit'
  BY <1>1 DEF ScanInv, StackSorted, SizesFit, stack_vars
<1>5. PositionInside' /\ InputInv' /\ HasChunk' /\ ControlInv' /\ PopInv' /\ ContentInv'
  BY <1>1, <1>2 DEF PositionInside, InputInv, HasChunk, ControlInv, PopInv, ContentInv, Pushing
<1>. QED BY <1>3, <1>4, <1>5 DEF ScanInv

\* A stuttering step.
LEMMA StutterInv == ASSUME ScanInv, UNCHANGED vars PROVE ScanInv'
<1>1. UNCHANGED <<medium, io_vars, parse_stage, payload, stack_vars, prop_vars, pop_vars, pc, flow_ret, scan_from>>
  BY DEF vars
<1>2. TypeOK'
  BY <1>1 DEF ScanInv, TypeOK, io_vars, prop_vars, pop_vars, stack_vars
<1>3. HasChunk' /\ ControlInv'
  BY <1>1 DEF ScanInv, HasChunk, ControlInv, stack_vars, pop_vars, Pushing, Scanning, Front, Known
<1>4. ContentInv' /\ PopInv'
  BY <1>1 DEF ScanInv, ContentInv, PopInv, stack_vars, pop_vars, io_vars, Scanning, Front, Known, Missing
<1>. QED BY <1>1, <1>2, <1>3, <1>4, QuietInv DEF stack_vars

\* The invariant is inductive: every step of the streaming thread and of upstream
\* keeps it.
THEOREM ScanInvIsInductive == ScanInv /\ [Next]_vars => ScanInv'
BY NoFurtherSubchunkInv, HeaderNotReadInv, ParseChunkStartInv, SkipUnknownChunkInv, PrefixNotReadInv,
   ParseLeafInv, ParseFormInv, ParseContainerInv, ReadTextLengthInv, ResumeTextInv, ReadTextInv,
   PayloadUnusableInv, ParsePayloadInv, PayloadReportedAgainInv, RetryFinishInv, SettleInv,
   HandleCorruptedChunkStructureInv, SkipPadByteInv, PopFinishedChunksInv, KeepElementInv, PopPlainChunkInv,
   PopFormInv, PopPropertiesInv, EndOfStackInv, ScanInfoReturnedInv, ChainReturnsInv, ScanIsOverInv,
   DeliverInv, UpstreamSegmentInv, EndOfStreamInv, StutterInv
   DEF Next, StreamingThread, Upstream, ParseChunkContent, FinishChunkParsing

\* The invariant holds throughout a scan.
THEOREM ScanInvHolds == Spec => []ScanInv
BY InitInv, ScanInvIsInductive, PTL DEF Spec

\* Type correctness: none of the unsigned quantities of the scan leaves its range.
THEOREM TypeCorrectness == Spec => []TypeOK
<1>1. ScanInv => TypeOK
  BY DEF ScanInv
<1>. QED BY ScanInvHolds, <1>1, PTL

\* While scanning, the chunks on the stack lie inside each other and around the byte
\* position, whatever the chunk headers and the buffers are: get_num_remaining_bytes()
\* and the subtractions of byte_position in the parser never wrap around.
THEOREM StackStaysNested == Spec => []StackNested
<1>1. ScanInv => StackNested
  <2>1. SUFFICES ASSUME ScanInv, Scanning, NEW i \in DOMAIN m_stack
                 PROVE  /\ m_stack[i].payload_begin_pos <= byte_position
                        /\ byte_position <= m_stack[i].payload_end_pos
                        /\ \A j \in 1 .. i : m_stack[j].payload_end_pos <= m_stack[i].payload_end_pos
    BY DEF StackNested
  <2>2. m_stack \in Seq(Chunk)
    BY <2>1 DEF ScanInv, TypeOK
  <2>3. \A j \in 1 .. i : j \in DOMAIN m_stack /\ j <= i
    BY <2>1, <2>2
  <2>. QED BY <2>1, <2>3 DEF ScanInv, PositionInside, StackSorted
<1>. QED BY ScanInvHolds, <1>1, PTL

\* The content of a chunk is only parsed, and a chunk only finished, when there is
\* one, and the skip of an unknown chunk has something to skip: what the assertions
\* of parse_chunk_content() and finish_chunk_parsing() say.
THEOREM ContentAlwaysHasChunk == Spec => []ContentHasChunk
<1>1. ScanInv => ContentHasChunk
  <2>1. SUFFICES ASSUME ScanInv, Scanning, pc \in {"loop", "finish"},
                        chunk_parse_stage # "ParsingChunkStart"
                 PROVE  /\ m_stack # << >>
                        /\ chunk_parse_stage = "ParsingChunkContent" /\ ~Known(Front.fourcc) =>
                             NumRemaining > 0
    BY DEF ContentHasChunk
  <2>2. m_stack # << >>
    BY <2>1 DEF ScanInv, HasChunk
  <2>3. NumRemaining \in UInt64 /\ byte_position + NumRemaining = Front.payload_end_pos
          /\ byte_position \in UInt64
    BY <2>1, <2>2, RemainingBytes
  <2>4. chunk_parse_stage = "ParsingChunkContent" /\ ~Known(Front.fourcc) =>
          byte_position < Front.payload_end_pos
    BY <2>1 DEF ScanInv, ContentInv
  <2>. QED BY <2>2, <2>3, <2>4 DEF UInt64
<1>. QED BY ScanInvHolds, <1>1, PTL

\* Entering a chunk takes none off the stack.
LEMMA PushNeverShortens ==
  ASSUME ScanInv, ParseChunkStart PROVE Len(m_stack) <= Len(m_stack')
<1>1. /\ m_stack \in Seq(Chunk) /\ Len(m_stack) \in Nat
      /\ byte_position' \in UInt64
  BY ParseChunkStartInv, LenProperties DEF ScanInv, TypeOK
<1>2. PICK f \in Fourccs : \E raw_size \in RawSizes[f] :
        IF SizeIsUnusable(raw_size, byte_position')
        THEN pc' = "corrupt_settle" /\ UNCHANGED <<stack_vars, flow_ret>>
        ELSE EnterChunk(f, raw_size, byte_position')
  BY DEF ParseChunkStart
<1>3. PICK raw_size \in RawSizes[f] :
        IF SizeIsUnusable(raw_size, byte_position')
        THEN pc' = "corrupt_settle" /\ UNCHANGED <<stack_vars, flow_ret>>
        ELSE EnterChunk(f, raw_size, byte_position')
  BY <1>2
<1>4. CASE SizeIsUnusable(raw_size, byte_position')
  BY <1>1, <1>3, <1>4 DEF stack_vars
<1>5. CASE ~SizeIsUnusable(raw_size, byte_position')
  <2>1. raw_size \in UInt64
    BY HeaderAssumption
  <2>. DEFINE size == ContentSize(raw_size)
              end  == byte_position' + Padded(size)
  <2>2. size \in UInt64 /\ end \in UInt64
    BY <1>1, <1>5, <2>1, UsableSize
  <2>3. PushChunk(f, size, byte_position', end)
    BY <1>3, <1>5 DEF EnterChunk
  <2>. HIDE DEF size, end
  <2>4. Len(m_stack') = Len(m_stack) \/ Len(m_stack') = Len(m_stack) + 1
    BY <1>1, <2>2, <2>3, PushKeepsStack
  <2>. QED BY <1>1, <2>4
<1>. QED BY <1>4, <1>5

\* Only the second pass of pop_finished_chunks() takes a chunk off the stack.
LEMMA OnlyErasingShortens ==
  ASSUME ScanInv, Next, Len(m_stack') < Len(m_stack)
  PROVE  AtElement /\ Ends(iter) /\ EraseElement
<1>1. m_stack \in Seq(Chunk) /\ Len(m_stack) \in Nat
  BY LenProperties DEF ScanInv, TypeOK
<1>2. m_stack' # m_stack
  BY <1>1
<1>3. ~ParseChunkStart
  <2>1. SUFFICES ASSUME ParseChunkStart PROVE FALSE
    OBVIOUS
  <2>2. Len(m_stack) <= Len(m_stack') /\ Len(m_stack') \in Nat
    BY <2>1, PushNeverShortens, ParseChunkStartInv, LenProperties DEF ScanInv, TypeOK
  <2>. QED BY <1>1, <2>2
<1>4. PopPlainChunk \/ PopForm \/ PopProperties
  BY <1>2, <1>3 DEF Next, StreamingThread, Upstream, ParseChunkContent, FinishChunkParsing,
     NoFurtherSubchunk, HeaderNotRead, SkipUnknownChunk, PrefixNotRead, ParseLeaf, ParseForm,
     ParseContainer, ReadTextLength, ResumeText, ReadText, PayloadUnusable, ParsePayload,
     PayloadReportedAgain, RetryFinish, Settle, HandleCorruptedChunkStructure, SkipPadByte,
     PopFinishedChunks, KeepElement, EndOfStack, ScanInfoReturned, ChainReturns, ScanIsOver,
     Deliver, UpstreamSegment, EndOfStream, stack_vars
<1>. QED BY <1>2, <1>4 DEF PopPlainChunk, PopForm, PopProperties, stack_vars

\* pop_finished_chunks() takes chunks off the stack innermost first, at the position
\* where they end, and only with all the subchunks they require.
THEOREM PopsAreInnermostFirst == Spec => PopsInnermostFirst
<1>1. ScanInv /\ [Next]_vars =>
        [Len(m_stack') < Len(m_stack) =>
           /\ m_stack' = Tail(m_stack)
           /\ Front.payload_end_pos = pop_position
           /\ Missing(Front) = {}]_vars
  <2>1. SUFFICES ASSUME ScanInv, Next, Len(m_stack') < Len(m_stack)
                 PROVE  /\ m_stack' = Tail(m_stack)
                        /\ Front.payload_end_pos = pop_position
                        /\ Missing(Front) = {}
    OBVIOUS
  <2>2. AtElement /\ Ends(iter) /\ EraseElement
    BY <2>1, OnlyErasingShortens
  <2>3. iter = 1 /\ m_stack # << >> /\ m_stack' = Tail(m_stack)
    BY <2>1, <2>2, EraseElementEffect
  <2>4. 1 \in DOMAIN m_stack
    BY <2>1, <2>3, FrontType DEF ScanInv
  <2>. QED BY <2>1, <2>2, <2>3, <2>4 DEF ScanInv, PopInv, AtElement, Ends, Front
<1>. QED BY ScanInvHolds, <1>1, PTL DEF Spec, PopsInnermostFirst

\* Without a seekable upstream the payload is streamed where it is found, and
\* nothing leaves the Streaming stage: the assertion of scanning_finished(), which
\* would have to seek back, is never reached.
THEOREM UnseekableStreamsAtOnceHolds == Spec => []UnseekableStreamsAtOnce
<1>1. Init => UnseekableStreamsAtOnce
  BY DEF Init, MediaScanInit, UnseekableStreamsAtOnce, PayloadLocated, NoPayload
<1>2. UnseekableStreamsAtOnce /\ [Next]_vars => UnseekableStreamsAtOnce'
  <2>. SUFFICES ASSUME UnseekableStreamsAtOnce, [Next]_vars PROVE UnseekableStreamsAtOnce'
    OBVIOUS
  <2>1. CASE UNCHANGED <<medium, parse_stage, payload>>
    BY <2>1 DEF UnseekableStreamsAtOnce, PayloadLocated
  <2>2. ASSUME ScanningFinished, UNCHANGED <<medium, payload>> PROVE UnseekableStreamsAtOnce'
    BY <2>2 DEF UnseekableStreamsAtOnce, PayloadLocated, ScanningFinished, FinishWithoutPayload,
       FinishByRewinding, FinishBySeekingUpstream, StartStreamingAt
  <2>3. CASE ParsePayload
    BY <2>3 DEF ParsePayload, ReportPayloadFound, Parsing, Dispatch, UnseekableStreamsAtOnce
  <2>4. CASE UpstreamSegment
    BY <2>4 DEF UpstreamSegment, HandleSinkSegment, StartStreamingAt, UnseekableStreamsAtOnce,
       PayloadLocated, Scanning
  <2>5. CASE EndOfStream
    BY <2>2, <2>5 DEF EndOfStream, ScanningFinished, Scanning
  <2>6. CASE HandleCorruptedChunkStructure
    BY <2>1, <2>2, <2>6 DEF HandleCorruptedChunkStructure
  <2>7. CASE PopForm
    BY <2>2, <2>7 DEF PopForm, EraseElement
  <2>8. CASE UNCHANGED vars
    BY <2>1, <2>8 DEF vars
  <2>. QED
    BY <2>1, <2>3, <2>4, <2>5, <2>6, <2>7, <2>8 DEF Next, StreamingThread, Upstream, ParseChunkContent,
       FinishChunkParsing, NoFurtherSubchunk, HeaderNotRead, ParseChunkStart, SkipUnknownChunk,
       PrefixNotRead, ParseLeaf, ParseForm, ParseContainer, ReadTextLength, ResumeText, ReadText,
       PayloadUnusable, PayloadReportedAgain, RetryFinish, Settle, SkipPadByte, PopFinishedChunks,
       KeepElement, PopPlainChunk, PopProperties, EraseElement, EndOfStack, ScanInfoReturned,
       ChainReturns, ScanIsOver, Deliver, Parsing, Dispatch
<1>. QED BY <1>1, <1>2, PTL DEF Spec

===============================================================================
