--------------------------- MODULE ScanOutcomeProofs ---------------------------
(***************************************************************************)
(* The theorems about the outcome of a scan: OutcomeInv holds initially    *)
(* and, together with ScanInv, every step keeps it (a lemma for every part *)
(* of it), and with it the properties about where playback starts, what    *)
(* scan_info() returns and what a finished chunk holds.                    *)
(***************************************************************************)
EXTENDS ScanOutcomeInvariant, ChunkParseProofs

-------------------------------------------------------------------------------
(***************************************************************************)
(* What a read and a skip do                                               *)
(***************************************************************************)

\* A read in scan_info(): forward by what is read, or nothing at all; it only runs out of
\* data in push mode.
LEMMA ReadOutcome ==
  ASSUME ScanInv, pc \in {"loop", "text"}, Scanning, Pushing => pending_segment_start = NoSegment,
         NEW n \in UInt64, NEW ret, Read(n, ret)
  PROVE  /\ byte_position' \in UInt64 /\ byte_position <= byte_position'
         /\ UNCHANGED pending_segment_start
         /\ ret = "OK" => byte_position' = byte_position + n
         /\ ret # "OK" => byte_position' = byte_position
         /\ ret = "NOT_ENOUGH_DATA" => Pushing
         /\ ret \in {"OK", "NOT_ENOUGH_DATA", "ADVANCE_OUT_OF_BOUNDS", "EOS"}
<1>1. TypeOK /\ InputIsAligned
  BY DEF ScanInv, ControlInv, InputInv, InputIsAligned
<1>2. /\ byte_position' \in UInt64 /\ byte_position <= byte_position'
      /\ UNCHANGED pending_segment_start
      /\ ret = "OK" => byte_position' = byte_position + n
  BY <1>1, ReadEffect
<1>. QED BY <1>2 DEF Read, ReadReturnCode, io_vars

\* A skip inside the innermost chunk: by consuming what there is, or by a seek of upstream
\* that ends at the medium's end, at once or with the segment; or refused by upstream.
LEMMA SkipOutcome ==
  ASSUME ScanInv, Scanning, m_stack # << >>, flow_ret # "ERROR",
         NEW n \in UInt64, NEW force \in BOOLEAN, NEW ret, NEW skipped,
         Skip(n, force, ret, skipped),
         SkipsBySeeking(n, force) => pending_segment_start = NoSegment,
         byte_position + n <= Front.payload_end_pos
  PROVE  /\ skipped \in 0 .. n
         /\ ~Pushing => skipped = n /\ ret = "OK"
         /\ skipped # n => skipped = available /\ available < n
         /\ \/ /\ ret = "OK"
               /\ byte_position' = byte_position + skipped
               /\ UNCHANGED pending_segment_start
            \/ /\ ret = "OK" /\ Pushing /\ skipped = n /\ SkipsBySeeking(n, force)
               /\ \/ /\ pending_segment_start' = NoSegment
                     /\ byte_position' = Lesser(byte_position + n, medium.size)
                  \/ /\ pending_segment_start' = Lesser(byte_position + n, medium.size)
                     /\ byte_position' = byte_position + n
            \/ /\ ret = "ERROR" /\ UNCHANGED <<byte_position, pending_segment_start>>
<1>. USE WidthAssumption DEF UInt64
<1>0. /\ TypeOK /\ Front.payload_end_pos \in UInt64 /\ medium.size \in UInt64
      /\ byte_position \in UInt64 /\ available \in UInt64
      /\ byte_position + n \in UInt64
  BY FrontType, MediumType, WidthAssumption DEF ScanInv, TypeOK
<1>1. skipped \in 0 .. n /\ (skipped # n => skipped = available /\ available < n)
  BY <1>0 DEF Skip, SkipsPartially, SkipsByConsuming
<1>2. byte_position + skipped \in UInt64 /\ Wrap(byte_position + skipped) = byte_position + skipped
        /\ Wrap(byte_position + n) = byte_position + n
  BY <1>0, <1>1, WrapIdentity
<1>3. VerifyAdvance(byte_position, skipped)
  BY <1>0, <1>1, <1>2 DEF VerifyAdvance
<1>4. CASE ~SkipsBySeeking(n, force)
  <2>1. ret = "OK" /\ Consume(skipped)
    BY <1>3, <1>4 DEF Skip
  <2>2. byte_position' = byte_position + skipped /\ UNCHANGED pending_segment_start
    BY <1>2, <2>1 DEF Consume
  <2>3. ~Pushing => skipped = n
    BY <1>4 DEF Skip, SkipsPartially, SkipsByConsuming
  <2>. QED BY <1>1, <2>1, <2>2, <2>3
<1>5. CASE SkipsBySeeking(n, force)
  <2>1. Pushing /\ skipped = n /\ SeekForward(n, ret)
    BY <1>3, <1>5 DEF Skip, SkipsBySeeking, SkipsByConsuming
  <2>. QED BY <1>1, <1>2, <1>5, <2>1 DEF SeekForward, UpstreamSeek
<1>. QED BY <1>4, <1>5

-------------------------------------------------------------------------------
(***************************************************************************)
(* The kinds of steps, for the parts about the stage, the input and the    *)
(* payload                                                                 *)
(***************************************************************************)

InputUnchanged == UNCHANGED <<medium, io_vars, parse_stage, payload>>

\* While scanning, a step reads or skips, or has the scan wait for a segment.
ScansOn ==
  /\ Scanning /\ flow_ret # "ERROR"
  /\ UNCHANGED <<medium, parse_stage, payload>>
  /\ byte_position' \in UInt64 /\ byte_position <= byte_position'
  /\ Pushing => \/ UNCHANGED <<byte_position, pending_segment_start>>
                \/ pending_segment_start = NoSegment /\ pending_segment_start' = NoSegment
                \/ pending_segment_start' \in {byte_position', medium.size}

\* What Lesser() gives is one of the two.
LEMMA LesserIsEither == ASSUME NEW a, NEW b PROVE Lesser(a, b) \in {a, b}
BY DEF Lesser

\* The steps that skip: of an unknown chunk, and of a pad byte.
LEMMA SkipUnknownChunkOutcome ==
  ASSUME ScanInv, SkipUnknownChunk
  PROVE  /\ ScansOn
         /\ m_stack # << >> /\ Scanning /\ byte_position < Front.payload_end_pos
         /\ pc' = "settle" /\ scan_from' = byte_position /\ UNCHANGED <<m_stack, pop_vars, prop_vars>>
         /\ \/ /\ flow_ret' = "OK" /\ chunk_parse_stage' = "FinishingChunk"
               /\ byte_position < byte_position' \/ byte_position' = medium.size
               /\ byte_position < byte_position' \/ byte_position' < Front.payload_end_pos
            \/ /\ flow_ret' = "OK" /\ UNCHANGED chunk_parse_stage
               /\ byte_position < byte_position'
            \/ flow_ret' = "NOT_ENOUGH_DATA" /\ Pushing /\ UNCHANGED chunk_parse_stage
            \/ flow_ret' = "ERROR" /\ UNCHANGED chunk_parse_stage
<1>. USE DEF UInt64
<1>1. PICK ret \in FlowReturns, skipped \in {NumRemaining, available} :
        /\ Skip(NumRemaining, FALSE, ret, skipped)
        /\ Returns(IF ret = "OK" /\ skipped = 0 THEN "NOT_ENOUGH_DATA" ELSE ret)
        /\ chunk_parse_stage' = IF ret = "OK" /\ skipped = NumRemaining THEN "FinishingChunk"
                                                                        ELSE chunk_parse_stage
  BY DEF SkipUnknownChunk
<1>2. /\ Dispatch("ParsingChunkContent") /\ ~Known(Front.fourcc)
      /\ UNCHANGED <<parse_stage, payload, m_stack, prop_vars>>
  BY DEF SkipUnknownChunk
<1>3. /\ flow_ret # "ERROR" /\ Scanning /\ m_stack # << >>
      /\ Pushing => pending_segment_start = NoSegment
      /\ UNCHANGED <<medium, pop_vars>> /\ scan_from' = byte_position
      /\ chunk_parse_stage = "ParsingChunkContent"
  BY <1>2, DispatchFacts
<1>4. /\ NumRemaining \in UInt64 /\ byte_position \in UInt64 /\ Front.payload_end_pos \in UInt64
      /\ byte_position + NumRemaining = Front.payload_end_pos
      /\ byte_position < Front.payload_end_pos
  BY <1>2, <1>3, RemainingBytes DEF ScanInv, ContentInv
<1>5. byte_position' \in UInt64 /\ byte_position <= byte_position' /\ medium.size \in UInt64
  <2>1. SkipsBySeeking(NumRemaining, FALSE) => pending_segment_start = NoSegment
    BY <1>3 DEF SkipsBySeeking, SkipsByConsuming
  <2>2. TypeOK /\ InputIsAligned
    BY <1>3 DEF ScanInv, InputInv, InputIsAligned
  <2>3. byte_position + NumRemaining <= Front.payload_end_pos
    BY <1>4
  <2>. QED BY <1>1, <1>3, <1>4, <2>1, <2>2, <2>3, SkipEffect, MediumType
<1>6. /\ skipped \in 0 .. NumRemaining
      /\ ~Pushing => skipped = NumRemaining /\ ret = "OK"
      /\ \/ /\ ret = "OK"
            /\ byte_position' = byte_position + skipped
            /\ UNCHANGED pending_segment_start
         \/ /\ ret = "OK" /\ Pushing /\ skipped = NumRemaining
            /\ \/ /\ pending_segment_start' = NoSegment
                  /\ byte_position' = Lesser(byte_position + NumRemaining, medium.size)
               \/ /\ pending_segment_start' = Lesser(byte_position + NumRemaining, medium.size)
                  /\ byte_position' = byte_position + NumRemaining
         \/ /\ ret = "ERROR" /\ UNCHANGED <<byte_position, pending_segment_start>>
  <2>1. SkipsBySeeking(NumRemaining, FALSE) => pending_segment_start = NoSegment
    BY <1>3 DEF SkipsBySeeking, SkipsByConsuming
  <2>2. byte_position + NumRemaining <= Front.payload_end_pos
    BY <1>4
  <2>. QED BY <1>1, <1>3, <1>4, <2>1, <2>2, SkipOutcome
<1>. HIDE DEF NumRemaining
<1>7. ScansOn
  BY <1>2, <1>3, <1>4, <1>5, <1>6, LesserIsEither DEF ScansOn
<1>8. /\ pc' = "settle"
      /\ ret = "OK" /\ skipped # 0 => flow_ret' = "OK"
      /\ ret = "OK" /\ skipped = 0 => flow_ret' = "NOT_ENOUGH_DATA"
      /\ ret = "ERROR" => flow_ret' = "ERROR"
  BY <1>1 DEF Returns
<1>9. NumRemaining > 0
  BY <1>4
<1>10. CASE ret = "OK" /\ skipped # 0 /\ skipped # NumRemaining
  <2>1. byte_position' = byte_position + skipped
    BY <1>6, <1>10
  <2>2. byte_position < byte_position'
    BY <1>4, <1>6, <1>10, <2>1
  <2>. QED BY <1>1, <1>2, <1>3, <1>4, <1>7, <1>8, <1>10, <2>2
<1>11. CASE ret = "OK" /\ skipped = 0
  BY <1>1, <1>2, <1>3, <1>4, <1>6, <1>7, <1>8, <1>9, <1>11
<1>12. CASE ret = "OK" /\ skipped = NumRemaining
  <2>1. \/ byte_position' = byte_position + NumRemaining
        \/ byte_position' = medium.size
    BY <1>6, <1>12, LesserIsEither
  <2>2. byte_position < byte_position' \/ byte_position' = medium.size
    BY <1>4, <1>5, <1>9, <2>1
  <2>3. byte_position < byte_position' \/ byte_position' < Front.payload_end_pos
    BY <1>4, <1>5
  <2>. QED BY <1>1, <1>2, <1>3, <1>4, <1>7, <1>8, <1>9, <1>12, <2>2, <2>3
<1>13. CASE ret = "ERROR"
  BY <1>1, <1>2, <1>3, <1>4, <1>7, <1>8, <1>13
<1>. QED BY <1>6, <1>10, <1>11, <1>12, <1>13

LEMMA SkipPadByteOutcome ==
  ASSUME ScanInv, SkipPadByte
  PROVE  /\ ScansOn
         /\ m_stack # << >> /\ pc = "finish" /\ chunk_parse_stage = "FinishingChunk"
         /\ Front.payload_end_pos - byte_position = 1
         /\ byte_position \in UInt64 /\ Front.payload_end_pos \in UInt64
         /\ UNCHANGED <<stack_vars, prop_vars, pop_vars, scan_from>>
         /\ \/ UNCHANGED <<pc, flow_ret>> /\ byte_position' = byte_position + 1
            \/ /\ pc' = "scanned" /\ flow_ret' = "NOT_ENOUGH_DATA" /\ Pushing
               /\ UNCHANGED byte_position
<1>. USE DEF UInt64
<1>1. PICK ret \in FlowReturns, skipped \in {1, available} :
        /\ Skip(1, FALSE, ret, skipped)
        /\ IF ret = "OK" /\ skipped = 1
           THEN UNCHANGED <<pc, flow_ret>>
           ELSE pc' = "scanned" /\ flow_ret' = IF ret = "OK" THEN "NOT_ENOUGH_DATA" ELSE ret
  BY DEF SkipPadByte
<1>2. /\ pc = "finish" /\ Front.payload_end_pos - byte_position = 1
      /\ UNCHANGED <<medium, parse_stage, payload, stack_vars, prop_vars, pop_vars, scan_from>>
  BY DEF SkipPadByte, OnPadByte
<1>3. /\ Scanning /\ m_stack # << >> /\ chunk_parse_stage = "FinishingChunk" /\ flow_ret # "ERROR"
  BY <1>2 DEF ScanInv, ControlInv, HasChunk
<1>4. ~SkipsBySeeking(1, FALSE)
  BY SeekThresholdAssumption DEF SkipsBySeeking, SkipsPartially
<1>5. /\ byte_position \in UInt64 /\ Front.payload_end_pos \in UInt64 /\ available \in UInt64
      /\ byte_position + 1 <= Front.payload_end_pos /\ 1 \in UInt64
  BY <1>2, <1>3, RemainingBytes, WidthAssumption DEF ScanInv, TypeOK
<1>6. /\ skipped \in 0 .. 1
      /\ ~Pushing => skipped = 1 /\ ret = "OK"
      /\ ret = "OK" /\ byte_position' = byte_position + skipped /\ UNCHANGED pending_segment_start
      /\ Pushing => skipped <= available
  <2>1. /\ skipped \in 0 .. 1
        /\ ~Pushing => skipped = 1 /\ ret = "OK"
        /\ \/ /\ ret = "OK"
              /\ byte_position' = byte_position + skipped
              /\ UNCHANGED pending_segment_start
           \/ ret = "ERROR"
    BY <1>1, <1>3, <1>4, <1>5, SkipOutcome
  <2>2. ret # "ERROR" /\ (Pushing => skipped <= available)
    BY <1>1, <1>4, <1>5 DEF Skip, SkipsBySeeking, SkipsByConsuming, SkipsPartially
  <2>. QED BY <2>1, <2>2
<1>7. Pushing /\ pending_segment_start # NoSegment => available = 0
  BY <1>3 DEF ScanInv, InputInv
<1>8. ScansOn
  <2>1. byte_position' = byte_position \/ byte_position' = byte_position + 1
    BY <1>5, <1>6
  <2>2. byte_position' \in UInt64 /\ byte_position <= byte_position'
    BY <1>5, <2>1, WidthAssumption
  <2>3. Pushing /\ pending_segment_start # NoSegment => byte_position' = byte_position
    BY <1>5, <1>6, <1>7
  <2>. QED BY <1>2, <1>3, <1>6, <2>2, <2>3 DEF ScansOn
<1>9. skipped = 1 \/ (skipped = 0 /\ byte_position' = byte_position)
  BY <1>5, <1>6
<1>. QED BY <1>1, <1>2, <1>3, <1>5, <1>6, <1>8, <1>9

\* The payload is reported where its first byte is read, and skipped or streamed.
LEMMA ParsePayloadOutcome ==
  ASSUME ScanInv, ContentLeftInv, ParsePayload
  PROVE  /\ Scanning /\ flow_ret # "ERROR" /\ ~PayloadLocated
         /\ PayloadLocated' /\ payload'.position = byte_position
         /\ UNCHANGED <<medium, m_stack, prop_vars, pop_vars>>
         /\ scan_from' = byte_position /\ pc' = "settle"
         /\ chunk_parse_stage = "ParsingChunkContent"
         /\ Front.fourcc \notin RequiredFields
         /\ \/ flow_ret' = "NOTHING_TO_READ" /\ chunk_parse_stage' = "FinishingChunk"
            \/ flow_ret' = "ERROR" /\ UNCHANGED chunk_parse_stage
         /\ Pushing => /\ pending_segment_start = NoSegment
                       /\ upstream_position = byte_position + available
                       /\ byte_position <= medium.size
         /\ \/ parse_stage' = "Streaming" /\ UNCHANGED io_vars
            \/ /\ UNCHANGED parse_stage
               /\ byte_position' \in UInt64 /\ byte_position <= byte_position'
               /\ flow_ret' # "ERROR" =>
                    byte_position < byte_position' \/ (Pushing /\ byte_position' = medium.size)
               /\ Pushing => pending_segment_start' \in {NoSegment, byte_position', medium.size}
<1>. USE DEF UInt64
<1>. DEFINE n == Lesser(Front.size, NumAvailable)
<1>1. /\ Dispatch("ParsingChunkContent") /\ Known(Front.fourcc)
      /\ Descriptions[Front.fourcc].parse = "Payload"
      /\ NumAvailable >= FrameSize
      /\ UNCHANGED <<m_stack, prop_vars>>
  BY DEF ParsePayload, Parsing
<1>2. PICK ret \in FlowReturns :
        /\ ReportPayloadFound(n, Front.size > NumAvailable, ret)
        /\ Returns(IF ret = "OK" THEN "NOTHING_TO_READ" ELSE ret)
        /\ chunk_parse_stage' = IF ret = "OK" THEN "FinishingChunk" ELSE chunk_parse_stage
  BY DEF ParsePayload
<1>3. /\ flow_ret # "ERROR" /\ Scanning /\ m_stack # << >> /\ InputIsAligned
      /\ chunk_parse_stage = "ParsingChunkContent"
      /\ Pushing => pending_segment_start = NoSegment
      /\ UNCHANGED <<medium, pop_vars>> /\ scan_from' = byte_position
  BY <1>1, DispatchFacts
<1>4. TypeOK /\ byte_position \in UInt64 /\ available \in UInt64 /\ medium.size \in UInt64
  BY MediumType DEF ScanInv, TypeOK
<1>5. n \in UInt64 /\ n > 0 /\ byte_position + n <= Front.payload_end_pos
  <2>1. byte_position = Front.payload_begin_pos
    BY <1>1, <1>3 DEF ScanInv, ContentInv
  <2>2. Front.payload_begin_pos + Front.size <= Front.payload_end_pos
    BY <1>3, <1>4, FrontType DEF ScanInv, SizesFit, Front
  <2>3. NumAvailable \in UInt64
    <3>1. upstream_size - byte_position \in Int
      BY <1>4, WidthAssumption DEF TypeOK
    <3>. QED BY <3>1, WrapType DEF NumAvailable
  <2>4. NumAvailable > 0
    <3>1. FrameSize \in UInt64 /\ FrameSize # 0
      BY HeaderAssumption
    <3>. QED BY <1>1, <2>3, <3>1, WidthAssumption
  <2>5. Front.size > 0
    BY <1>3 DEF ContentLeftInv
  <2>. HIDE DEF NumAvailable
  <2>. QED BY <1>3, <1>4, <2>1, <2>2, <2>3, <2>4, <2>5, FrontType DEF Lesser
<1>. HIDE DEF n
<1>6. /\ ~PayloadLocated
      /\ payload' = [position |-> byte_position, size |-> n]
  BY <1>2 DEF ReportPayloadFound
<1>7. PayloadLocated' /\ payload'.position = byte_position
  BY <1>5, <1>6 DEF PayloadLocated
<1>8. Front.fourcc \notin RequiredFields
  BY <1>1, TableAssumption
<1>9. Pushing => /\ upstream_position = byte_position + available
                 /\ byte_position <= medium.size
  BY <1>3, <1>4 DEF InputIsAligned
<1>10. CASE parse_stage' = "Streaming" /\ UNCHANGED io_vars /\ ret \in {"OK", "ERROR"}
  BY <1>1, <1>2, <1>3, <1>6, <1>7, <1>8, <1>9, <1>10 DEF Returns
<1>11. CASE UNCHANGED parse_stage /\ medium.seekable /\ \E skipped \in {n, available} : Skip(n, TRUE, ret, skipped)
  <2>1. PICK skipped \in {n, available} : Skip(n, TRUE, ret, skipped)
    BY <1>11
  <2>2. SkipsBySeeking(n, TRUE) => pending_segment_start = NoSegment
    BY <1>3 DEF SkipsBySeeking, SkipsByConsuming
  <2>3. /\ byte_position' \in UInt64 /\ byte_position <= byte_position'
    BY <1>3, <1>4, <1>5, <2>1, <2>2, SkipEffect
  <2>4. skipped = n
    BY <1>11, <2>1 DEF Skip, SkipsPartially
  <2>5. \/ /\ ret = "OK"
           /\ byte_position' = byte_position + n
           /\ UNCHANGED pending_segment_start
        \/ /\ ret = "OK" /\ Pushing
           /\ \/ /\ pending_segment_start' = NoSegment
                 /\ byte_position' = Lesser(byte_position + n, medium.size)
              \/ /\ pending_segment_start' = Lesser(byte_position + n, medium.size)
                 /\ byte_position' = byte_position + n
        \/ /\ ret = "ERROR" /\ UNCHANGED <<byte_position, pending_segment_start>>
    BY <1>3, <1>5, <2>1, <2>2, <2>4, SkipOutcome
  <2>6. /\ ret = "OK" => byte_position < byte_position' \/ (Pushing /\ byte_position' = medium.size)
        /\ Pushing => pending_segment_start' \in {NoSegment, byte_position', medium.size}
    BY <1>3, <1>4, <1>5, <2>5, LesserIsEither
  <2>7. ret \in {"OK", "ERROR"}
    BY <2>5
  <2>8. /\ pc' = "settle"
        /\ \/ ret = "OK" /\ flow_ret' = "NOTHING_TO_READ" /\ chunk_parse_stage' = "FinishingChunk"
           \/ ret = "ERROR" /\ flow_ret' = "ERROR" /\ UNCHANGED chunk_parse_stage
    BY <1>2, <2>7 DEF Returns
  <2>. QED BY <1>1, <1>3, <1>6, <1>7, <1>8, <1>9, <1>11, <2>3, <2>6, <2>8
<1>. QED BY <1>2, <1>10, <1>11 DEF ReportPayloadFound

\* Every read of a fixed size, or of a text, scans on.
LEMMA ReadScansOn ==
  ASSUME ScanInv, pc \in {"loop", "text"}, Scanning, Pushing => pending_segment_start = NoSegment,
         UNCHANGED <<medium, parse_stage, payload>>,
         NEW n \in UInt64, NEW ret, Read(n, ret)
  PROVE  ScansOn
<1>1. flow_ret # "ERROR"
  BY DEF ScanInv, ControlInv
<1>. QED BY <1>1, ReadOutcome DEF ScansOn

\* What stands at a text.
LEMMA TextFacts ==
  ASSUME ScanInv, pc = "text"
  PROVE  /\ Scanning /\ chunk_parse_stage = "ParsingChunkContent" /\ flow_ret # "ERROR"
         /\ Known(Front.fourcc) /\ Descriptions[Front.fourcc].parse = "Text"
         /\ Pushing => pending_segment_start = NoSegment
         /\ m_stack # << >>
         /\ Front.fourcc \in Fourccs
         /\ TextLength \in UInt64 \cup {NotRead}
<1>1. /\ Scanning /\ chunk_parse_stage = "ParsingChunkContent" /\ flow_ret # "ERROR"
      /\ Known(Front.fourcc) /\ Descriptions[Front.fourcc].parse = "Text"
      /\ Pushing => pending_segment_start = NoSegment
      /\ m_stack # << >>
  BY DEF ScanInv, ControlInv, InputInv, HasChunk
<1>2. Front.fourcc \in Fourccs /\ TextLength \in UInt64 \cup {NotRead}
  BY <1>1, DescriptionType DEF ScanInv, TypeOK, TextLength
<1>. QED BY <1>1, <1>2

\* Every step is of one of these kinds.
LEMMA ScanSteps ==
  ASSUME ScanInv, Next
  PROVE  \/ InputUnchanged /\ (flow_ret = "ERROR" => flow_ret' = "ERROR")
         \/ ScansOn
         \/ ScanningFinished /\ UNCHANGED <<medium, payload>>
         \/ ParsePayload \/ UpstreamSegment \/ ChainReturns
<1>1. CASE ParseChunkStart
  BY <1>1, DispatchFacts, HeaderAssumption, ReadScansOn DEF ParseChunkStart
<1>2. CASE SkipUnknownChunk
  BY <1>2, SkipUnknownChunkOutcome
<1>3. CASE ParseLeaf
  BY <1>3, DispatchFacts, PrefixType, ReadScansOn DEF ParseLeaf, Parsing
<1>4. CASE ParseForm
  BY <1>4, DispatchFacts, PrefixType, ReadScansOn DEF ParseForm, Parsing
<1>5. CASE ReadTextLength
  BY <1>5, DispatchFacts, PrefixType, ReadScansOn DEF ReadTextLength, Parsing
<1>6. CASE ReadText
  <2>1. /\ pc = "text" /\ UNCHANGED <<medium, parse_stage, payload>>
        /\ UNCHANGED io_vars \/ (TextLength > 0 /\ \E ret \in FlowReturns : Read(TextLength, ret))
    BY <1>6 DEF ReadText
  <2>2. TextLength > 0 => TextLength \in UInt64
    BY <2>1, TextFacts DEF NotRead
  <2>. QED BY <2>1, <2>2, TextFacts, ReadScansOn DEF InputUnchanged
<1>7. CASE SkipPadByte
  BY <1>7, SkipPadByteOutcome
<1>8. CASE Deliver
  <2>1. /\ Scanning /\ flow_ret # "ERROR" /\ byte_position \in UInt64
        /\ UNCHANGED <<medium, byte_position, pending_segment_start, parse_stage, payload>>
    BY <1>8 DEF Deliver, ScanInv, TypeOK, ControlInv
  <2>. QED BY <2>1 DEF ScansOn, UInt64
<1>9. CASE HandleCorruptedChunkStructure
  BY <1>9 DEF HandleCorruptedChunkStructure, InputUnchanged
<1>10. CASE PopForm
  BY <1>10 DEF PopForm, EraseElement
<1>11. CASE EndOfStream
  BY <1>11 DEF EndOfStream, ScanningFinished, Scanning
<1>12. CASE NoFurtherSubchunk \/ HeaderNotRead \/ PrefixNotRead \/ ParseContainer \/ ResumeText
            \/ PayloadUnusable \/ PayloadReportedAgain \/ RetryFinish
  <2>1. flow_ret # "ERROR" /\ UNCHANGED medium
    BY <1>12, DispatchFacts DEF NoFurtherSubchunk, HeaderNotRead, PrefixNotRead, ParseContainer,
       ResumeText, PayloadUnusable, PayloadReportedAgain, RetryFinish, Parsing
  <2>2. UNCHANGED <<io_vars, parse_stage, payload>>
    BY <1>12 DEF NoFurtherSubchunk, HeaderNotRead, PrefixNotRead, ParseContainer,
       ResumeText, PayloadUnusable, PayloadReportedAgain, RetryFinish, Read
  <2>. QED BY <2>1, <2>2 DEF InputUnchanged
<1>13. CASE Settle \/ PopFinishedChunks \/ KeepElement \/ PopPlainChunk \/ PopProperties \/ EndOfStack
            \/ ScanInfoReturned \/ ScanIsOver
  BY <1>13 DEF Settle, PopFinishedChunks, KeepElement, PopPlainChunk, PopProperties, EndOfStack,
     ScanInfoReturned, ScanIsOver, EraseElement, InputUnchanged
<1>. QED
  BY <1>1, <1>2, <1>3, <1>4, <1>5, <1>6, <1>7, <1>8, <1>9, <1>10, <1>11, <1>12, <1>13
     DEF Next, StreamingThread, Upstream, ParseChunkContent, FinishChunkParsing

-------------------------------------------------------------------------------
(***************************************************************************)
(* The parts of the invariant, one by one                                  *)
(***************************************************************************)

\* The end of the scan has upstream in step with the byte position, or the segment that
\* is due start at the payload.
LEMMA ScanningFinishedStream ==
  ASSUME TypeOK, StreamInv, PayloadInv, ScanningFinished, UNCHANGED <<medium, payload>>
  PROVE  StreamInv'
<1>1. Pushing => Lesser(payload.position, medium.size) = payload.position
  BY DEF PayloadInv, Lesser
<1>2. CASE parse_stage = "Streaming" /\ UNCHANGED <<parse_stage, io_vars>>
  BY <1>2 DEF StreamInv, io_vars, Pushing
<1>3. CASE FinishWithoutPayload
  BY <1>3 DEF FinishWithoutPayload, StreamInv
<1>4. CASE FinishByRewinding
  BY <1>4 DEF FinishByRewinding, StartStreamingAt, StreamInv, Pushing
<1>5. CASE FinishBySeekingUpstream
  <2>1. payload.position \in UInt64
    BY DEF TypeOK
  <2>. QED BY <1>1, <1>5, <2>1 DEF FinishBySeekingUpstream, StartStreamingAt, UpstreamSeek, StreamInv, Pushing,
         PayloadLocated, UInt64
<1>. QED BY <1>2, <1>3, <1>4, <1>5 DEF ScanningFinished

LEMMA StreamStep == ASSUME ScanInv, StreamInv, PayloadInv, ContentLeftInv, Next PROVE StreamInv'
<1>1. CASE InputUnchanged
  BY <1>1 DEF InputUnchanged, io_vars, StreamInv, Pushing, PayloadLocated
<1>2. CASE ScansOn
  BY <1>2 DEF ScansOn, StreamInv, Scanning
<1>3. CASE ScanningFinished /\ UNCHANGED <<medium, payload>>
  BY <1>3, ScanningFinishedStream DEF ScanInv
<1>4. CASE ParsePayload
  <2>1. CASE parse_stage' = "Streaming" /\ UNCHANGED io_vars
    BY <1>4, <2>1, ParsePayloadOutcome DEF StreamInv, io_vars, Pushing
  <2>2. CASE UNCHANGED parse_stage
    BY <1>4, <2>2, ParsePayloadOutcome DEF StreamInv, Scanning
  <2>. QED BY <1>4, <2>1, <2>2, ParsePayloadOutcome
<1>5. CASE UpstreamSegment
  <2>1. HandleSinkSegment /\ UNCHANGED <<medium, payload>>
    BY <1>5 DEF UpstreamSegment
  <2>2. payload.position \in UInt64 /\ pending_segment_start' = NoSegment /\ UNCHANGED upstream_position
    BY <2>1 DEF ScanInv, TypeOK, HandleSinkSegment
  <2>. QED BY <2>1, <2>2 DEF HandleSinkSegment, StartStreamingAt, StreamInv, Scanning, Pushing, UInt64
<1>6. CASE ChainReturns
  BY <1>6 DEF ChainReturns, StreamInv, Pushing, PayloadLocated
<1>. QED BY <1>1, <1>2, <1>3, <1>4, <1>5, <1>6, ScanSteps

LEMMA PendingStep == ASSUME ScanInv, PendingInv, ContentLeftInv, Next PROVE PendingInv'
<1>1. CASE InputUnchanged /\ (flow_ret = "ERROR" => flow_ret' = "ERROR")
  BY <1>1 DEF InputUnchanged, io_vars, PendingInv, Pushing, Scanning
<1>2. CASE ScansOn
  BY <1>2 DEF ScansOn, PendingInv, Pushing, Scanning
<1>3. CASE ScanningFinished /\ UNCHANGED <<medium, payload>>
  BY <1>3, ScanningFinishedEffect DEF ScanInv, InputInv, PendingInv
<1>4. CASE ParsePayload
  BY <1>4, ParsePayloadOutcome DEF PendingInv, Scanning, Pushing
<1>5. CASE UpstreamSegment
  BY <1>5 DEF UpstreamSegment, HandleSinkSegment, PendingInv
<1>6. CASE ChainReturns
  <2>1. flow_ret # "ERROR" /\ flow_ret' = flow_ret
    BY <1>6 DEF ChainReturns, ScanInv, ControlInv
  <2>. QED BY <1>6, <2>1 DEF ChainReturns, PendingInv, Pushing, Scanning
<1>. QED BY <1>1, <1>2, <1>3, <1>4, <1>5, <1>6, ScanSteps

LEMMA PayloadStep == ASSUME ScanInv, PayloadInv, PendingInv, ContentLeftInv, Next PROVE PayloadInv'
<1>0. /\ payload.position \in UInt64 /\ byte_position \in UInt64 /\ medium.size \in UInt64
      /\ 0 \in UInt64
  BY MediumType, WidthAssumption DEF ScanInv, TypeOK, UInt64
<1>1. CASE InputUnchanged /\ (flow_ret = "ERROR" => flow_ret' = "ERROR")
  BY <1>1 DEF InputUnchanged, io_vars, PayloadInv, Pushing, Scanning, PayloadLocated
<1>2. CASE ScansOn
  BY <1>0, <1>2 DEF ScansOn, PayloadInv, Pushing, Scanning, PayloadLocated, UInt64
<1>3. CASE ScanningFinished /\ UNCHANGED <<medium, payload>>
  BY <1>3, ScanningFinishedEffect DEF ScanInv, InputInv, PayloadInv, Pushing
<1>4. CASE ParsePayload
  BY <1>4, ParsePayloadOutcome DEF PayloadInv, Scanning, Pushing
<1>5. CASE UpstreamSegment
  <2>1. /\ HandleSinkSegment /\ pc = "idle" /\ Pushing /\ flow_ret # "ERROR"
        /\ UNCHANGED <<medium, payload, flow_ret>>
    BY <1>5 DEF UpstreamSegment, ScanInv, ControlInv
  <2>2. Scanning' => Scanning /\ byte_position' = pending_segment_start /\ pending_segment_start # NoSegment
    BY <2>1 DEF HandleSinkSegment, StartStreamingAt, Scanning
  <2>. QED BY <1>0, <2>1, <2>2 DEF PayloadInv, PendingInv, Pushing, PayloadLocated, UInt64
<1>6. CASE ChainReturns
  <2>1. flow_ret # "ERROR" /\ flow_ret' = flow_ret
    BY <1>6 DEF ChainReturns, ScanInv, ControlInv
  <2>. QED BY <1>6, <2>1 DEF ChainReturns, PayloadInv, Pushing, Scanning, PayloadLocated
<1>. QED BY <1>1, <1>2, <1>3, <1>4, <1>5, <1>6, ScanSteps

-------------------------------------------------------------------------------
(***************************************************************************)
(* What scan_info() returns, for every step                                *)
(***************************************************************************)

\* What every part of scan_info() that is dispatched to can rely on: in push mode there is
\* something to be read, and a payload that has been found lies behind.
LEMMA DispatchOutcome ==
  ASSUME ScanOutcomeInv, NEW stage, Dispatch(stage)
  PROVE  /\ pc = "loop" /\ flow_ret # "ERROR" /\ Scanning /\ chunk_parse_stage = stage
         /\ Pushing => pending_segment_start = NoSegment /\ byte_position # medium.size
         /\ PayloadLocated => payload.position < byte_position
         /\ stage # "ParsingChunkStart" => m_stack # << >>
         /\ UNCHANGED <<medium, pop_vars>>
         /\ scan_from' = byte_position /\ byte_position \in UInt64 /\ Observing
<1>1. ScanInv /\ PayloadInv
  BY DEF ScanOutcomeInv, OutcomeInv
<1>2. /\ pc = "loop" /\ flow_ret # "ERROR" /\ Scanning /\ chunk_parse_stage = stage
      /\ Pushing => pending_segment_start = NoSegment
      /\ InputIsAligned
      /\ stage # "ParsingChunkStart" => m_stack # << >>
      /\ UNCHANGED <<medium, pop_vars>>
      /\ scan_from' = byte_position
  BY <1>1, DispatchFacts
<1>3. byte_position \in UInt64 /\ available \in UInt64 /\ medium.size \in UInt64
  BY <1>1, MediumType DEF ScanInv, TypeOK
<1>4. Pushing => byte_position # medium.size
  BY <1>2, <1>3 DEF Dispatch, InputIsAligned, UInt64
<1>. QED BY <1>1, <1>2, <1>3, <1>4 DEF PayloadInv, Observing

\* A step that leaves the chunks alone, and finishes a chunk only when it is parsed.
LEMMA SameRecords ==
  ASSUME TypeOK, FieldsInv, ObservedInv, UNCHANGED <<m_stack, num_chars>>, parsed \subseteq parsed',
         Observing' => Observing,
         \/ chunk_parse_stage # "ParsingChunkContent" \/ chunk_parse_stage' = "ParsingChunkContent"
         \/ m_stack = << >> \/ Front.fourcc \notin RequiredFields \/ Front.fourcc \in parsed'
  PROVE  FieldsInv' /\ ObservedInv'
<1>1. Front' = Front
  BY DEF Front
<1>2. ASSUME chunk_parse_stage = "ParsingChunkContent", chunk_parse_stage' # "ParsingChunkContent",
             NEW i \in DOMAIN m_stack
      PROVE  Front.fourcc \notin RequiredFields \/ Front.fourcc \in parsed'
  BY <1>2
<1>3. FieldsInv'
  <2>1. ASSUME NEW i \in DOMAIN m_stack, m_stack[i].fourcc \in RequiredFields,
               i > 1 \/ chunk_parse_stage' # "ParsingChunkContent"
        PROVE  m_stack[i].fourcc \in parsed'
    <3>1. m_stack \in Seq(Chunk) /\ i >= 1
      BY DEF TypeOK
    <3>2. CASE i > 1 \/ chunk_parse_stage # "ParsingChunkContent"
      BY <2>1, <3>2 DEF FieldsInv
    <3>3. CASE i = 1 /\ chunk_parse_stage = "ParsingChunkContent"
      BY <1>2, <2>1, <3>3 DEF Front
    <3>. QED BY <3>1, <3>2, <3>3
  <2>. QED BY <2>1 DEF FieldsInv
<1>4. ObservedInv'
  BY <1>1, <1>2 DEF ObservedInv
<1>. QED BY <1>3, <1>4

\* A part of scan_info() that leaves the chunks alone and returns to where it was dispatched.
LEMMA PartReturns ==
  ASSUME ScanOutcomeInv, NEW stage, Dispatch(stage), pc' = "settle",
         UNCHANGED <<parse_stage, payload, m_stack, num_chars>>, parsed \subseteq parsed',
         byte_position' \in UInt64, byte_position <= byte_position',
         flow_ret' = "OK" => \/ byte_position < byte_position'
                             \/ chunk_parse_stage' = "FinishingChunk" /\ BeforeEndOfFront',
         flow_ret' = "NOT_ENOUGH_DATA" => Pushing,
         chunk_parse_stage' = "FinishingChunk" => flow_ret' \in {"OK", "NOTHING_TO_READ"},
         chunk_parse_stage' = "ParsingChunkContent" =>
           /\ stage = "ParsingChunkContent"
           /\ \/ flow_ret' = "ERROR" \/ byte_position' = byte_position
              \/ ~(Known(Front.fourcc) /\ Descriptions[Front.fourcc].parse = "Text"),
         stage = "ParsingChunkContent" /\ chunk_parse_stage' # "ParsingChunkContent" =>
           Front.fourcc \notin RequiredFields \/ Front.fourcc \in parsed'
  PROVE  ReturnsInv'
<1>1. /\ pc = "loop" /\ flow_ret # "ERROR" /\ Scanning /\ chunk_parse_stage = stage
      /\ PayloadLocated => payload.position < byte_position
      /\ medium' = medium /\ scan_from' = byte_position /\ Observing
  BY DispatchOutcome
<1>2. Front' = Front /\ Scanning' /\ PayloadLocated' = PayloadLocated /\ Pushing' = Pushing
  BY <1>1 DEF Front, Scanning, PayloadLocated, Pushing
<1>3. ReturnsInv
  BY DEF ScanOutcomeInv, OutcomeInv
<1>4. ContentLeftInv'
  BY <1>1, <1>2, <1>3 DEF ReturnsInv, ContentLeftInv, TextLength, Known
<1>5. RetryInv'
  BY DEF RetryInv
<1>6. ProgressInv'
  BY <1>1, <1>2 DEF ProgressInv, HasMovedForward
<1>7. FlowInv'
  BY <1>2 DEF FlowInv
<1>8. FieldsInv' /\ ObservedInv'
  BY <1>1, <1>3, SameRecords DEF ReturnsInv, ScanOutcomeInv, ScanInv
<1>. QED BY <1>4, <1>5, <1>6, <1>7, <1>8 DEF ReturnsInv

\* The chunks that a required field comes from are leaves, texts or lists.
LEMMA RequiredFieldsAreRead ==
  ASSUME NEW f \in RequiredFields
  PROVE  Known(f) /\ Descriptions[f].parse \in {"Leaf", "Text"} /\ Descriptions[f].size > 0
BY TableAssumption DEF Known

LEMMA NoFurtherSubchunkReturns == ASSUME ScanOutcomeInv, NoFurtherSubchunk PROVE ReturnsInv'
<1>1. /\ Dispatch("ParsingChunkStart") /\ pc' = "settle" /\ flow_ret' = "NOTHING_TO_READ"
      /\ chunk_parse_stage' = "FinishingChunk"
      /\ UNCHANGED <<byte_position, parse_stage, payload, m_stack, num_chars, parsed>>
  BY DEF NoFurtherSubchunk, Returns, io_vars, prop_vars
<1>2. byte_position \in UInt64 /\ byte_position <= byte_position
  BY <1>1, DispatchOutcome DEF UInt64
<1>. QED BY <1>1, <1>2, PartReturns

LEMMA HeaderNotReadReturns == ASSUME ScanOutcomeInv, HeaderNotRead PROVE ReturnsInv'
<1>1. /\ Dispatch("ParsingChunkStart") /\ chunk_parse_stage' = chunk_parse_stage
      /\ UNCHANGED <<parse_stage, payload, m_stack, num_chars, parsed>>
  BY DEF HeaderNotRead, stack_vars, prop_vars
<1>2. PICK ret \in FlowReturns \ {"OK"} : Read(HeaderSize, ret) /\ Returns(ret)
  BY DEF HeaderNotRead
<1>3. /\ ScanInv /\ pc = "loop" /\ Scanning /\ (Pushing => pending_segment_start = NoSegment)
      /\ byte_position \in UInt64 /\ byte_position <= byte_position /\ HeaderSize \in UInt64
      /\ chunk_parse_stage = "ParsingChunkStart"
  BY <1>1, DispatchOutcome, HeaderAssumption DEF ScanOutcomeInv, UInt64
<1>4. byte_position' = byte_position /\ (ret = "NOT_ENOUGH_DATA" => Pushing)
  BY <1>2, <1>3, ReadOutcome
<1>5. pc' = "settle" /\ flow_ret' = ret
  BY <1>2 DEF Returns
<1>. QED BY <1>1, <1>2, <1>3, <1>4, <1>5, PartReturns

LEMMA SkipUnknownChunkReturns == ASSUME ScanOutcomeInv, SkipUnknownChunk PROVE ReturnsInv'
<1>1. /\ Dispatch("ParsingChunkContent") /\ ~Known(Front.fourcc)
      /\ UNCHANGED <<parse_stage, payload, m_stack, num_chars, parsed>>
  BY DEF SkipUnknownChunk, prop_vars
<1>2. ScanInv
  BY DEF ScanOutcomeInv
<1>3. Front.fourcc \notin RequiredFields
  BY <1>1, RequiredFieldsAreRead
<1>4. /\ chunk_parse_stage = "ParsingChunkContent" /\ Front' = Front
  BY <1>1, DispatchOutcome DEF Front
<1>5. /\ byte_position' \in UInt64 /\ byte_position <= byte_position'
      /\ m_stack # << >> /\ pc' = "settle"
      /\ \/ /\ flow_ret' = "OK" /\ chunk_parse_stage' = "FinishingChunk"
            /\ byte_position < byte_position' \/ byte_position' < Front.payload_end_pos
         \/ /\ flow_ret' = "OK" /\ chunk_parse_stage' = chunk_parse_stage
            /\ byte_position < byte_position'
         \/ flow_ret' = "NOT_ENOUGH_DATA" /\ Pushing /\ chunk_parse_stage' = chunk_parse_stage
         \/ flow_ret' = "ERROR" /\ chunk_parse_stage' = chunk_parse_stage
  BY <1>2, SkipUnknownChunkOutcome DEF ScansOn
<1>6. /\ flow_ret' = "OK" => \/ byte_position < byte_position'
                             \/ chunk_parse_stage' = "FinishingChunk" /\ BeforeEndOfFront'
      /\ flow_ret' = "NOT_ENOUGH_DATA" => Pushing
      /\ chunk_parse_stage' = "FinishingChunk" => flow_ret' \in {"OK", "NOTHING_TO_READ"}
  BY <1>1, <1>4, <1>5 DEF BeforeEndOfFront
<1>. QED BY <1>1, <1>3, <1>5, <1>6, PartReturns

LEMMA PrefixNotReadReturns == ASSUME ScanOutcomeInv, PrefixNotRead PROVE ReturnsInv'
<1>1. /\ Dispatch("ParsingChunkContent") /\ Known(Front.fourcc)
      /\ chunk_parse_stage' = chunk_parse_stage
      /\ UNCHANGED <<parse_stage, payload, m_stack, num_chars, parsed>>
  BY DEF PrefixNotRead, Parsing, stack_vars, prop_vars
<1>2. PICK ret \in FlowReturns \ {"OK"} : Read(Prefix, ret) /\ Returns(ret)
  BY DEF PrefixNotRead
<1>3. /\ ScanInv /\ pc = "loop" /\ Scanning /\ (Pushing => pending_segment_start = NoSegment)
      /\ byte_position \in UInt64 /\ byte_position <= byte_position /\ Prefix \in UInt64
      /\ chunk_parse_stage = "ParsingChunkContent"
  BY <1>1, DispatchOutcome, PrefixType DEF ScanOutcomeInv, UInt64
<1>4. byte_position' = byte_position /\ (ret = "NOT_ENOUGH_DATA" => Pushing)
  BY <1>2, <1>3, ReadOutcome
<1>5. pc' = "settle" /\ flow_ret' = ret
  BY <1>2 DEF Returns
<1>. QED BY <1>1, <1>2, <1>3, <1>4, <1>5, PartReturns

\* A read of the fixed part of a chunk's content moves forward.
LEMMA PrefixIsRead ==
  ASSUME ScanOutcomeInv, NEW kind \in {"Leaf", "Form", "Properties", "Text"}, Parsing(kind), Read(Prefix, "OK")
  PROVE  byte_position' \in UInt64 /\ byte_position < byte_position'
<1>1. /\ Dispatch("ParsingChunkContent") /\ Known(Front.fourcc)
      /\ Descriptions[Front.fourcc].parse = kind
  BY DEF Parsing
<1>2. /\ ScanInv /\ pc = "loop" /\ Scanning /\ (Pushing => pending_segment_start = NoSegment)
      /\ byte_position \in UInt64 /\ Prefix \in UInt64
  BY <1>1, DispatchOutcome, PrefixType DEF ScanOutcomeInv
<1>3. Prefix > 0
  BY <1>1, TableAssumption DEF Prefix, Known
<1>4. byte_position' \in UInt64 /\ byte_position' = byte_position + Prefix
  BY <1>2, ReadOutcome
<1>. QED BY <1>2, <1>3, <1>4 DEF UInt64

LEMMA ParseLeafReturns == ASSUME ScanOutcomeInv, ParseLeaf PROVE ReturnsInv'
<1>1. /\ Parsing("Leaf") /\ Dispatch("ParsingChunkContent") /\ pc' = "settle"
      /\ UNCHANGED <<parse_stage, payload, m_stack, num_chars>>
      /\ \/ flow_ret' = "OK" /\ chunk_parse_stage' = "FinishingChunk" /\ parsed' = parsed \cup {Front.fourcc}
         \/ flow_ret' = "ERROR" /\ chunk_parse_stage' = chunk_parse_stage /\ parsed' = parsed
  BY DEF ParseLeaf, Parsing, Returns
<1>2. byte_position' \in UInt64 /\ byte_position < byte_position' /\ byte_position \in UInt64
      /\ chunk_parse_stage = "ParsingChunkContent"
  BY <1>1, PrefixIsRead, DispatchOutcome DEF ParseLeaf
<1>3. byte_position <= byte_position'
  BY <1>2 DEF UInt64
<1>. QED BY <1>1, <1>2, <1>3, PartReturns

LEMMA ParseFormReturns == ASSUME ScanOutcomeInv, ParseForm PROVE ReturnsInv'
<1>1. PICK kind \in {"Form", "Properties"} : Parsing(kind)
  BY DEF ParseForm
<1>2. /\ Dispatch("ParsingChunkContent") /\ pc' = "settle" /\ Known(Front.fourcc)
      /\ Descriptions[Front.fourcc].parse = kind
      /\ UNCHANGED <<parse_stage, payload, m_stack, num_chars, parsed>>
      /\ \/ flow_ret' = "OK" /\ chunk_parse_stage' = "ParsingChunkStart"
         \/ flow_ret' = "ERROR" /\ chunk_parse_stage' = chunk_parse_stage
  BY <1>1 DEF ParseForm, Parsing, Returns
<1>3. byte_position' \in UInt64 /\ byte_position < byte_position' /\ byte_position \in UInt64
      /\ chunk_parse_stage = "ParsingChunkContent"
  BY <1>1, <1>2, PrefixIsRead, DispatchOutcome DEF ParseForm
<1>4. byte_position <= byte_position'
  BY <1>3 DEF UInt64
<1>5. Front.fourcc \notin RequiredFields
  BY <1>2, RequiredFieldsAreRead
<1>. QED BY <1>2, <1>3, <1>4, <1>5, PartReturns

LEMMA ParseContainerReturns == ASSUME ScanOutcomeInv, ParseContainer PROVE ReturnsInv'
<1>1. /\ Dispatch("ParsingChunkContent") /\ pc' = "settle" /\ Known(Front.fourcc)
      /\ Descriptions[Front.fourcc].parse = "Container"
      /\ flow_ret' = "NOTHING_TO_READ" /\ chunk_parse_stage' = "ParsingChunkStart"
      /\ UNCHANGED <<byte_position, parse_stage, payload, m_stack, num_chars, parsed>>
  BY DEF ParseContainer, Parsing, Returns, io_vars, prop_vars
<1>2. byte_position \in UInt64 /\ byte_position <= byte_position
  BY <1>1, DispatchOutcome DEF UInt64
<1>3. Front.fourcc \notin RequiredFields
  BY <1>1, RequiredFieldsAreRead
<1>. QED BY <1>1, <1>2, <1>3, PartReturns

LEMMA PayloadUnusableReturns == ASSUME ScanOutcomeInv, PayloadUnusable PROVE ReturnsInv'
<1>1. /\ Dispatch("ParsingChunkContent") /\ pc' = "settle"
      /\ flow_ret' = "ERROR" /\ chunk_parse_stage' = chunk_parse_stage
      /\ UNCHANGED <<byte_position, parse_stage, payload, m_stack, num_chars, parsed>>
  BY DEF PayloadUnusable, Parsing, Returns, io_vars, prop_vars, stack_vars
<1>2. /\ byte_position \in UInt64 /\ byte_position <= byte_position
      /\ chunk_parse_stage = "ParsingChunkContent"
  BY <1>1, DispatchOutcome DEF UInt64
<1>. QED BY <1>1, <1>2, PartReturns

LEMMA RetryFinishReturns == ASSUME ScanOutcomeInv, RetryFinish PROVE ReturnsInv'
<1>1. /\ Dispatch("FinishingChunk") /\ pc' = "settle"
      /\ flow_ret' = "OK" /\ chunk_parse_stage' = chunk_parse_stage
      /\ UNCHANGED <<byte_position, parse_stage, payload, m_stack, num_chars, parsed>>
  BY DEF RetryFinish, Returns, io_vars, prop_vars, stack_vars
<1>2. /\ byte_position \in UInt64 /\ byte_position <= byte_position
      /\ chunk_parse_stage = "FinishingChunk" /\ m_stack # << >> /\ Scanning /\ pc = "loop" /\ flow_ret # "ERROR"
      /\ Pushing => byte_position # medium.size
  BY <1>1, DispatchOutcome DEF UInt64
<1>3. OnPadByte
  BY <1>2 DEF ScanOutcomeInv, OutcomeInv, ReturnsInv, RetryInv
<1>4. Front.payload_end_pos \in UInt64
  BY <1>2, FrontType DEF ScanOutcomeInv, ScanInv
<1>5. BeforeEndOfFront'
  BY <1>1, <1>2, <1>3, <1>4 DEF BeforeEndOfFront, OnPadByte, Front, UInt64
<1>. QED BY <1>1, <1>2, <1>5, PartReturns

\* What a step into the reading of a text leaves.
LEMMA TextReturns ==
  ASSUME ScanOutcomeInv, Dispatch("ParsingChunkContent"), pc' = "text",
         UNCHANGED <<parse_stage, payload, chunk_parse_stage, m_stack, flow_ret>>, parsed \subseteq parsed',
         \A f \in Fourccs : num_chars'[f] # NotRead => f \in parsed',
         byte_position' \in UInt64, byte_position <= byte_position',
         TextLength' # NotRead,
         \/ byte_position' = Front.payload_begin_pos \/ TextLength' > 0
         \/ byte_position < byte_position'
  PROVE  ReturnsInv'
<1>1. /\ flow_ret # "ERROR" /\ Scanning /\ chunk_parse_stage = "ParsingChunkContent"
      /\ PayloadLocated => payload.position < byte_position
      /\ medium' = medium /\ scan_from' = byte_position /\ Observing
      /\ Front' = Front /\ Scanning' /\ PayloadLocated' = PayloadLocated
  BY DispatchOutcome DEF Front, Scanning, PayloadLocated
<1>2. ReturnsInv
  BY DEF ScanOutcomeInv, OutcomeInv
<1>3. ContentLeftInv'
  BY <1>1, <1>2 DEF ReturnsInv, ContentLeftInv
<1>4. RetryInv' /\ FlowInv'
  BY DEF RetryInv, FlowInv
<1>5. ProgressInv'
  BY <1>1 DEF ProgressInv, HasMovedForward
<1>6. FieldsInv'
  BY <1>1, <1>2 DEF ReturnsInv, FieldsInv
<1>7. ObservedInv'
  BY <1>1, <1>2 DEF ReturnsInv, ObservedInv
<1>. QED BY <1>3, <1>4, <1>5, <1>6, <1>7 DEF ReturnsInv

LEMMA ReadTextLengthReturns == ASSUME ScanOutcomeInv, ReadTextLength PROVE ReturnsInv'
<1>1. /\ Parsing("Text") /\ Dispatch("ParsingChunkContent") /\ Known(Front.fourcc)
      /\ UNCHANGED <<parse_stage, payload, m_stack, chunk_parse_stage>>
  BY DEF ReadTextLength, Parsing, stack_vars
<1>2. PICK ret \in FlowReturns :
        /\ Read(Prefix, ret)
        /\ \/ /\ ret = "OK"
              /\ \E length \in Lengths : num_chars' = [num_chars EXCEPT ![Front.fourcc] = length]
              /\ parsed' = parsed \cup {Front.fourcc}
              /\ pc' = "text"
              /\ UNCHANGED flow_ret
           \/ /\ ret # "OK" \/ Front.fourcc \in IdLists
              /\ Returns(IF ret = "OK" THEN "ERROR" ELSE ret)
              /\ UNCHANGED <<num_chars, parsed>>
  BY DEF ReadTextLength
<1>3. /\ ScanInv /\ pc = "loop" /\ Scanning /\ (Pushing => pending_segment_start = NoSegment)
      /\ byte_position \in UInt64 /\ byte_position <= byte_position /\ Prefix \in UInt64
      /\ chunk_parse_stage = "ParsingChunkContent" /\ Front.fourcc \in Fourccs /\ UNCHANGED Front
  BY <1>1, DispatchOutcome, PrefixType DEF ScanOutcomeInv, UInt64, Front
<1>4. /\ byte_position' \in UInt64 /\ byte_position <= byte_position'
      /\ ret # "OK" => byte_position' = byte_position
      /\ ret = "NOT_ENOUGH_DATA" => Pushing
  BY <1>2, <1>3, ReadOutcome
<1>5. CASE /\ ret = "OK" /\ pc' = "text" /\ UNCHANGED flow_ret
           /\ \E length \in Lengths : num_chars' = [num_chars EXCEPT ![Front.fourcc] = length]
           /\ parsed' = parsed \cup {Front.fourcc}
  <2>1. PICK length \in Lengths : num_chars' = [num_chars EXCEPT ![Front.fourcc] = length]
    BY <1>5
  <2>2. length # NotRead
    BY HeaderAssumption DEF Lengths, IdListLengths, UInt64, NotRead
  <2>3. num_chars \in [Fourccs -> UInt64 \cup {NotRead}]
    BY <1>3 DEF ScanInv, TypeOK
  <2>4. TextLength' = length /\ \A f \in Fourccs \ {Front.fourcc} : num_chars'[f] = num_chars[f]
    BY <1>3, <2>1, <2>3 DEF TextLength
  <2>5. \A f \in Fourccs : num_chars'[f] # NotRead => f \in parsed'
    BY <1>5, <2>4 DEF ScanOutcomeInv, OutcomeInv, ReturnsInv, FieldsInv
  <2>6. byte_position < byte_position'
    BY <1>1, <1>2, <1>5, PrefixIsRead
  <2>. QED BY <1>1, <1>4, <1>5, <2>2, <2>4, <2>5, <2>6, TextReturns
<1>6. CASE /\ Returns(IF ret = "OK" THEN "ERROR" ELSE ret)
           /\ UNCHANGED <<num_chars, parsed>>
  <2>1. pc' = "settle" /\ flow_ret' # "OK" /\ (flow_ret' = "NOT_ENOUGH_DATA" => Pushing)
        /\ (flow_ret' = "ERROR" \/ byte_position' = byte_position)
    BY <1>4, <1>6 DEF Returns
  <2>. QED BY <1>1, <1>3, <1>4, <1>6, <2>1, PartReturns
<1>. QED BY <1>2, <1>5, <1>6

LEMMA ResumeTextReturns == ASSUME ScanOutcomeInv, ResumeText PROVE ReturnsInv'
<1>1. /\ Dispatch("ParsingChunkContent") /\ Known(Front.fourcc) /\ Descriptions[Front.fourcc].parse = "Text"
      /\ pc' = "text" /\ TextLength # NotRead
      /\ UNCHANGED <<byte_position, parse_stage, payload, m_stack, chunk_parse_stage, num_chars, parsed, flow_ret>>
  BY DEF ResumeText, Parsing, stack_vars, io_vars, prop_vars
<1>2. /\ flow_ret # "ERROR" /\ Scanning /\ chunk_parse_stage = "ParsingChunkContent" /\ pc = "loop"
      /\ m_stack # << >> /\ byte_position \in UInt64 /\ byte_position <= byte_position
  BY <1>1, DispatchOutcome DEF UInt64
<1>3. ReturnsInv
  BY DEF ScanOutcomeInv, OutcomeInv
<1>4. TextLength' = TextLength
  BY <1>1 DEF TextLength, Front
<1>5. byte_position = Front.payload_begin_pos \/ TextLength > 0
  BY <1>1, <1>2, <1>3 DEF ReturnsInv, ContentLeftInv
<1>6. \A f \in Fourccs : num_chars'[f] # NotRead => f \in parsed'
  BY <1>1, <1>3 DEF ReturnsInv, FieldsInv
<1>. QED BY <1>1, <1>2, <1>4, <1>5, <1>6, TextReturns

LEMMA ReadTextReturns == ASSUME ScanOutcomeInv, ReadText PROVE ReturnsInv'
<1>1. /\ pc = "text" /\ pc' = "settle"
      /\ UNCHANGED <<medium, parse_stage, payload, m_stack, num_chars, parsed, scan_from>>
  BY DEF ReadText, Returns, prop_vars
<1>2. ScanInv /\ TypeOK /\ ReturnsInv /\ PayloadInv
  BY DEF ScanOutcomeInv, OutcomeInv, ScanInv
<1>3. /\ Scanning /\ chunk_parse_stage = "ParsingChunkContent" /\ flow_ret # "ERROR"
      /\ Pushing => pending_segment_start = NoSegment
      /\ m_stack # << >> /\ Front.fourcc \in Fourccs /\ TextLength \in UInt64 \cup {NotRead}
      /\ byte_position \in UInt64 /\ scan_from \in UInt64
  BY <1>1, <1>2, TextFacts DEF TypeOK
<1>4. /\ Front' = Front /\ TextLength' = TextLength /\ Scanning' /\ Pushing' = Pushing
      /\ PayloadLocated' = PayloadLocated /\ Observing
  BY <1>1, <1>3 DEF Front, TextLength, Scanning, Pushing, PayloadLocated, Observing
<1>5. /\ scan_from <= byte_position /\ TextLength # NotRead
      /\ byte_position = Front.payload_begin_pos \/ TextLength > 0 \/ scan_from < byte_position
      /\ PayloadLocated => payload.position < scan_from
  BY <1>1, <1>2, <1>3 DEF ReturnsInv, ProgressInv, HasMovedForward
<1>6. Front.fourcc \in parsed /\ Front.size > 0
  BY <1>2, <1>3, <1>5 DEF ReturnsInv, FieldsInv, ContentLeftInv, TextLength
<1>7. FieldsInv' /\ ObservedInv'
  BY <1>1, <1>2, <1>4, <1>6, SameRecords DEF ReturnsInv
<1>8. RetryInv'
  BY <1>1 DEF RetryInv
<1>9. CASE TextLength = 0 /\ chunk_parse_stage' = "FinishingChunk" /\ Returns("OK") /\ UNCHANGED io_vars
  <2>1. flow_ret' = "OK" /\ byte_position' = byte_position
    BY <1>9 DEF Returns, io_vars
  <2>2. ContentLeftInv' /\ FlowInv'
    BY <1>1, <1>9, <2>1 DEF ContentLeftInv, FlowInv
  <2>3. scan_from < byte_position \/ byte_position < Front.payload_end_pos
    <3>1. /\ Front.payload_begin_pos + Front.size <= Front.payload_end_pos
          /\ Front.payload_begin_pos \in UInt64 /\ Front.size \in UInt64 /\ Front.payload_end_pos \in UInt64
      BY <1>2, <1>3, FrontType DEF ScanInv, SizesFit, Front
    <3>. QED BY <1>3, <1>5, <1>6, <1>9, <3>1 DEF UInt64
  <2>4. ProgressInv'
    BY <1>1, <1>3, <1>4, <1>5, <1>9, <2>1, <2>3 DEF ProgressInv, HasMovedForward, BeforeEndOfFront
  <2>. QED BY <1>7, <1>8, <2>2, <2>4 DEF ReturnsInv
<1>10. CASE Returns("ERROR") /\ UNCHANGED <<io_vars, chunk_parse_stage>>
  <2>1. flow_ret' = "ERROR" /\ byte_position' = byte_position /\ chunk_parse_stage' = chunk_parse_stage
    BY <1>10 DEF Returns, io_vars
  <2>2. ContentLeftInv' /\ FlowInv' /\ ProgressInv'
    BY <1>1, <1>3, <1>5, <2>1 DEF ContentLeftInv, FlowInv, ProgressInv
  <2>. QED BY <1>7, <1>8, <2>2 DEF ReturnsInv
<1>11. ASSUME TextLength > 0, NEW ret \in FlowReturns, Read(TextLength, ret),
              Returns(ret) \/ (ret = "OK" /\ Returns("ERROR")),
              chunk_parse_stage' = IF flow_ret' = "OK" THEN "FinishingChunk" ELSE chunk_parse_stage
       PROVE  ReturnsInv'
  <2>1. TextLength \in UInt64
    BY <1>3, <1>5
  <2>2. /\ byte_position' \in UInt64 /\ byte_position <= byte_position'
        /\ ret = "OK" => byte_position' = byte_position + TextLength
        /\ ret = "NOT_ENOUGH_DATA" => Pushing
    BY <1>1, <1>2, <1>3, <1>11, <2>1, ReadOutcome
  <2>3. /\ flow_ret' = "OK" => scan_from < byte_position'
        /\ flow_ret' = "NOT_ENOUGH_DATA" => Pushing
        /\ scan_from <= byte_position'
    BY <1>3, <1>5, <1>11, <2>1, <2>2 DEF Returns, UInt64
  <2>4. ContentLeftInv'
    BY <1>4, <1>6, <1>11, <2>3 DEF ContentLeftInv
  <2>5. FlowInv'
    BY <1>1, <1>3, <1>4, <1>11, <2>3 DEF FlowInv
  <2>6. ProgressInv'
    BY <1>1, <1>3, <1>4, <1>5, <2>3 DEF ProgressInv, HasMovedForward
  <2>. QED BY <1>7, <1>8, <2>4, <2>5, <2>6 DEF ReturnsInv
<1>. QED BY <1>9, <1>10, <1>11 DEF ReadText

LEMMA ParsePayloadReturns == ASSUME ScanOutcomeInv, ParsePayload PROVE ReturnsInv'
<1>1. ScanInv /\ TypeOK /\ ReturnsInv /\ ContentLeftInv
  BY DEF ScanOutcomeInv, OutcomeInv, ScanInv, ReturnsInv
<1>2. /\ Scanning /\ flow_ret # "ERROR" /\ medium' = medium
      /\ UNCHANGED <<m_stack, num_chars, parsed>>
      /\ scan_from' = byte_position /\ pc' = "settle"
      /\ Front.fourcc \notin RequiredFields
      /\ \/ flow_ret' = "NOTHING_TO_READ" /\ chunk_parse_stage' = "FinishingChunk"
         \/ flow_ret' = "ERROR" /\ chunk_parse_stage' = chunk_parse_stage
      /\ ~Scanning' \/ byte_position <= byte_position'
  BY <1>1, ParsePayloadOutcome DEF prop_vars, Scanning
<1>3. pc = "loop" /\ chunk_parse_stage = "ParsingChunkContent"
  BY DEF ParsePayload, Parsing, Dispatch
<1>4. Observing /\ Pushing' = Pushing
  BY <1>2, <1>3 DEF Observing, Pushing
<1>5. FieldsInv' /\ ObservedInv'
  BY <1>1, <1>2, <1>4, SameRecords DEF ReturnsInv
<1>6. ContentLeftInv' /\ RetryInv' /\ FlowInv'
  BY <1>2, <1>3 DEF ContentLeftInv, RetryInv, FlowInv
<1>7. ProgressInv'
  BY <1>2 DEF ProgressInv
<1>. QED BY <1>5, <1>6, <1>7 DEF ReturnsInv

LEMMA PayloadReportedAgainReturns == ASSUME ScanOutcomeInv, PayloadReportedAgain PROVE ReturnsInv'
<1>1. /\ pc = "loop" /\ pc' = "aborted"
      /\ Descriptions[Front.fourcc].parse = "Payload"
      /\ UNCHANGED <<byte_position, parse_stage, chunk_parse_stage, m_stack, num_chars, parsed, flow_ret>>
  BY DEF PayloadReportedAgain, Parsing, Dispatch, stack_vars, io_vars, prop_vars
<1>2. ReturnsInv /\ TypeOK
  BY DEF ScanOutcomeInv, OutcomeInv, ScanInv
<1>3. ContentLeftInv' /\ RetryInv' /\ FlowInv' /\ ProgressInv'
  BY <1>1, <1>2 DEF ReturnsInv, ContentLeftInv, RetryInv, FlowInv, ProgressInv, Scanning, Front
<1>4. FieldsInv' /\ ObservedInv'
  BY <1>1, <1>2, SameRecords DEF ReturnsInv, Observing, Scanning
<1>. QED BY <1>3, <1>4 DEF ReturnsInv

\* The chunk that is refused leaves the stack as it was but for what is observed; the chunk
\* that is entered has not been parsed, and is the only one that may not have been.
LEMMA ParseChunkStartReturns == ASSUME ScanOutcomeInv, ParseChunkStart PROVE ReturnsInv'
<1>1. /\ Dispatch("ParsingChunkStart") /\ Read(HeaderSize, "OK")
      /\ UNCHANGED <<parse_stage, payload, num_chars, parsed>>
  BY DEF ParseChunkStart, prop_vars
<1>2. ScanInv /\ TypeOK /\ ReturnsInv /\ m_stack \in Seq(Chunk)
  BY DEF ScanOutcomeInv, OutcomeInv, ScanInv, TypeOK
<1>3. /\ pc = "loop" /\ flow_ret # "ERROR" /\ Scanning /\ chunk_parse_stage = "ParsingChunkStart"
      /\ Pushing => pending_segment_start = NoSegment
      /\ PayloadLocated => payload.position < byte_position
      /\ medium' = medium /\ scan_from' = byte_position /\ byte_position \in UInt64 /\ Observing
      /\ HeaderSize \in UInt64 /\ HeaderSize # 0
  BY <1>1, DispatchOutcome, HeaderAssumption
<1>4. byte_position' \in UInt64 /\ byte_position' = byte_position + HeaderSize
  BY <1>1, <1>2, <1>3, ReadOutcome
<1>5. byte_position < byte_position' /\ byte_position <= byte_position'
  BY <1>3, <1>4 DEF UInt64
<1>6. Scanning' /\ Pushing' = Pushing /\ PayloadLocated' = PayloadLocated
  BY <1>1, <1>3 DEF Scanning, Pushing, PayloadLocated
<1>7. ASSUME NEW i \in DOMAIN m_stack
      PROVE  /\ m_stack[i].fourcc \in RequiredFields => m_stack[i].fourcc \in parsed
             /\ m_stack[i].observed \cap RequiredFields \subseteq parsed
  BY <1>2, <1>3 DEF ReturnsInv, FieldsInv, ObservedInv
<1>8. ASSUME pc' = "corrupt_settle", UNCHANGED <<chunk_parse_stage, flow_ret>>,
             \A i \in DOMAIN m_stack' : i \in DOMAIN m_stack /\ m_stack'[i].fourcc = m_stack[i].fourcc
      PROVE  ReturnsInv'
  <2>1. ContentLeftInv' /\ RetryInv' /\ FlowInv' /\ ObservedInv'
    BY <1>3, <1>8 DEF ContentLeftInv, RetryInv, FlowInv, ObservedInv, Observing
  <2>2. ProgressInv'
    BY <1>3, <1>5, <1>8 DEF ProgressInv
  <2>3. FieldsInv'
    BY <1>1, <1>2, <1>7, <1>8 DEF ReturnsInv, FieldsInv
  <2>. QED BY <2>1, <2>2, <2>3 DEF ReturnsInv
<1>9. PICK f \in Fourccs : \E raw_size \in RawSizes[f] :
        IF SizeIsUnusable(raw_size, byte_position')
        THEN pc' = "corrupt_settle" /\ UNCHANGED <<stack_vars, flow_ret>>
        ELSE EnterChunk(f, raw_size, byte_position')
  BY DEF ParseChunkStart
<1>10. PICK raw_size \in RawSizes[f] :
        IF SizeIsUnusable(raw_size, byte_position')
        THEN pc' = "corrupt_settle" /\ UNCHANGED <<stack_vars, flow_ret>>
        ELSE EnterChunk(f, raw_size, byte_position')
  BY <1>9
<1>11. CASE SizeIsUnusable(raw_size, byte_position')
  BY <1>8, <1>10, <1>11 DEF stack_vars
<1>12. CASE ~SizeIsUnusable(raw_size, byte_position')
  <2>. DEFINE size  == ContentSize(raw_size)
              until == byte_position' + Padded(size)
              code  == PushReturnCode(f, size, byte_position', until)
  <2>1. size \in UInt64 /\ until \in UInt64
    BY <1>4, <1>12, UsableSize, HeaderAssumption
  <2>2. /\ PushChunk(f, size, byte_position', until)
        /\ IF code = "Ok"
           THEN /\ chunk_parse_stage' = IF size = 0 THEN "FinishingChunk" ELSE "ParsingChunkContent"
                /\ pc' = "settle" /\ flow_ret' = "OK"
           ELSE /\ pc' = "corrupt_settle"
                /\ UNCHANGED <<chunk_parse_stage, flow_ret>>
    BY <1>10, <1>12 DEF EnterChunk, Returns
  <2>. HIDE DEF size, until
  <2>3. CASE code # "Ok"
    <3>1. /\ m_stack' \in Seq(Chunk) /\ Len(m_stack') = Len(m_stack)
          /\ \A i \in 1 .. Len(m_stack) : m_stack'[i].fourcc = m_stack[i].fourcc
      BY <1>2, <1>4, <2>1, <2>2, <2>3, PushKeepsStack DEF SameExtent
    <3>2. \A i \in DOMAIN m_stack' : i \in DOMAIN m_stack /\ m_stack'[i].fourcc = m_stack[i].fourcc
      BY <1>2, <3>1
    <3>. QED BY <1>8, <2>2, <2>3, <3>2
  <2>4. CASE code = "Ok"
    <3>1. /\ m_stack' \in Seq(Chunk) /\ Len(m_stack') = Len(m_stack) + 1
          /\ m_stack'[1] = [fourcc |-> f, size |-> size, payload_begin_pos |-> byte_position',
                            payload_end_pos |-> until, observed |-> {}]
          /\ \A i \in 1 .. Len(m_stack) : /\ SameExtent(m_stack'[i + 1], m_stack[i])
                                          /\ ObservesAtMost(m_stack'[i + 1], m_stack[i], f)
      BY <1>2, <1>4, <2>1, <2>2, <2>4, PushKeepsStack
    <3>2. \A i \in DOMAIN m_stack' :
            i = 1 \/ /\ i - 1 \in DOMAIN m_stack
                     /\ SameExtent(m_stack'[i], m_stack[i - 1])
                     /\ ObservesAtMost(m_stack'[i], m_stack[i - 1], f)
      <4>1. ASSUME NEW i \in DOMAIN m_stack', i # 1
            PROVE  /\ i - 1 \in DOMAIN m_stack
                   /\ SameExtent(m_stack'[i], m_stack[i - 1])
                   /\ ObservesAtMost(m_stack'[i], m_stack[i - 1], f)
        <5>1. i - 1 \in 1 .. Len(m_stack) /\ i = (i - 1) + 1
          BY <1>2, <3>1, <4>1
        <5>. QED BY <1>2, <3>1, <5>1
      <4>. QED BY <4>1
    <3>3. /\ Front'.fourcc = f /\ Front'.size = size /\ Front'.payload_begin_pos = byte_position'
          /\ m_stack'[1].fourcc = f /\ m_stack'[1].observed = {}
      BY <3>1 DEF Front
    <3>4. ~SizeIsWrong(f, size)
      BY <2>4 DEF PushReturnCode
    <3>5. f \in RequiredFields => size # 0
      <4>1. ASSUME f \in RequiredFields, size = 0 PROVE FALSE
        <5>1. Known(f) /\ Descriptions[f].size > 0
          BY <4>1, RequiredFieldsAreRead
        <5>2. Descriptions[f] \in ChunkDescription
          BY <5>1, DescriptionType
        <5>3. Descriptions[f].size_type \in {"ExactSize", "FirstNumBytes"} /\ Descriptions[f].size \in UInt64
          BY <5>2 DEF ChunkDescription
        <5>4. size # Descriptions[f].size /\ size < Descriptions[f].size
          BY <4>1, <5>1, <5>3 DEF UInt64
        <5>5. CASE Descriptions[f].size_type = "ExactSize"
          BY <3>4, <5>1, <5>4, <5>5 DEF SizeIsWrong
        <5>6. CASE Descriptions[f].size_type = "FirstNumBytes"
          BY <3>4, <5>1, <5>4, <5>6 DEF SizeIsWrong
        <5>. QED BY <5>3, <5>5, <5>6
      <4>. QED BY <4>1
    <3>6. ContentLeftInv'
      BY <2>1, <2>2, <2>4, <3>3 DEF ContentLeftInv, UInt64
    <3>7. RetryInv' /\ FlowInv'
      BY <2>2, <2>4 DEF RetryInv, FlowInv
    <3>8. ProgressInv'
      BY <1>1, <1>3, <1>5, <1>6, <2>2, <2>4 DEF ProgressInv, HasMovedForward
    <3>9. FieldsInv'
      <4>1. ASSUME NEW i \in DOMAIN m_stack', m_stack'[i].fourcc \in RequiredFields,
                   i > 1 \/ chunk_parse_stage' # "ParsingChunkContent"
            PROVE  m_stack'[i].fourcc \in parsed'
        <5>1. CASE i = 1
          BY <2>2, <2>4, <3>3, <3>5, <4>1, <5>1
        <5>2. CASE i # 1
          BY <1>1, <1>7, <3>2, <4>1, <5>2 DEF SameExtent
        <5>. QED BY <5>1, <5>2
      <4>. QED BY <1>1, <1>2, <4>1 DEF ReturnsInv, FieldsInv
    <3>10. ObservedInv'
      <4>1. ASSUME NEW i \in DOMAIN m_stack', NEW g \in m_stack'[i].observed \cap RequiredFields
            PROVE  \/ g \in parsed'
                   \/ chunk_parse_stage' = "ParsingChunkContent" /\ g = Front'.fourcc
        <5>1. i # 1
          BY <3>3, <4>1
        <5>2. g = f \/ g \in m_stack[i - 1].observed \cap RequiredFields
          BY <3>2, <4>1, <5>1 DEF ObservesAtMost
        <5>3. g = f => chunk_parse_stage' = "ParsingChunkContent" /\ g = Front'.fourcc
          BY <2>2, <2>4, <3>3, <3>5, <4>1
        <5>. QED BY <1>1, <1>7, <3>2, <5>1, <5>2, <5>3
      <4>. QED BY <4>1 DEF ObservedInv
    <3>. QED BY <3>6, <3>7, <3>8, <3>9, <3>10 DEF ReturnsInv
  <2>. QED BY <2>3, <2>4
<1>. QED BY <1>11, <1>12

\* A step that ends the scan, or is made after its end, has nothing to keep but what it returns.
LEMMA ScanEndedReturns ==
  ASSUME ScanOutcomeInv, ~Scanning', pc' \notin {"text", "finish", "pop"},
         UNCHANGED <<m_stack, num_chars, chunk_parse_stage>>, parsed' = parsed,
         pc' = "settle" => flow_ret' \in {"NOTHING_TO_READ", "ERROR"},
         pc' = "scanned" => flow_ret' \in {"NOTHING_TO_READ", "ERROR"}
  PROVE  ReturnsInv'
<1>1. ReturnsInv /\ TypeOK
  BY DEF ScanOutcomeInv, OutcomeInv, ScanInv
<1>2. ContentLeftInv' /\ RetryInv' /\ ProgressInv' /\ FlowInv'
  BY DEF ContentLeftInv, RetryInv, ProgressInv, FlowInv
<1>3. FieldsInv' /\ ObservedInv'
  BY <1>1, SameRecords DEF ReturnsInv, Observing
<1>. QED BY <1>2, <1>3 DEF ReturnsInv

LEMMA SettleReturns == ASSUME ScanOutcomeInv, Settle PROVE ReturnsInv'
<1>1. /\ pc = "settle"
      /\ UNCHANGED <<medium, byte_position, parse_stage, payload, m_stack, chunk_parse_stage,
                     num_chars, parsed, scan_from>>
  BY DEF Settle, io_vars, prop_vars, stack_vars
<1>2. ReturnsInv /\ TypeOK
  BY DEF ScanOutcomeInv, OutcomeInv, ScanInv
<1>3. /\ Scanning' = Scanning /\ Pushing' = Pushing /\ PayloadLocated' = PayloadLocated /\ Front' = Front
      /\ BeforeEndOfFront' = BeforeEndOfFront /\ HasMovedForward' = HasMovedForward
  BY <1>1 DEF Scanning, Pushing, PayloadLocated, Front, BeforeEndOfFront, HasMovedForward
<1>4. byte_position \in UInt64 /\ scan_from \in UInt64
  BY <1>2 DEF TypeOK
<1>5. ASSUME UNCHANGED flow_ret, Scanning \/ flow_ret' # "NOTHING_TO_READ",
             \/ pc' = "corrupt_settle" /\ flow_ret = "ADVANCE_OUT_OF_BOUNDS"
             \/ /\ flow_ret \in {"OK", "NOTHING_TO_READ"} /\ Scanning
                /\ pc' = IF chunk_parse_stage = "FinishingChunk" THEN "finish" ELSE "scanned"
             \/ flow_ret \notin {"OK", "NOTHING_TO_READ", "ADVANCE_OUT_OF_BOUNDS"} /\ pc' = "scanned"
      PROVE  ReturnsInv'
  <2>1. FieldsInv' /\ ObservedInv'
    BY <1>1, <1>2, <1>3, <1>5, SameRecords DEF ReturnsInv, Observing
  <2>2. ContentLeftInv'
    BY <1>1, <1>2, <1>3, <1>5 DEF ReturnsInv, ContentLeftInv, TextLength
  <2>3. RetryInv'
    BY <1>1, <1>2, <1>3, <1>5 DEF ReturnsInv, RetryInv, FlowInv
  <2>4. ProgressInv'
    BY <1>1, <1>2, <1>3, <1>4, <1>5 DEF ReturnsInv, ProgressInv, HasMovedForward, HasAdvanced, UInt64
  <2>5. FlowInv'
    BY <1>1, <1>2, <1>3, <1>5 DEF ReturnsInv, FlowInv
  <2>. QED BY <2>1, <2>2, <2>3, <2>4, <2>5 DEF ReturnsInv
<1>6. ASSUME ~Scanning, flow_ret \in {"OK", "NOTHING_TO_READ"}, pc' = "scanned",
             flow_ret' = IF HasMissingRequiredSubchunks THEN "ERROR" ELSE flow_ret
      PROVE  ReturnsInv'
  <2>1. flow_ret = "NOTHING_TO_READ"
    BY <1>1, <1>2, <1>6 DEF ReturnsInv, ProgressInv
  <2>. QED BY <1>1, <1>3, <1>6, <2>1, ScanEndedReturns
<1>7. CASE Scanning
  BY <1>5, <1>7 DEF Settle
<1>8. CASE ~Scanning
  BY <1>5, <1>6, <1>8 DEF Settle
<1>. QED BY <1>7, <1>8

LEMMA HandleCorruptedChunkStructureReturns ==
  ASSUME ScanOutcomeInv, HandleCorruptedChunkStructure PROVE ReturnsInv'
<1>1. /\ pc \in {"corrupt_settle", "corrupt_finish"}
      /\ pc' = IF pc = "corrupt_settle" THEN "settle" ELSE "scanned"
      /\ UNCHANGED <<medium, payload, m_stack, chunk_parse_stage, num_chars, parsed, scan_from>>
  BY DEF HandleCorruptedChunkStructure, prop_vars, stack_vars
<1>2. ReturnsInv /\ TypeOK /\ upstream_position <= medium.size
  BY DEF ScanOutcomeInv, OutcomeInv, ScanInv, InputInv
<1>3. CASE ScanningFinished /\ flow_ret' = "NOTHING_TO_READ"
  <2>1. ~Scanning'
    BY <1>1, <1>2, <1>3, ScanningFinishedEffect
  <2>. QED BY <1>1, <1>3, <2>1, ScanEndedReturns
<1>4. CASE flow_ret' = "ERROR" /\ UNCHANGED <<io_vars, parse_stage>>
  <2>1. byte_position' = byte_position /\ Scanning' = Scanning
    BY <1>4 DEF io_vars, Scanning
  <2>2. ContentLeftInv' /\ RetryInv' /\ ObservedInv'
    BY <1>1, <1>4 DEF ContentLeftInv, RetryInv, ObservedInv, Observing
  <2>3. FlowInv' /\ ProgressInv'
    BY <1>1, <1>2, <1>4, <2>1 DEF ReturnsInv, FlowInv, ProgressInv
  <2>4. FieldsInv'
    BY <1>1, <1>2 DEF ReturnsInv, FieldsInv
  <2>. QED BY <2>2, <2>3, <2>4 DEF ReturnsInv
<1>. QED BY <1>3, <1>4 DEF HandleCorruptedChunkStructure

LEMMA SkipPadByteReturns == ASSUME ScanOutcomeInv, SkipPadByte PROVE ReturnsInv'
<1>1. ScanInv /\ ReturnsInv /\ TypeOK
  BY DEF ScanOutcomeInv, OutcomeInv, ScanInv
<1>2. /\ ScansOn /\ m_stack # << >> /\ pc = "finish" /\ chunk_parse_stage = "FinishingChunk"
      /\ Front.payload_end_pos - byte_position = 1
      /\ byte_position \in UInt64
      /\ UNCHANGED <<m_stack, chunk_parse_stage, num_chars, parsed, scan_from>>
      /\ \/ UNCHANGED <<pc, flow_ret>> /\ byte_position' = byte_position + 1
         \/ /\ pc' = "scanned" /\ flow_ret' = "NOT_ENOUGH_DATA" /\ Pushing
            /\ UNCHANGED byte_position
  BY <1>1, SkipPadByteOutcome DEF stack_vars, prop_vars
<1>3. /\ Scanning /\ flow_ret # "ERROR" /\ Scanning' /\ Front' = Front
      /\ Pushing' = Pushing /\ PayloadLocated' = PayloadLocated /\ UNCHANGED <<payload, medium>>
      /\ Observing /\ scan_from \in UInt64
  BY <1>1, <1>2 DEF ScansOn, Scanning, Pushing, PayloadLocated, Front, Observing, TypeOK
<1>4. FieldsInv' /\ ObservedInv'
  BY <1>1, <1>2, <1>3, SameRecords DEF ReturnsInv
<1>5. ContentLeftInv'
  BY <1>2 DEF ContentLeftInv
<1>6. RetryInv'
  BY <1>2, <1>3 DEF RetryInv, OnPadByte
<1>7. FlowInv'
  BY <1>1, <1>2, <1>3 DEF ReturnsInv, FlowInv
<1>8. ProgressInv'
  <2>1. scan_from <= byte_position
    BY <1>1, <1>2, <1>3 DEF ReturnsInv, ProgressInv
  <2>2. CASE UNCHANGED <<pc, flow_ret>> /\ byte_position' = byte_position + 1
    <3>1. scan_from < byte_position' /\ scan_from <= byte_position'
      BY <1>2, <1>3, <2>1, <2>2 DEF UInt64
    <3>. QED BY <1>1, <1>2, <1>3, <2>2, <3>1 DEF ReturnsInv, ProgressInv, HasMovedForward
  <2>3. CASE pc' = "scanned" /\ flow_ret' = "NOT_ENOUGH_DATA"
    BY <2>3 DEF ProgressInv
  <2>. QED BY <1>2, <2>2, <2>3
<1>. QED BY <1>4, <1>5, <1>6, <1>7, <1>8 DEF ReturnsInv

LEMMA PopFinishedChunksReturns == ASSUME ScanOutcomeInv, PopFinishedChunks PROVE ReturnsInv'
<1>1. /\ pc = "finish"
      /\ UNCHANGED <<medium, byte_position, parse_stage, payload, m_stack, chunk_parse_stage,
                     num_chars, parsed, flow_ret, scan_from>>
      /\ \/ pc' = "corrupt_finish"
         \/ pc' = "pop" /\ pop_position' = byte_position /\ any_popped' = FALSE
  BY DEF PopFinishedChunks, io_vars, prop_vars, stack_vars
<1>2. ReturnsInv /\ TypeOK /\ StackSorted
  BY DEF ScanOutcomeInv, OutcomeInv, ScanInv
<1>3. /\ Scanning /\ flow_ret # "ERROR" /\ chunk_parse_stage = "FinishingChunk" /\ Observing
      /\ Front' = Front /\ PayloadLocated' = PayloadLocated
  BY <1>1 DEF ScanOutcomeInv, ScanInv, ControlInv, Observing, Front, PayloadLocated
<1>4. FieldsInv' /\ ObservedInv'
  BY <1>1, <1>2, <1>3, SameRecords DEF ReturnsInv
<1>5. ContentLeftInv' /\ RetryInv'
  BY <1>1, <1>3 DEF ContentLeftInv, RetryInv
<1>6. FlowInv'
  BY <1>1, <1>2 DEF ReturnsInv, FlowInv
<1>7. ProgressInv'
  <2>1. CASE pc' = "corrupt_finish"
    BY <2>1 DEF ProgressInv
  <2>2. CASE pc' = "pop" /\ pop_position' = byte_position /\ any_popped' = FALSE
    <3>1. BeforeEndOfFront => \A i \in DOMAIN m_stack : m_stack[i].payload_end_pos > byte_position
      <4>1. ASSUME BeforeEndOfFront, NEW i \in DOMAIN m_stack PROVE m_stack[i].payload_end_pos > byte_position
        <5>1. /\ m_stack \in Seq(Chunk) /\ 1 \in DOMAIN m_stack /\ 1 <= i
              /\ Front.payload_end_pos \in UInt64 /\ byte_position \in UInt64
          BY <1>2, <4>1, FrontType DEF TypeOK, BeforeEndOfFront
        <5>2. m_stack[1].payload_end_pos <= m_stack[i].payload_end_pos
          BY <1>2, <5>1 DEF StackSorted
        <5>. QED BY <1>2, <4>1, <5>1, <5>2, ElementType DEF BeforeEndOfFront, Front, UInt64
      <4>. QED BY <4>1
    <3>2. flow_ret = "OK" => HasMovedForward \/ BeforeEndOfFront
      BY <1>1, <1>2 DEF ReturnsInv, ProgressInv
    <3>3. HasMovedForward => HasAdvanced'
      BY <1>1, <1>2 DEF HasMovedForward, HasAdvanced, TypeOK, UInt64
    <3>4. flow_ret = "OK" /\ PayloadLocated => payload.position < scan_from
      BY <1>1, <1>2 DEF ReturnsInv, ProgressInv
    <3>. QED BY <1>1, <1>3, <2>2, <3>1, <3>2, <3>3, <3>4 DEF ProgressInv
  <2>. QED BY <1>1, <2>1, <2>2
<1>. QED BY <1>4, <1>5, <1>6, <1>7 DEF ReturnsInv

\* While the stack is walked and nothing is erased, nothing changes that the parts are about.
LEMMA WalkReturns ==
  ASSUME ScanOutcomeInv, pc = "pop", pc' \in {"pop", "corrupt_finish"},
         UNCHANGED <<byte_position, parse_stage, payload, m_stack, chunk_parse_stage,
                     num_chars, parsed, flow_ret, scan_from, pop_position, any_popped>>
  PROVE  ReturnsInv'
<1>1. ReturnsInv /\ TypeOK
  BY DEF ScanOutcomeInv, OutcomeInv, ScanInv
<1>2. chunk_parse_stage = "FinishingChunk"
  BY DEF ScanOutcomeInv, ScanInv, ControlInv
<1>3. FieldsInv' /\ ObservedInv'
  BY <1>1, <1>2, SameRecords DEF ReturnsInv, Observing
<1>4. ContentLeftInv' /\ RetryInv' /\ FlowInv'
  BY <1>1, <1>2 DEF ReturnsInv, ContentLeftInv, RetryInv, FlowInv
<1>5. ProgressInv'
  BY <1>1 DEF ReturnsInv, ProgressInv, HasAdvanced, PayloadLocated
<1>. QED BY <1>3, <1>4, <1>5 DEF ReturnsInv

\* A chunk is only finished by a call that has advanced, whether or not the finish function
\* then takes the byte position to the payload.
LEMMA EraseReturns ==
  ASSUME ScanOutcomeInv, AtElement, Ends(iter), EraseElement,
         flow_ret = "OK" /\ HasAdvanced => byte_position' # scan_from
  PROVE  ReturnsInv'
<1>1. /\ pc = "pop" /\ any_popped' = TRUE
      /\ UNCHANGED <<medium, payload, chunk_parse_stage, parsed, num_chars, pc, flow_ret, scan_from>>
  BY DEF AtElement, EraseElement
<1>2. ScanInv /\ ReturnsInv /\ TypeOK
  BY DEF ScanOutcomeInv, OutcomeInv, ScanInv
<1>3. chunk_parse_stage = "FinishingChunk"
  BY <1>1, <1>2 DEF ScanInv, ControlInv
<1>4. /\ m_stack # << >> /\ iter = 1 /\ m_stack' \in Seq(Chunk)
      /\ \A i \in DOMAIN m_stack' : i + 1 \in DOMAIN m_stack /\ m_stack'[i] = m_stack[i + 1]
  BY <1>2, EraseElementEffect
<1>5. ContentLeftInv' /\ RetryInv' /\ FlowInv'
  BY <1>1, <1>2, <1>3 DEF ReturnsInv, ContentLeftInv, RetryInv, FlowInv
<1>6. FieldsInv'
  BY <1>1, <1>2, <1>3, <1>4 DEF ReturnsInv, FieldsInv
<1>7. ObservedInv'
  BY <1>1, <1>2, <1>3, <1>4 DEF ReturnsInv, ObservedInv, Observing
<1>8. ProgressInv'
  <2>1. 1 \in DOMAIN m_stack /\ m_stack[1].payload_end_pos = pop_position /\ pop_position \in UInt64
    BY <1>2, <1>4, FrontType DEF Ends, TypeOK
  <2>2. ~(m_stack[1].payload_end_pos > pop_position)
    BY <2>1 DEF UInt64
  <2>3. flow_ret = "OK" => HasAdvanced
    BY <1>1, <1>2, <2>1, <2>2 DEF ReturnsInv, ProgressInv
  <2>. QED BY <1>1, <1>2, <2>3 DEF ReturnsInv, ProgressInv, HasAdvanced, PayloadLocated
<1>. QED BY <1>5, <1>6, <1>7, <1>8 DEF ReturnsInv

LEMMA PopFormReturns == ASSUME ScanOutcomeInv, PopForm PROVE ReturnsInv'
<1>1. /\ AtElement /\ Ends(iter) /\ EraseElement /\ ScanningFinished /\ pc = "pop"
      /\ UNCHANGED <<medium, payload>>
  BY DEF PopForm, AtElement, EraseElement
<1>2. ReturnsInv /\ TypeOK /\ PayloadInv
  BY DEF ScanOutcomeInv, OutcomeInv, ScanInv
<1>3. /\ payload.position \in UInt64 /\ scan_from \in UInt64
      /\ flow_ret = "OK" /\ PayloadLocated => payload.position < scan_from
  BY <1>1, <1>2 DEF ReturnsInv, ProgressInv, TypeOK
<1>4. byte_position' = byte_position \/ (PayloadLocated /\ byte_position' = payload.position)
  <2>1. Pushing => Lesser(payload.position, medium.size) = payload.position
    BY <1>2 DEF PayloadInv, Lesser
  <2>. QED BY <1>1, <2>1 DEF ScanningFinished, FinishWithoutPayload, FinishByRewinding, FinishBySeekingUpstream,
         StartStreamingAt, UpstreamSeek, io_vars
<1>5. flow_ret = "OK" /\ HasAdvanced => byte_position' # scan_from
  BY <1>3, <1>4 DEF HasAdvanced, UInt64
<1>. QED BY <1>1, <1>5, EraseReturns

LEMMA EndOfStackReturns == ASSUME ScanOutcomeInv, EndOfStack PROVE ReturnsInv'
<1>1. /\ pc = "pop"
      /\ UNCHANGED <<medium, byte_position, parse_stage, payload, m_stack, num_chars, parsed,
                     flow_ret, scan_from, pop_position, any_popped>>
      /\ \/ any_popped /\ chunk_parse_stage' = "ParsingChunkStart" /\ pc' = "scanned"
         \/ pc' = "corrupt_finish" /\ chunk_parse_stage' = chunk_parse_stage
  BY DEF EndOfStack, io_vars, prop_vars, pop_vars
<1>2. ReturnsInv /\ TypeOK
  BY DEF ScanOutcomeInv, OutcomeInv, ScanInv
<1>3. CASE any_popped /\ chunk_parse_stage' = "ParsingChunkStart" /\ pc' = "scanned"
  <2>1. chunk_parse_stage = "FinishingChunk"
    BY <1>1 DEF ScanOutcomeInv, ScanInv, ControlInv
  <2>2. FieldsInv' /\ ObservedInv'
    BY <1>1, <1>2, <2>1, SameRecords DEF ReturnsInv, Observing
  <2>3. ContentLeftInv' /\ RetryInv' /\ FlowInv'
    BY <1>1, <1>2, <1>3 DEF ReturnsInv, ContentLeftInv, RetryInv, FlowInv
  <2>4. ProgressInv'
    BY <1>1, <1>2, <1>3 DEF ReturnsInv, ProgressInv, HasAdvanced
  <2>. QED BY <2>2, <2>3, <2>4 DEF ReturnsInv
<1>4. CASE pc' = "corrupt_finish" /\ chunk_parse_stage' = chunk_parse_stage
  BY <1>1, <1>4, WalkReturns
<1>. QED BY <1>1, <1>3, <1>4

\* Between two calls of scan_info() there is only the chunk that could not be finished.
LEMMA BetweenCallsReturns ==
  ASSUME ScanOutcomeInv, pc \in {"idle", "loop", "scanned"}, pc' \in {"idle", "loop", "stopped"},
         UNCHANGED <<medium, m_stack, chunk_parse_stage, num_chars, parsed>>,
         Scanning' /\ flow_ret' # "ERROR" =>
           /\ Scanning /\ flow_ret # "ERROR"
           /\ byte_position' = byte_position \/ byte_position' = medium.size
           /\ chunk_parse_stage = "ParsingChunkContent" => byte_position' = byte_position
  PROVE  ReturnsInv'
<1>1. ReturnsInv /\ TypeOK
  BY DEF ScanOutcomeInv, OutcomeInv, ScanInv
<1>2. Front' = Front /\ TextLength' = TextLength /\ Pushing' = Pushing
  BY DEF Front, TextLength, Pushing
<1>3. FieldsInv' /\ ObservedInv'
  BY <1>1, SameRecords DEF ReturnsInv, Observing
<1>4. FlowInv' /\ ProgressInv'
  BY DEF FlowInv, ProgressInv
<1>5. ContentLeftInv'
  BY <1>1, <1>2 DEF ReturnsInv, ContentLeftInv
<1>6. RetryInv'
  BY <1>1, <1>2 DEF ReturnsInv, RetryInv, OnPadByte
<1>. QED BY <1>3, <1>4, <1>5, <1>6 DEF ReturnsInv

\* Every step keeps what scan_info() returns in step with what it has done.
LEMMA ReturnsStep == ASSUME ScanOutcomeInv, Next PROVE ReturnsInv'
<1>1. CASE KeepElement
  BY <1>1, WalkReturns DEF KeepElement, AtElement, io_vars, prop_vars, stack_vars
<1>2. CASE PopPlainChunk
  BY <1>2, EraseReturns DEF PopPlainChunk, HasAdvanced, io_vars
<1>3. CASE PopProperties
  <2>1. AtElement /\ Ends(iter) /\ pc = "pop" /\ UNCHANGED <<byte_position, parse_stage>>
    BY <1>3 DEF PopProperties, AtElement, io_vars
  <2>2. CASE EraseElement
    BY <2>1, <2>2, EraseReturns DEF HasAdvanced
  <2>3. CASE /\ pc' = "corrupt_finish"
             /\ UNCHANGED <<medium, payload, stack_vars, prop_vars, pop_vars, flow_ret, scan_from>>
    BY <2>1, <2>3, WalkReturns DEF stack_vars, prop_vars, pop_vars
  <2>. QED BY <1>3, <2>2, <2>3 DEF PopProperties
<1>4. CASE ScanInfoReturned
  <2>1. /\ pc = "scanned" /\ pc' \in {"idle", "loop", "stopped"}
        /\ flow_ret' # "ERROR" => flow_ret # "ERROR"
        /\ UNCHANGED <<medium, byte_position, parse_stage, m_stack, chunk_parse_stage, num_chars, parsed>>
    BY <1>4 DEF ScanInfoReturned, io_vars, prop_vars, stack_vars
  <2>. QED BY <2>1, BetweenCallsReturns DEF Scanning
<1>5. CASE ChainReturns
  BY <1>5, BetweenCallsReturns DEF ChainReturns, Scanning, prop_vars, stack_vars
<1>6. CASE ScanIsOver
  BY <1>6, BetweenCallsReturns DEF ScanIsOver, Scanning, io_vars, prop_vars, stack_vars
<1>7. CASE Deliver
  BY <1>7, BetweenCallsReturns DEF Deliver, Scanning, prop_vars, stack_vars
<1>8. CASE UpstreamSegment
  <2>1. /\ pc = "idle" /\ pc' \in {"idle", "stopped"} /\ pending_segment_start # NoSegment
        /\ UNCHANGED <<medium, m_stack, chunk_parse_stage, num_chars, parsed, flow_ret>>
        /\ Scanning' => Scanning /\ byte_position' = pending_segment_start
    BY <1>8 DEF UpstreamSegment, HandleSinkSegment, StartStreamingAt, Scanning, prop_vars, stack_vars
  <2>2. /\ Pushing /\ flow_ret # "ERROR"
        /\ Scanning => /\ pending_segment_start \in {byte_position, medium.size}
                       /\ chunk_parse_stage # "ParsingChunkContent"
    BY <2>1 DEF ScanOutcomeInv, ScanInv, ControlInv, InputInv, OutcomeInv, PendingInv
  <2>. QED BY <2>1, <2>2, BetweenCallsReturns
<1>9. CASE EndOfStream
  <2>1. /\ pc' \in {"idle", "stopped"}
        /\ UNCHANGED <<medium, m_stack, chunk_parse_stage, num_chars, parsed>>
        /\ ScanningFinished \/ FinishWithoutPayload
    BY <1>9 DEF EndOfStream, prop_vars, stack_vars
  <2>2. ~Scanning'
    BY <2>1, ScanningFinishedEffect
       DEF ScanOutcomeInv, ScanInv, InputInv, FinishWithoutPayload, Scanning
  <2>. QED BY <2>1, <2>2, ScanEndedReturns
<1>. QED
  BY <1>1, <1>2, <1>3, <1>4, <1>5, <1>6, <1>7, <1>8, <1>9,
     NoFurtherSubchunkReturns, HeaderNotReadReturns, ParseChunkStartReturns, SkipUnknownChunkReturns,
     PrefixNotReadReturns, ParseLeafReturns, ParseFormReturns, ParseContainerReturns, ReadTextLengthReturns,
     ResumeTextReturns, ReadTextReturns, PayloadUnusableReturns, ParsePayloadReturns,
     PayloadReportedAgainReturns, RetryFinishReturns, SettleReturns, HandleCorruptedChunkStructureReturns,
     SkipPadByteReturns, PopFinishedChunksReturns, PopFormReturns, EndOfStackReturns
     DEF Next, StreamingThread, Upstream, ParseChunkContent, FinishChunkParsing

-------------------------------------------------------------------------------
(***************************************************************************)
(* The theorems                                                            *)
(***************************************************************************)

LEMMA InitOutcome == Init => OutcomeInv
<1>. SUFFICES ASSUME Init PROVE OutcomeInv
  OBVIOUS
<1>1. /\ m_stack = << >> /\ chunk_parse_stage = "ParsingChunkStart" /\ num_chars = [f \in Fourccs |-> NotRead]
      /\ pc \in {"idle", "loop"} /\ flow_ret = "OK" /\ parse_stage = "ScanningInfo"
      /\ pending_segment_start = NoSegment /\ payload.size = 0 /\ payload.position = 0
  BY DEF Init, MediaScanInit, NoPayload
<1>2. ~PayloadLocated /\ 0 <= medium.size
  <2>1. medium \in Medium
    BY MediaAssumption DEF Init, MediaScanInit
  <2>. QED BY <1>1, <2>1 DEF PayloadLocated, Medium, UInt64
<1>3. StreamInv /\ PendingInv /\ PayloadInv
  BY <1>1, <1>2 DEF StreamInv, PendingInv, PayloadInv
<1>4. ContentLeftInv /\ RetryInv /\ ProgressInv /\ FlowInv /\ FieldsInv /\ ObservedInv
  BY <1>1 DEF ContentLeftInv, RetryInv, ProgressInv, FlowInv, FieldsInv, ObservedInv
<1>. QED BY <1>3, <1>4 DEF OutcomeInv, ReturnsInv

LEMMA StutterOutcome == ASSUME OutcomeInv, UNCHANGED vars PROVE OutcomeInv'
<1>1. /\ UNCHANGED <<medium, byte_position, available, upstream_position, pending_segment_start>>
      /\ UNCHANGED <<parse_stage, payload, m_stack, chunk_parse_stage, parsed, num_chars>>
      /\ UNCHANGED <<pop_position, iter, any_popped, pc, flow_ret, scan_from>>
  BY DEF vars, io_vars, stack_vars, prop_vars, pop_vars
<1>2. StreamInv' /\ PendingInv' /\ PayloadInv'
  BY <1>1 DEF OutcomeInv, StreamInv, PendingInv, PayloadInv, Pushing, Scanning, PayloadLocated
<1>3. ContentLeftInv' /\ RetryInv' /\ FlowInv'
  BY <1>1 DEF OutcomeInv, ReturnsInv, ContentLeftInv, RetryInv, FlowInv, Pushing, Scanning, Front, TextLength,
     OnPadByte, Known
<1>4. ProgressInv'
  BY <1>1 DEF OutcomeInv, ReturnsInv, ProgressInv, Scanning, Front, TextLength, HasMovedForward, HasAdvanced,
     BeforeEndOfFront, PayloadLocated
<1>5. FieldsInv' /\ ObservedInv'
  BY <1>1 DEF OutcomeInv, ReturnsInv, FieldsInv, ObservedInv, Observing, Scanning, Front
<1>. QED BY <1>2, <1>3, <1>4, <1>5 DEF OutcomeInv, ReturnsInv

\* What the properties about the outcome rest on holds throughout a scan.
THEOREM ScanOutcomeInvHolds == Spec => []ScanOutcomeInv
<1>1. Init => ScanOutcomeInv
  BY InitInv, InitOutcome DEF ScanOutcomeInv
<1>2. ScanOutcomeInv /\ [Next]_vars => ScanOutcomeInv'
  <2>. SUFFICES ASSUME ScanOutcomeInv, [Next]_vars PROVE OutcomeInv'
    BY ScanInvIsInductive DEF ScanOutcomeInv
  <2>1. CASE Next
    BY <2>1, StreamStep, PendingStep, PayloadStep, ReturnsStep DEF ScanOutcomeInv, OutcomeInv, ReturnsInv
  <2>2. CASE UNCHANGED vars
    BY <2>2, StutterOutcome DEF ScanOutcomeInv
  <2>. QED BY <2>1, <2>2
<1>. QED BY <1>1, <1>2, PTL DEF Spec

\* What the adapter holds is what lies at the byte position, in all stages and whatever seek
\* upstream performs, at once or later, up to the end of the medium.
THEOREM InputStaysAligned == Spec => []InputAligned
<1>1. ScanOutcomeInv => InputAligned
  <2>. SUFFICES ASSUME ScanOutcomeInv, Pushing, flow_ret # "ERROR", parse_stage # "StreamFailure"
                PROVE  IF pending_segment_start = NoSegment
                       THEN upstream_position = byte_position + available
                       ELSE /\ upstream_position = pending_segment_start
                            /\ Scanning => available = 0
    BY DEF InputAligned
  <2>1. CASE Scanning
    BY <2>1 DEF ScanOutcomeInv, ScanInv, InputInv
  <2>2. CASE parse_stage = "Streaming"
    BY <2>2 DEF ScanOutcomeInv, OutcomeInv, StreamInv
  <2>3. CASE parse_stage = "AwaitingSegment"
    <3>1. payload.position \in UInt64
      BY DEF ScanOutcomeInv, ScanInv, TypeOK
    <3>. QED BY <2>3, <3>1 DEF ScanOutcomeInv, OutcomeInv, StreamInv, Scanning, UInt64, NoSegment
  <2>. QED BY <2>1, <2>2, <2>3 DEF ScanOutcomeInv, ScanInv, TypeOK, Stages, Scanning
<1>. QED BY <1>1, ScanOutcomeInvHolds, PTL

\* The loops' own checks of what scan_info() returns never fire.
THEOREM NoInternalErrorOccurs == Spec => []NoInternalError
<1>1. ScanOutcomeInv => NoInternalError
  BY DEF ScanOutcomeInv, OutcomeInv, ReturnsInv, ProgressInv, FlowInv, NoInternalError
<1>. QED BY <1>1, ScanOutcomeInvHolds, PTL

\* A PROP chunk that is finished has given all the fields that its validation demands.
THEOREM PropAlwaysEndsComplete == Spec => []PropEndsComplete
<1>1. ScanOutcomeInv => PropEndsComplete
  <2>. SUFFICES ASSUME ScanOutcomeInv, AtElement, Ends(iter), FinishFunction(m_stack[iter]) = "Validate"
                PROVE  FieldsAreComplete
    BY DEF PropEndsComplete
  <2>1. /\ pc = "pop" /\ m_stack \in Seq(Chunk) /\ iter \in DOMAIN m_stack
        /\ m_stack[iter].payload_end_pos = pop_position
    BY DEF AtElement, Ends, ScanOutcomeInv, ScanInv, TypeOK, PopInv
  <2>2. Missing(m_stack[iter]) = {} /\ chunk_parse_stage = "FinishingChunk"
    BY <2>1 DEF ScanOutcomeInv, ScanInv, PopInv, ControlInv
  <2>3. Known(m_stack[iter].fourcc) /\ Descriptions[m_stack[iter].fourcc].finish = "Validate"
    BY DEF FinishFunction
  <2>4. RequiredFields \subseteq m_stack[iter].observed
    BY <2>2, <2>3, TableAssumption DEF Missing, Known
  <2>5. m_stack[iter].observed \cap RequiredFields \subseteq parsed
    BY <2>1, <2>2 DEF ScanOutcomeInv, OutcomeInv, ReturnsInv, ObservedInv, Observing
  <2>. QED BY <2>4, <2>5 DEF FieldsAreComplete
<1>. QED BY <1>1, ScanOutcomeInvHolds, PTL

\* Whichever way the Streaming stage is entered, the first byte that is streamed is the first
\* byte of the payload.
THEOREM PlaybackAlwaysStartsAtPayload == Spec => PlaybackStartsAtPayload
<1>1. ASSUME ScanOutcomeInv, Next, parse_stage # "Streaming", parse_stage' = "Streaming"
      PROVE  /\ payload'.size > 0
             /\ byte_position' = payload'.position
             /\ Pushing => upstream_position' = payload'.position + available'
  <2>1. ScanInv /\ TypeOK /\ StreamInv /\ PayloadInv /\ ContentLeftInv
    BY <1>1 DEF ScanOutcomeInv, ScanInv, OutcomeInv, ReturnsInv
  <2>2. payload.position \in UInt64 /\ 0 \in UInt64
    BY <2>1, WidthAssumption DEF TypeOK, UInt64
  <2>3. CASE ScanningFinished /\ UNCHANGED <<medium, payload>>
    <3>1. Pushing => Lesser(payload.position, medium.size) = payload.position
      BY <2>1 DEF PayloadInv, Lesser
    <3>. QED BY <1>1, <2>2, <2>3, <3>1
         DEF ScanningFinished, FinishWithoutPayload, FinishByRewinding, FinishBySeekingUpstream,
             StartStreamingAt, UpstreamSeek, PayloadLocated, UInt64
  <2>4. CASE ParsePayload
    <3>1. UNCHANGED io_vars
      BY <1>1, <2>1, <2>4, ParsePayloadOutcome
    <3>. QED BY <2>1, <2>4, <3>1, ParsePayloadOutcome DEF io_vars, PayloadLocated
  <2>5. CASE UpstreamSegment
    BY <1>1, <2>1, <2>2, <2>5
       DEF UpstreamSegment, HandleSinkSegment, StartStreamingAt, StreamInv, Scanning, PayloadLocated, UInt64
  <2>6. CASE UNCHANGED parse_stage
    BY <1>1, <2>6
  <2>. QED BY <1>1, <2>1, <2>3, <2>4, <2>5, <2>6, ScanSteps DEF InputUnchanged, ScansOn, ChainReturns
<1>2. ScanOutcomeInv /\ [Next]_vars =>
        [parse_stage # "Streaming" /\ parse_stage' = "Streaming" =>
           /\ payload'.size > 0
           /\ byte_position' = payload'.position
           /\ Pushing => upstream_position' = payload'.position + available']_vars
  BY <1>1
<1>. QED BY <1>2, ScanOutcomeInvHolds, PTL DEF Spec, PlaybackStartsAtPayload

===============================================================================
