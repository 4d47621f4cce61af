---------------------------- MODULE ScanFlushProofs ----------------------------
(***************************************************************************)
(* Every step of a scan that is flushed keeps FlushInv, for every medium,  *)
(* every table of chunk descriptions, every size of the integers and any   *)
(* number of flushes; and what follows from it.                            *)
(***************************************************************************)
EXTENDS ScanFlush, ChunkParseLemmas

-------------------------------------------------------------------------------
(***************************************************************************)
(* Types                                                                   *)
(***************************************************************************)

\* The types of the fields that reads, skips and seeks change.
IoTyped ==
  /\ byte_position \in UInt64 /\ available \in UInt64 /\ upstream_position \in UInt64
  /\ pending_segment_start \in UInt64 \cup {NoSegment}

\* The medium is one of the assumed media, and no position exceeds the integers.
LEMMA FlushMediumType ==
  ASSUME FlushTypeOK
  PROVE  /\ medium.size \in UInt64 /\ medium.seekable \in BOOLEAN
         /\ IoTyped
         /\ payload.position \in UInt64 /\ payload.size \in UInt64
         /\ NoSegment \notin UInt64 /\ 0 \in UInt64
  BY MediaAssumption, WidthAssumption DEF FlushTypeOK, IoTyped, Medium, UInt64, NoSegment

\* An empty adapter adds nothing to the position.
LEMMA NothingAdds ==
  ASSUME NEW a \in UInt64, NEW b, NEW c, b = a, c = 0
  PROVE  a = b + c
  BY WidthAssumption DEF UInt64

\* While content is parsed there is a chunk, of the type of a chunk, that has some.
LEMMA FlushFrontType ==
  ASSUME FlushInv, chunk_parse_stage = "ParsingChunkContent"
  PROVE  /\ Front \in Chunk
         /\ Front.fourcc \in Fourccs
         /\ Front.size \in UInt64 /\ Front.size > 0
         /\ Front.payload_end_pos \in UInt64
         /\ NumRemaining \in UInt64
         /\ Known(Front.fourcc) => Prefix \in UInt64
         /\ TextLength \in UInt64 \cup {NotRead}
<1>1. m_stack \in Seq(Chunk) /\ m_stack # << >> /\ Front.size > 0
  BY DEF FlushInv, FlushTypeOK, FlushControl
<1>2. m_stack[1] \in Chunk
  BY <1>1
<1>3. /\ Front \in Chunk /\ Front.fourcc \in Fourccs
      /\ Front.size \in UInt64 /\ Front.payload_end_pos \in UInt64
  BY <1>2 DEF Front, Chunk
<1>4. NumRemaining \in UInt64
  <2>1. Front.payload_end_pos - byte_position \in Int
    BY <1>3, WidthAssumption DEF FlushInv, FlushTypeOK, UInt64
  <2>. QED BY <2>1, WrapType DEF NumRemaining
<1>5. Known(Front.fourcc) => Prefix \in UInt64
  BY DescriptionType DEF Prefix, ChunkDescription
<1>6. TextLength \in UInt64 \cup {NotRead}
  BY <1>3 DEF TextLength, FlushInv, FlushTypeOK
<1>. QED BY <1>1, <1>3, <1>4, <1>5, <1>6

-------------------------------------------------------------------------------
(***************************************************************************)
(* Reads, skips and the end of the scan keep the input in step             *)
(***************************************************************************)

\* A read keeps position, adapter and upstream in step, or changes nothing.
LEMMA FlushReadEffect ==
  ASSUME FlushInv, flow_ret # "ERROR", NEW n \in UInt64, NEW ret, Read(n, ret),
         UNCHANGED <<medium, parse_stage>>
  PROVE  /\ IoTyped' /\ FlushInput'
         /\ UNCHANGED pending_segment_start
<1>. USE WidthAssumption DEF UInt64
<1>0. FlushTypeOK /\ IoTyped /\ medium.size \in UInt64 /\ upstream_position <= medium.size /\ InputAligned
  BY FlushMediumType DEF FlushInv, FlushInput
<1>1. CASE ret # "OK"
  <2>1. UNCHANGED io_vars
    BY <1>1 DEF Read
  <2>. QED BY <1>0, <2>1 DEF io_vars, IoTyped, FlushInput, InputAligned, Pushing, Scanning
<1>2. CASE ret = "OK"
  <2>1. Consume(n) /\ (Pushing => n <= available)
    BY <1>0, <1>2 DEF Read, ReadReturnCode, IoTyped
  <2>2. /\ byte_position' = Wrap(byte_position + n)
        /\ available' = IF Pushing THEN available - n ELSE available
        /\ UNCHANGED <<upstream_position, pending_segment_start>>
    BY <2>1 DEF Consume
  <2>3. byte_position' \in UInt64
    BY <1>0, <2>2, WrapType DEF IoTyped
  <2>4. available' \in UInt64
    BY <1>0, <2>1, <2>2 DEF IoTyped
  <2>5. ASSUME Pushing, parse_stage # "StreamFailure"
        PROVE  IF pending_segment_start = NoSegment
               THEN upstream_position = byte_position' + available'
               ELSE /\ upstream_position = pending_segment_start
                    /\ Scanning => available' = 0
    <3>1. CASE pending_segment_start = NoSegment
      <4>1. upstream_position = byte_position + available
        BY <1>0, <2>5, <3>1 DEF InputAligned
      <4>2. byte_position + n \in UInt64
        BY <1>0, <2>1, <2>5, <4>1 DEF IoTyped
      <4>3. byte_position' = byte_position + n
        BY <2>2, <4>2, WrapIdentity
      <4>. QED BY <1>0, <2>2, <2>5, <3>1, <4>1, <4>3 DEF IoTyped
    <3>2. CASE pending_segment_start # NoSegment
      <4>1. upstream_position = pending_segment_start /\ (Scanning => available = 0)
        BY <1>0, <2>5, <3>2 DEF InputAligned
      <4>. QED BY <1>0, <2>1, <2>2, <2>5, <3>2, <4>1 DEF IoTyped
    <3>. QED BY <3>1, <3>2
  <2>6. InputAligned'
    BY <2>2, <2>5 DEF InputAligned, Pushing, Scanning
  <2>. QED BY <1>0, <2>2, <2>3, <2>4, <2>6 DEF IoTyped, FlushInput
<1>. QED BY <1>1, <1>2

\* So does a skip: it consumes what the adapter has, or seeks and empties the adapter.
LEMMA FlushSkipEffect ==
  ASSUME FlushInv, flow_ret # "ERROR", Scanning,
         NEW n \in UInt64, NEW force \in BOOLEAN, NEW ret, NEW skipped,
         Skip(n, force, ret, skipped),
         ret = "ERROR" => flow_ret' = "ERROR",
         UNCHANGED <<medium, parse_stage>>
  PROVE  /\ IoTyped' /\ FlushInput'
         /\ ret \in {"OK", "ERROR", "ADVANCE_OUT_OF_BOUNDS"}
<1>. USE WidthAssumption DEF UInt64
<1>0. FlushTypeOK /\ IoTyped /\ medium.size \in UInt64 /\ upstream_position <= medium.size /\ InputAligned
      /\ parse_stage # "StreamFailure" /\ 0 \in UInt64
  BY FlushMediumType DEF FlushInv, FlushInput, Scanning
<1>1. CASE ret = "ADVANCE_OUT_OF_BOUNDS" /\ UNCHANGED io_vars
  BY <1>0, <1>1 DEF io_vars, IoTyped, FlushInput, InputAligned, Pushing, Scanning
<1>2. CASE ~SkipsBySeeking(n, force) /\ ret = "OK" /\ Consume(skipped)
  <2>1. skipped \in UInt64 /\ (Pushing => skipped <= available)
    BY <1>0, <1>2 DEF Skip, SkipsBySeeking, SkipsPartially, SkipsByConsuming, IoTyped
  <2>2. /\ byte_position' = Wrap(byte_position + skipped)
        /\ available' = IF Pushing THEN available - skipped ELSE available
        /\ UNCHANGED <<upstream_position, pending_segment_start>>
    BY <1>2 DEF Consume
  <2>3. byte_position' \in UInt64 /\ available' \in UInt64
    BY <1>0, <2>1, <2>2, WrapType DEF IoTyped
  <2>4. ASSUME Pushing
        PROVE  IF pending_segment_start = NoSegment
               THEN upstream_position = byte_position' + available'
               ELSE upstream_position = pending_segment_start /\ available' = 0
    <3>1. CASE pending_segment_start = NoSegment
      <4>1. upstream_position = byte_position + available
        BY <1>0, <2>4, <3>1 DEF InputAligned
      <4>2. byte_position + skipped \in UInt64
        BY <1>0, <2>1, <2>4, <4>1 DEF IoTyped
      <4>3. byte_position' = byte_position + skipped
        BY <2>2, <4>2, WrapIdentity
      <4>. QED BY <1>0, <2>1, <2>2, <2>4, <3>1, <4>1, <4>3 DEF IoTyped
    <3>2. CASE pending_segment_start # NoSegment
      <4>1. upstream_position = pending_segment_start /\ available = 0
        BY <1>0, <2>4, <3>2 DEF InputAligned
      <4>. QED BY <1>0, <2>1, <2>2, <2>4, <3>2, <4>1 DEF IoTyped
    <3>. QED BY <3>1, <3>2
  <2>5. InputAligned'
    BY <2>2, <2>4 DEF InputAligned, Pushing, Scanning
  <2>. QED BY <1>0, <1>2, <2>2, <2>3, <2>5 DEF IoTyped, FlushInput
<1>3. CASE SeekForward(n, ret)
  <2>1. available' = 0
    BY <1>3 DEF SeekForward
  <2>2. CASE ret = "ERROR" /\ UNCHANGED <<byte_position, upstream_position, pending_segment_start>>
    BY <1>0, <2>1, <2>2 DEF IoTyped, FlushInput, InputAligned
  <2>3. CASE ret = "OK"
    <3>1. PICK sync \in BOOLEAN :
            /\ UpstreamSeek(Wrap(byte_position + n), sync)
            /\ byte_position' = IF sync THEN upstream_position' ELSE Wrap(byte_position + n)
      BY <1>3, <2>3 DEF SeekForward
    <3>2. Wrap(byte_position + n) \in UInt64
      BY <1>0, WrapType DEF IoTyped
    <3>3. /\ upstream_position' = Lesser(Wrap(byte_position + n), medium.size)
          /\ pending_segment_start' = IF sync THEN NoSegment ELSE upstream_position'
      BY <3>1 DEF UpstreamSeek
    <3>. HIDE DEF UInt64
    <3>4. upstream_position' \in UInt64 /\ upstream_position' <= medium.size
      BY <1>0, <3>2, <3>3 DEF Lesser, UInt64
    <3>5. IoTyped'
      BY <1>0, <2>1, <3>1, <3>2, <3>3, <3>4 DEF IoTyped
    <3>6. InputAligned'
      <4>1. CASE sync
        <5>1. byte_position' = upstream_position' /\ pending_segment_start' = NoSegment
          BY <3>1, <3>3, <4>1
        <5>2. upstream_position' = byte_position' + available'
          BY <2>1, <3>4, <5>1, NothingAdds
        <5>. QED BY <5>1, <5>2 DEF InputAligned
      <4>2. CASE ~sync
        <5>1. pending_segment_start' = upstream_position' /\ pending_segment_start' # NoSegment
          BY <3>3, <3>4, <4>2, FlushMediumType, <1>0
        <5>. QED BY <2>1, <5>1 DEF InputAligned
      <4>. QED BY <4>1, <4>2
    <3>. QED BY <2>3, <3>4, <3>5, <3>6 DEF FlushInput
  <2>. QED BY <1>3, <2>2, <2>3 DEF SeekForward
<1>. QED BY <1>1, <1>2, <1>3 DEF Skip

\* The end of the scan leaves upstream at the payload, on its way there, or has failed.
LEMMA FlushScanningFinished ==
  ASSUME FlushInv, flow_ret # "ERROR", ScanningFinished, UNCHANGED <<medium, payload>>
  PROVE  /\ IoTyped' /\ parse_stage' \in Stages /\ ~Scanning'
         /\ FlushInput' /\ FlushPayload'
         /\ StreamingStarts => InPlace
<1>0. /\ FlushTypeOK /\ IoTyped /\ medium.size \in UInt64
      /\ upstream_position <= medium.size /\ InputAligned
      /\ payload.position \in UInt64 /\ payload.size \in UInt64 /\ 0 \in UInt64
      /\ FlushPayload /\ NoSegment \notin UInt64 /\ parse_stage \in Stages
  BY FlushMediumType DEF FlushInv, FlushInput, FlushTypeOK
<1>1. CASE parse_stage = "Streaming" /\ UNCHANGED <<parse_stage, io_vars>>
  BY <1>0, <1>1 DEF io_vars, IoTyped, FlushInput, InputAligned, FlushPayload, Pushing, Scanning,
                    PayloadLocated, StreamingStarts
<1>2. CASE FinishWithoutPayload
  BY <1>0, <1>2 DEF FinishWithoutPayload, io_vars, IoTyped, FlushInput, InputAligned, FlushPayload,
                    Pushing, Scanning, PayloadLocated, StreamingStarts, Stages
<1>3. CASE FinishByRewinding
  BY <1>0, <1>3 DEF FinishByRewinding, StartStreamingAt, IoTyped, FlushInput, InputAligned,
                    FlushPayload, Pushing, Scanning, PayloadLocated, StreamingStarts, InPlace, Stages
<1>4. CASE FinishBySeekingUpstream
  <2>1. PayloadLocated /\ Pushing /\ payload.position <= medium.size
    BY <1>0, <1>4 DEF FinishBySeekingUpstream, FlushPayload
  <2>2. Lesser(payload.position, medium.size) = payload.position
    BY <2>1 DEF Lesser
  <2>3. CASE /\ UpstreamSeek(payload.position, TRUE)
             /\ StartStreamingAt(upstream_position')
             /\ available' = 0
    <3>1. /\ upstream_position' = payload.position /\ byte_position' = payload.position
          /\ pending_segment_start' = NoSegment /\ available' = 0
          /\ parse_stage' \in {"Streaming", "StreamFailure"}
      BY <2>2, <2>3 DEF UpstreamSeek, StartStreamingAt
    <3>2. upstream_position' = byte_position' + available'
      BY <1>0, <3>1, WidthAssumption DEF UInt64
    <3>3. upstream_position' = payload'.position + available'
      BY <3>1, <3>2
    <3>4. payload'.size > 0 /\ (PayloadLocated /\ Pushing => payload.position <= medium.size)'
      BY <2>1 DEF PayloadLocated
    <3>5. FlushInput'
      BY <2>1, <3>1, <3>2 DEF FlushInput, InputAligned
    <3>. QED BY <1>0, <3>1, <3>3, <3>4, <3>5 DEF IoTyped, FlushPayload, Scanning, InPlace, Stages
  <2>4. CASE /\ UpstreamSeek(payload.position, FALSE)
             /\ parse_stage' = "AwaitingSegment"
             /\ UNCHANGED <<byte_position, available>>
    <3>1. /\ upstream_position' = payload.position /\ pending_segment_start' = payload.position
      BY <2>2, <2>4 DEF UpstreamSeek
    <3>. QED BY <1>0, <2>1, <2>4, <3>1 DEF IoTyped, FlushInput, InputAligned, FlushPayload, Scanning,
                                           PayloadLocated, StreamingStarts, Stages
  <2>5. CASE parse_stage' = "StreamFailure" /\ UNCHANGED io_vars
    BY <1>0, <2>5 DEF io_vars, IoTyped, FlushInput, InputAligned, FlushPayload, Pushing, Scanning,
                      PayloadLocated, StreamingStarts, Stages
  <2>. QED BY <1>4, <2>3, <2>4, <2>5 DEF FinishBySeekingUpstream
<1>. QED BY <1>1, <1>2, <1>3, <1>4 DEF ScanningFinished

-------------------------------------------------------------------------------
(***************************************************************************)
(* What most steps have in common                                          *)
(***************************************************************************)

\* The step that is to be proved for every action.
FlushStepIsGood == FlushInv' /\ (StreamingStarts => InPlace)

\* The fields of the chunk parser and of the flush.
RestTyped ==
  /\ medium \in Media
  /\ m_stack \in Seq(Chunk) /\ chunk_parse_stage \in ChunkParseStages
  /\ parsed \subseteq Fourccs
  /\ num_chars \in [Fourccs -> UInt64 \cup {NotRead}]
  /\ upstream_size \in UInt64 /\ prop_finished \in BOOLEAN
  /\ scan_from \in UInt64 /\ pop_position \in UInt64
  /\ iter \in Nat \ {0} /\ any_popped \in BOOLEAN
  /\ flushing \in BOOLEAN /\ flush_in_progress \in BOOLEAN
  /\ num_flushes \in 0 .. MaxFlushes

\* FlushTypeOK by its parts.
LEMMA FlushTypeParts ==
  FlushTypeOK <=> /\ RestTyped /\ IoTyped
                  /\ parse_stage \in Stages /\ payload \in [position : UInt64, size : UInt64]
                  /\ pc \in FlushPlaces /\ flow_ret \in FlowReturns
  BY DEF FlushTypeOK, RestTyped, IoTyped

\* What every part of scan_info() that is dispatched to can rely on.
LEMMA FlushDispatch ==
  ASSUME FlushInv, NEW stage, Dispatch(stage)
  PROVE  /\ pc = "loop" /\ flow_ret # "ERROR" /\ Scanning /\ chunk_parse_stage = stage
         /\ Pushing => /\ pending_segment_start = NoSegment
                       /\ upstream_position = byte_position + available
         /\ UNCHANGED <<medium, pop_vars>>
         /\ scan_from' = byte_position
<1>1. /\ pc = "loop" /\ Scanning /\ chunk_parse_stage = stage
      /\ Pushing => available > 0
      /\ UNCHANGED <<medium, pop_vars>>
      /\ scan_from' = byte_position
  BY DEF Dispatch
<1>2. flow_ret # "ERROR"
  BY <1>1 DEF FlushInv, FlushControl
<1>3. ASSUME Pushing
      PROVE  pending_segment_start = NoSegment /\ upstream_position = byte_position + available
  <2>1. available # 0
    BY <1>1, <1>3
  <2>. QED BY <1>1, <1>2, <1>3, <2>1 DEF FlushInv, FlushInput, InputAligned, Scanning
<1>. QED BY <1>1, <1>2, <1>3

\* A step that leaves input, stage and payload alone keeps them in step.
LEMMA FlushQuiet ==
  ASSUME FlushInv, UNCHANGED <<medium, io_vars, parse_stage, payload>>,
         flow_ret # "ERROR" \/ flow_ret' = "ERROR"
  PROVE  IoTyped' /\ FlushInput' /\ FlushPayload' /\ ~StreamingStarts
<1>1. FlushTypeOK /\ IoTyped /\ FlushInput /\ FlushPayload
  BY FlushMediumType DEF FlushInv
<1>2. /\ medium' = medium /\ byte_position' = byte_position /\ available' = available
      /\ upstream_position' = upstream_position
      /\ pending_segment_start' = pending_segment_start
      /\ parse_stage' = parse_stage /\ payload' = payload
  BY DEF io_vars
<1>. QED BY <1>1, <1>2 DEF IoTyped, FlushInput, InputAligned, FlushPayload, Pushing, Scanning,
                           PayloadLocated, StreamingStarts

\* A step that returns to a place from which nothing is finished or interrupted.
LEMMA FlushReturns ==
  ASSUME FlushInv, m_stack' = m_stack,
         pc' \in {"settle", "scanned", "stopped", "aborted"}, flow_ret' \in FlowReturns,
         chunk_parse_stage' = "ParsingChunkContent" => chunk_parse_stage = "ParsingChunkContent",
         RestTyped', IoTyped', parse_stage' \in Stages,
         payload' \in [position : UInt64, size : UInt64],
         FlushInput', FlushPayload'
  PROVE  FlushInv'
<1>1. FlushTypeOK'
  BY FlushTypeParts DEF FlushTypeOK, RestTyped, IoTyped, FlushPlaces, Places
<1>2. FlushControl'
  BY DEF FlushInv, FlushControl, Front
<1>. QED BY <1>1, <1>2 DEF FlushInv

\* A read by a parse function that returns what the read returned, or an error.
LEMMA FlushReadReturns ==
  ASSUME FlushInv, flow_ret # "ERROR", NEW n \in UInt64, NEW ret, Read(n, ret),
         UNCHANGED <<medium, parse_stage, payload, m_stack>>, RestTyped',
         pc' \in {"settle", "scanned", "stopped", "aborted"}, flow_ret' \in FlowReturns,
         chunk_parse_stage' = "ParsingChunkContent" => chunk_parse_stage = "ParsingChunkContent"
  PROVE  FlushStepIsGood
<1>1. IoTyped' /\ FlushInput' /\ UNCHANGED pending_segment_start
  BY FlushReadEffect
<1>2. FlushPayload' /\ ~StreamingStarts
  BY <1>1 DEF FlushInv, FlushPayload, PayloadLocated, Pushing, StreamingStarts
<1>3. parse_stage' \in Stages /\ payload' \in [position : UInt64, size : UInt64]
  BY DEF FlushInv, FlushTypeOK
<1>4. FlushInv'
  BY <1>1, <1>2, <1>3, FlushReturns
<1>. QED BY <1>2, <1>4 DEF FlushStepIsGood

-------------------------------------------------------------------------------
(***************************************************************************)
(* scan_info(): the start of a chunk                                       *)
(***************************************************************************)

\* A chunk without a further subchunk is finished next.
LEMMA NoFurtherSubchunkFlushed ==
  ASSUME FlushInv, NoFurtherSubchunk, UNCHANGED flush_vars PROVE FlushStepIsGood
<1>1. Dispatch("ParsingChunkStart") /\ Returns("NOTHING_TO_READ") /\ chunk_parse_stage' = "FinishingChunk"
      /\ UNCHANGED <<io_vars, parse_stage, payload, m_stack, prop_vars>>
  BY DEF NoFurtherSubchunk
<1>2. UNCHANGED <<medium, pop_vars>> /\ scan_from' = byte_position /\ flow_ret # "ERROR"
  BY <1>1, FlushDispatch
<1>3. IoTyped' /\ FlushInput' /\ FlushPayload' /\ ~StreamingStarts
  BY <1>1, <1>2, FlushQuiet
<1>4. RestTyped' /\ parse_stage' \in Stages /\ payload' \in [position : UInt64, size : UInt64]
  BY <1>1, <1>2 DEF FlushInv, FlushTypeOK, RestTyped, prop_vars, pop_vars, flush_vars, ChunkParseStages
<1>5. FlushInv'
  BY <1>1, <1>3, <1>4, FlushReturns DEF Returns, FlowReturns
<1>. QED BY <1>3, <1>5 DEF FlushStepIsGood

\* A header that is not read leaves the stage as it is.
LEMMA HeaderNotReadFlushed ==
  ASSUME FlushInv, HeaderNotRead, UNCHANGED flush_vars PROVE FlushStepIsGood
<1>1. Dispatch("ParsingChunkStart") /\ UNCHANGED <<parse_stage, payload, stack_vars, prop_vars>>
  BY DEF HeaderNotRead
<1>2. PICK ret \in FlowReturns \ {"OK"} : Read(HeaderSize, ret) /\ Returns(ret)
  BY DEF HeaderNotRead
<1>3. UNCHANGED <<medium, pop_vars>> /\ scan_from' = byte_position /\ flow_ret # "ERROR"
  BY <1>1, FlushDispatch
<1>4. RestTyped'
  BY <1>1, <1>3 DEF FlushInv, FlushTypeOK, RestTyped, stack_vars, prop_vars, pop_vars, flush_vars
<1>5. HeaderSize \in UInt64
  BY HeaderAssumption
<1>. QED BY <1>1, <1>2, <1>3, <1>4, <1>5, FlushReadReturns DEF Returns, stack_vars

\* A step that leaves off where something went wrong, with what it was doing not failed yet.
LEMMA FlushCorrupted ==
  ASSUME FlushInv, pc' = "corrupt_settle", flow_ret' # "ERROR", flow_ret' \in FlowReturns,
         chunk_parse_stage' # "ParsingChunkContent",
         RestTyped', IoTyped', parse_stage' \in Stages,
         payload' \in [position : UInt64, size : UInt64],
         FlushInput', FlushPayload'
  PROVE  FlushInv'
<1>1. FlushTypeOK'
  BY FlushTypeParts DEF FlushTypeOK, RestTyped, IoTyped, FlushPlaces, Places
<1>2. FlushControl'
  BY DEF FlushControl
<1>. QED BY <1>1, <1>2 DEF FlushInv

\* A chunk is entered with content to parse, or without any, or not at all.
LEMMA ParseChunkStartFlushed ==
  ASSUME FlushInv, ParseChunkStart, UNCHANGED flush_vars PROVE FlushStepIsGood
<1>1. Dispatch("ParsingChunkStart") /\ Read(HeaderSize, "OK")
      /\ UNCHANGED <<parse_stage, payload, prop_vars>>
  BY DEF ParseChunkStart
<1>2. /\ UNCHANGED <<medium, pop_vars>> /\ scan_from' = byte_position
      /\ flow_ret # "ERROR" /\ chunk_parse_stage = "ParsingChunkStart"
  BY <1>1, FlushDispatch
<1>3. HeaderSize \in UInt64
  BY HeaderAssumption
<1>4. IoTyped' /\ FlushInput' /\ UNCHANGED pending_segment_start
  BY <1>1, <1>2, <1>3, FlushReadEffect
<1>5. FlushPayload' /\ ~StreamingStarts
  BY <1>1, <1>2, <1>4 DEF FlushInv, FlushPayload, PayloadLocated, Pushing, StreamingStarts
<1>6. FlushTypeOK /\ m_stack \in Seq(Chunk)
  BY DEF FlushInv, FlushTypeOK
<1>7. ASSUME m_stack' \in Seq(Chunk), chunk_parse_stage' \in ChunkParseStages
      PROVE  /\ RestTyped' /\ parse_stage' \in Stages
             /\ payload' \in [position : UInt64, size : UInt64]
  BY <1>1, <1>2, <1>6, <1>7 DEF FlushInv, FlushTypeOK, RestTyped, prop_vars, pop_vars, flush_vars
<1>8. PICK f \in Fourccs : \E raw_size \in RawSizes[f] :
        IF SizeIsUnusable(raw_size, byte_position')
        THEN pc' = "corrupt_settle" /\ UNCHANGED <<stack_vars, flow_ret>>
        ELSE EnterChunk(f, raw_size, byte_position')
  BY DEF ParseChunkStart
<1>9. PICK raw_size \in RawSizes[f] :
        IF SizeIsUnusable(raw_size, byte_position')
        THEN pc' = "corrupt_settle" /\ UNCHANGED <<stack_vars, flow_ret>>
        ELSE EnterChunk(f, raw_size, byte_position')
  BY <1>8
<1>10. raw_size \in UInt64
  BY <1>8, <1>9, HeaderAssumption
<1>11. CASE SizeIsUnusable(raw_size, byte_position')
  <2>1. pc' = "corrupt_settle" /\ UNCHANGED <<stack_vars, flow_ret>>
    BY <1>9, <1>11
  <2>2. chunk_parse_stage' # "ParsingChunkContent" /\ flow_ret' # "ERROR" /\ flow_ret' \in FlowReturns
        /\ m_stack' \in Seq(Chunk) /\ chunk_parse_stage' \in ChunkParseStages
    BY <1>2, <1>6, <2>1 DEF stack_vars, FlushTypeOK
  <2>3. FlushInv'
    BY <1>4, <1>5, <1>7, <2>1, <2>2, FlushCorrupted
  <2>. QED BY <1>5, <2>3 DEF FlushStepIsGood
<1>12. CASE ~SizeIsUnusable(raw_size, byte_position')
  <2>. DEFINE size == ContentSize(raw_size)
              end  == byte_position' + Padded(size)
  <2>1. size \in UInt64 /\ end \in UInt64 /\ byte_position' \in UInt64
    BY <1>4, <1>10, <1>12, UsableSize DEF IoTyped
  <2>2. /\ PushChunk(f, size, byte_position', end)
        /\ IF PushReturnCode(f, size, byte_position', end) = "Ok"
           THEN /\ chunk_parse_stage' = IF size = 0 THEN "FinishingChunk" ELSE "ParsingChunkContent"
                /\ Returns("OK")
           ELSE /\ pc' = "corrupt_settle"
                /\ UNCHANGED <<chunk_parse_stage, flow_ret>>
    BY <1>9, <1>12 DEF EnterChunk
  <2>. HIDE DEF size, end
  <2>3. /\ m_stack' \in Seq(Chunk)
        /\ PushReturnCode(f, size, byte_position', end) = "Ok" =>
             /\ Len(m_stack') = Len(m_stack) + 1
             /\ m_stack'[1] = [fourcc |-> f, size |-> size, payload_begin_pos |-> byte_position',
                               payload_end_pos |-> end, observed |-> {}]
    BY <1>6, <2>1, <2>2, PushKeepsStack
  <2>4. chunk_parse_stage' \in ChunkParseStages
    BY <1>2, <2>2 DEF ChunkParseStages
  <2>5. CASE PushReturnCode(f, size, byte_position', end) = "Ok"
    <3>1. pc' = "settle" /\ flow_ret' = "OK"
      BY <2>2, <2>5 DEF Returns
    <3>2. chunk_parse_stage' = "ParsingChunkContent" => size # 0
      BY <2>2, <2>5
    <3>3. m_stack' # << >>
      BY <1>6, <2>3, <2>5
    <3>4. m_stack'[1].size = size
      BY <2>3, <2>5
    <3>5. size # 0 => size > 0
      BY <2>1 DEF UInt64
    <3>6. chunk_parse_stage' = "ParsingChunkContent" => m_stack' # << >> /\ m_stack'[1].size > 0
      BY <3>2, <3>3, <3>4, <3>5
    <3>7. FlushTypeOK'
      BY <1>4, <1>7, <2>3, <2>4, <3>1, FlushTypeParts DEF RestTyped, IoTyped, FlushTypeOK, FlushPlaces, Places, FlowReturns
    <3>8. FlushControl'
      BY <3>1, <3>6 DEF FlushControl, Front
    <3>9. FlushInv'
      BY <1>4, <1>5, <3>7, <3>8 DEF FlushInv
    <3>. QED BY <1>5, <3>9 DEF FlushStepIsGood
  <2>6. CASE PushReturnCode(f, size, byte_position', end) # "Ok"
    <3>1. /\ pc' = "corrupt_settle" /\ chunk_parse_stage' # "ParsingChunkContent"
          /\ flow_ret' # "ERROR" /\ flow_ret' \in FlowReturns
      BY <1>2, <1>6, <2>2, <2>6 DEF FlushTypeOK
    <3>2. FlushInv'
      BY <1>4, <1>5, <1>7, <2>3, <2>4, <3>1, FlushCorrupted
    <3>. QED BY <1>5, <3>2 DEF FlushStepIsGood
  <2>. QED BY <2>5, <2>6
<1>. QED BY <1>11, <1>12

-------------------------------------------------------------------------------
(***************************************************************************)
(* scan_info(): the content of a chunk, except for the payload             *)
(***************************************************************************)

\* An unknown chunk is skipped, in parts or whole.
LEMMA SkipUnknownChunkFlushed ==
  ASSUME FlushInv, SkipUnknownChunk, UNCHANGED flush_vars PROVE FlushStepIsGood
<1>1. Dispatch("ParsingChunkContent") /\ UNCHANGED <<parse_stage, payload, m_stack, prop_vars>>
  BY DEF SkipUnknownChunk
<1>2. PICK ret \in FlowReturns, skipped \in {NumRemaining, available} :
        /\ Skip(NumRemaining, FALSE, ret, skipped)
        /\ Returns(IF ret = "OK" /\ skipped = 0 THEN "NOT_ENOUGH_DATA" ELSE ret)
        /\ chunk_parse_stage' = IF ret = "OK" /\ skipped = NumRemaining THEN "FinishingChunk"
                                                                       ELSE chunk_parse_stage
  BY DEF SkipUnknownChunk
<1>3. /\ UNCHANGED <<medium, pop_vars>> /\ scan_from' = byte_position
      /\ flow_ret # "ERROR" /\ Scanning /\ chunk_parse_stage = "ParsingChunkContent"
  BY <1>1, FlushDispatch
<1>4. NumRemaining \in UInt64
  BY <1>3, FlushFrontType
<1>5. /\ ret = "ERROR" => flow_ret' = "ERROR"
      /\ flow_ret' \in FlowReturns /\ pc' = "settle"
      /\ chunk_parse_stage' \in ChunkParseStages
  BY <1>2, <1>3 DEF Returns, FlowReturns, ChunkParseStages
<1>6. IoTyped' /\ FlushInput'
  BY <1>1, <1>2, <1>3, <1>4, <1>5, FlushSkipEffect
<1>7. FlushPayload' /\ ~StreamingStarts
  BY <1>1, <1>3 DEF FlushInv, FlushPayload, PayloadLocated, Pushing, StreamingStarts, Scanning
<1>8. RestTyped' /\ parse_stage' \in Stages /\ payload' \in [position : UInt64, size : UInt64]
  BY <1>1, <1>3, <1>5 DEF FlushInv, FlushTypeOK, RestTyped, prop_vars, pop_vars, flush_vars
<1>9. FlushInv'
  BY <1>1, <1>3, <1>5, <1>6, <1>7, <1>8, FlushReturns
<1>. QED BY <1>7, <1>9 DEF FlushStepIsGood

\* The fixed part of a known chunk is read, or waited for.
LEMMA PrefixReadFlushed ==
  ASSUME FlushInv, Dispatch("ParsingChunkContent"), Known(Front.fourcc),
         NEW ret, Read(Prefix, ret), pc' \in {"settle", "stopped"}, flow_ret' \in FlowReturns,
         chunk_parse_stage' \in ChunkParseStages,
         UNCHANGED <<parse_stage, payload, m_stack, num_chars, prop_finished, flush_vars>>,
         parsed' \subseteq Fourccs, upstream_size' \in UInt64
  PROVE  FlushStepIsGood
<1>1. /\ UNCHANGED <<medium, pop_vars>> /\ scan_from' = byte_position
      /\ flow_ret # "ERROR" /\ chunk_parse_stage = "ParsingChunkContent"
  BY FlushDispatch
<1>2. Prefix \in UInt64
  BY <1>1, FlushFrontType
<1>3. RestTyped'
  BY <1>1 DEF FlushInv, FlushTypeOK, RestTyped, pop_vars, flush_vars
<1>. QED BY <1>1, <1>2, <1>3, FlushReadReturns

\* PrefixNotRead, ParseLeaf and ParseForm.
LEMMA FixedPartsFlushed ==
  ASSUME FlushInv, PrefixNotRead \/ ParseLeaf \/ ParseForm, UNCHANGED flush_vars
  PROVE  FlushStepIsGood
<1>1. /\ parsed \subseteq Fourccs /\ upstream_size \in UInt64 /\ medium.size \in UInt64
      /\ chunk_parse_stage \in ChunkParseStages
  BY FlushMediumType DEF FlushInv, FlushTypeOK
<1>2. CASE PrefixNotRead
  <2>1. Dispatch("ParsingChunkContent") /\ Known(Front.fourcc)
        /\ UNCHANGED <<parse_stage, payload, m_stack, num_chars, prop_finished, chunk_parse_stage,
                       parsed, upstream_size>>
    BY <1>2 DEF PrefixNotRead, Parsing, stack_vars, prop_vars
  <2>2. PICK ret \in FlowReturns \ {"OK"} : Read(Prefix, ret) /\ Returns(ret)
    BY <1>2 DEF PrefixNotRead
  <2>. QED BY <1>1, <2>1, <2>2, PrefixReadFlushed DEF Returns
<1>3. CASE ParseLeaf
  <2>1. Dispatch("ParsingChunkContent") /\ Known(Front.fourcc) /\ Read(Prefix, "OK")
        /\ UNCHANGED <<parse_stage, payload, m_stack, num_chars, prop_finished, upstream_size>>
    BY <1>3 DEF ParseLeaf, Parsing
  <2>2. Front.fourcc \in Fourccs
    BY <2>1, FlushDispatch, FlushFrontType
  <2>3. /\ chunk_parse_stage' \in ChunkParseStages /\ parsed' \subseteq Fourccs
        /\ pc' = "settle" /\ flow_ret' \in FlowReturns
    BY <1>1, <1>3, <2>2 DEF ParseLeaf, Returns, ChunkParseStages, FlowReturns
  <2>. QED BY <1>1, <2>1, <2>3, PrefixReadFlushed
<1>4. CASE ParseForm
  <2>1. Dispatch("ParsingChunkContent") /\ Known(Front.fourcc) /\ Read(Prefix, "OK")
        /\ UNCHANGED <<parse_stage, payload, m_stack, num_chars, prop_finished, parsed>>
    BY <1>4 DEF ParseForm, Parsing
  <2>2. /\ chunk_parse_stage' \in ChunkParseStages /\ upstream_size' \in UInt64
        /\ pc' = "settle" /\ flow_ret' \in FlowReturns
    BY <1>1, <1>4 DEF ParseForm, Returns, ChunkParseStages, FlowReturns
  <2>. QED BY <1>1, <2>1, <2>2, PrefixReadFlushed
<1>. QED BY <1>2, <1>3, <1>4

\* Steps of a parse function, or of scan_info() itself, that read nothing.
LEMMA FlushNothingRead ==
  ASSUME FlushInv, NEW stage, Dispatch(stage),
         UNCHANGED <<io_vars, parse_stage, payload, m_stack, prop_vars, flush_vars>>,
         pc' \in {"settle", "aborted"}, flow_ret' \in FlowReturns,
         chunk_parse_stage' \in {chunk_parse_stage, "ParsingChunkStart"}
  PROVE  FlushStepIsGood
<1>1. UNCHANGED <<medium, pop_vars>> /\ scan_from' = byte_position /\ flow_ret # "ERROR"
  BY FlushDispatch
<1>2. IoTyped' /\ FlushInput' /\ FlushPayload' /\ ~StreamingStarts
  BY <1>1, FlushQuiet
<1>3. RestTyped' /\ parse_stage' \in Stages /\ payload' \in [position : UInt64, size : UInt64]
  BY <1>1 DEF FlushInv, FlushTypeOK, RestTyped, prop_vars, pop_vars, flush_vars, ChunkParseStages
<1>4. FlushInv'
  BY <1>2, <1>3, FlushReturns
<1>. QED BY <1>2, <1>4 DEF FlushStepIsGood

\* ParseContainer, PayloadUnusable, PayloadReportedAgain and RetryFinish.
LEMMA NothingReadFlushed ==
  ASSUME FlushInv, UNCHANGED flush_vars,
         ParseContainer \/ PayloadUnusable \/ PayloadReportedAgain \/ RetryFinish
  PROVE  FlushStepIsGood
<1>1. flow_ret \in FlowReturns
  BY DEF FlushInv, FlushTypeOK
<1>2. CASE ParseContainer
  BY <1>2, FlushNothingRead DEF ParseContainer, Parsing, Returns, FlowReturns
<1>3. CASE PayloadUnusable
  BY <1>3, FlushNothingRead DEF PayloadUnusable, Parsing, Returns, FlowReturns, stack_vars
<1>4. CASE PayloadReportedAgain
  BY <1>1, <1>4, FlushNothingRead DEF PayloadReportedAgain, Parsing, stack_vars
<1>5. CASE RetryFinish
  BY <1>5, FlushNothingRead DEF RetryFinish, Returns, FlowReturns, stack_vars
<1>. QED BY <1>2, <1>3, <1>4, <1>5

\* The invariant from its parts, and the types of what may have changed.
LEMMA FlushAssembled ==
  ASSUME RestTyped', IoTyped', parse_stage' \in Stages,
         payload' \in [position : UInt64, size : UInt64],
         pc' \in FlushPlaces, flow_ret' \in FlowReturns,
         FlushControl', FlushInput', FlushPayload'
  PROVE  FlushInv'
<1>1. FlushTypeOK'
  BY FlushTypeParts DEF FlushTypeOK, RestTyped, IoTyped
<1>. QED BY <1>1 DEF FlushInv

\* A step that leaves input, stage and payload alone is good if it keeps the control.
LEMMA FlushQuietStep ==
  ASSUME FlushInv, UNCHANGED <<medium, io_vars, parse_stage, payload>>,
         flow_ret # "ERROR" \/ flow_ret' = "ERROR",
         RestTyped', pc' \in FlushPlaces, flow_ret' \in FlowReturns, FlushControl'
  PROVE  FlushStepIsGood
<1>1. IoTyped' /\ FlushInput' /\ FlushPayload' /\ ~StreamingStarts
  BY FlushQuiet
<1>2. parse_stage' \in Stages /\ payload' \in [position : UInt64, size : UInt64]
  BY DEF FlushInv, FlushTypeOK
<1>3. FlushInv'
  BY <1>1, <1>2, FlushAssembled
<1>. QED BY <1>1, <1>3 DEF FlushStepIsGood

\* A text, or a list of IDs: its length is read, or was read before, by the same chunk or
\* by one before the flush.
LEMMA ReadTextLengthFlushed ==
  ASSUME FlushInv, ReadTextLength, UNCHANGED flush_vars PROVE FlushStepIsGood
<1>1. Dispatch("ParsingChunkContent") /\ Known(Front.fourcc)
      /\ UNCHANGED <<parse_stage, payload, stack_vars, upstream_size, prop_finished>>
  BY DEF ReadTextLength, Parsing
<1>2. PICK ret \in FlowReturns :
       /\ Read(Prefix, ret)
       /\ \/ /\ ret = "OK"
             /\ \E length \in Lengths : num_chars' = [num_chars EXCEPT ![Front.fourcc] = length]
             /\ parsed' = parsed \cup {Front.fourcc}
             /\ pc' = "text"
             /\ UNCHANGED flow_ret
          \/ /\ ret # "OK" \/ Front.fourcc \in IdLists
             /\ Returns(IF ret = "OK" THEN "ERROR" ELSE ret)
             /\ UNCHANGED <<num_chars, parsed>>
  BY DEF ReadTextLength
<1>3. /\ UNCHANGED <<medium, pop_vars>> /\ scan_from' = byte_position
      /\ flow_ret # "ERROR" /\ chunk_parse_stage = "ParsingChunkContent"
  BY <1>1, FlushDispatch
<1>4. Prefix \in UInt64 /\ Front.fourcc \in Fourccs
  BY <1>1, <1>3, FlushFrontType
<1>5. IoTyped' /\ FlushInput' /\ UNCHANGED pending_segment_start
  BY <1>1, <1>2, <1>3, <1>4, FlushReadEffect
<1>6. FlushPayload' /\ ~StreamingStarts
  BY <1>1, <1>3, <1>5 DEF FlushInv, FlushPayload, PayloadLocated, Pushing, StreamingStarts
<1>7. parse_stage' \in Stages /\ payload' \in [position : UInt64, size : UInt64]
      /\ flow_ret \in FlowReturns /\ parsed \subseteq Fourccs
      /\ num_chars \in [Fourccs -> UInt64 \cup {NotRead}]
  BY <1>1 DEF FlushInv, FlushTypeOK
<1>8. ASSUME parsed' \subseteq Fourccs, num_chars' \in [Fourccs -> UInt64 \cup {NotRead}]
      PROVE  RestTyped'
  BY <1>1, <1>3, <1>8 DEF FlushInv, FlushTypeOK, RestTyped, pop_vars, flush_vars, stack_vars
<1>9. CASE /\ \E length \in Lengths : num_chars' = [num_chars EXCEPT ![Front.fourcc] = length]
           /\ parsed' = parsed \cup {Front.fourcc}
           /\ pc' = "text"
           /\ UNCHANGED flow_ret
  <2>1. Lengths \subseteq UInt64
    BY HeaderAssumption DEF Lengths, IdListLengths
  <2>2. parsed' \subseteq Fourccs /\ num_chars' \in [Fourccs -> UInt64 \cup {NotRead}]
    BY <1>4, <1>7, <1>9, <2>1
  <2>3. FlushControl'
    BY <1>1, <1>3, <1>9 DEF FlushInv, FlushControl, stack_vars, Front
  <2>4. pc' \in FlushPlaces /\ flow_ret' \in FlowReturns
    BY <1>7, <1>9 DEF FlushPlaces, Places
  <2>5. FlushInv'
    BY <1>5, <1>6, <1>7, <1>8, <2>2, <2>3, <2>4, FlushAssembled
  <2>. QED BY <1>6, <2>5 DEF FlushStepIsGood
<1>10. CASE /\ Returns(IF ret = "OK" THEN "ERROR" ELSE ret)
            /\ UNCHANGED <<num_chars, parsed>>
  <2>1. pc' = "settle" /\ flow_ret' \in FlowReturns
    BY <1>2, <1>10 DEF Returns, FlowReturns
  <2>2. RestTyped'
    BY <1>7, <1>8, <1>10
  <2>. QED BY <1>1, <1>2, <1>3, <1>4, <2>1, <2>2, FlushReadReturns DEF stack_vars
<1>. QED BY <1>2, <1>9, <1>10

\* The length is in the element; the text is next.
LEMMA ResumeTextFlushed ==
  ASSUME FlushInv, ResumeText, UNCHANGED flush_vars PROVE FlushStepIsGood
<1>1. /\ Dispatch("ParsingChunkContent") /\ pc' = "text"
      /\ UNCHANGED <<io_vars, parse_stage, payload, stack_vars, prop_vars, flow_ret>>
  BY DEF ResumeText, Parsing
<1>2. /\ UNCHANGED <<medium, pop_vars>> /\ scan_from' = byte_position
      /\ flow_ret # "ERROR" /\ chunk_parse_stage = "ParsingChunkContent"
  BY <1>1, FlushDispatch
<1>3. RestTyped' /\ pc' \in FlushPlaces /\ flow_ret' \in FlowReturns
  BY <1>1, <1>2 DEF FlushInv, FlushTypeOK, RestTyped, pop_vars, prop_vars, flush_vars, stack_vars, FlushPlaces, Places
<1>4. FlushControl'
  BY <1>1, <1>2 DEF FlushInv, FlushControl, stack_vars, Front
<1>. QED BY <1>1, <1>2, <1>3, <1>4, FlushQuietStep

\* The text is read, or too long, or waited for.
LEMMA ReadTextFlushed ==
  ASSUME FlushInv, ReadText, UNCHANGED flush_vars PROVE FlushStepIsGood
<1>1. /\ pc = "text"
      /\ UNCHANGED <<medium, parse_stage, payload, m_stack, prop_vars, pop_vars, scan_from>>
  BY DEF ReadText
<1>2. flow_ret # "ERROR" /\ chunk_parse_stage = "ParsingChunkContent"
  BY <1>1 DEF FlushInv, FlushControl
<1>3. ASSUME chunk_parse_stage' \in ChunkParseStages PROVE RestTyped'
  BY <1>1, <1>3 DEF FlushInv, FlushTypeOK, RestTyped, pop_vars, prop_vars, flush_vars
<1>4. CASE \/ /\ chunk_parse_stage' = "FinishingChunk" /\ Returns("OK") /\ UNCHANGED io_vars
           \/ /\ Returns("ERROR") /\ UNCHANGED <<io_vars, chunk_parse_stage>>
  <2>1. pc' = "settle" /\ flow_ret' \in FlowReturns /\ chunk_parse_stage' \in ChunkParseStages
    BY <1>2, <1>4 DEF Returns, FlowReturns, ChunkParseStages
  <2>2. FlushControl'
    BY <1>1, <1>2, <2>1 DEF FlushInv, FlushControl, Front
  <2>. QED BY <1>1, <1>2, <1>3, <1>4, <2>1, <2>2, FlushQuietStep DEF FlushPlaces, Places
<1>5. ASSUME TextLength > 0, NEW ret \in FlowReturns, Read(TextLength, ret),
             Returns(ret) \/ Returns("ERROR"),
             chunk_parse_stage' = IF flow_ret' = "OK" THEN "FinishingChunk" ELSE chunk_parse_stage
      PROVE  FlushStepIsGood
  <2>1. TextLength \in UInt64
    <3>1. TextLength \in UInt64 \cup {NotRead}
      BY <1>2, FlushFrontType
    <3>. QED BY <1>5, <3>1 DEF NotRead
  <2>2. pc' = "settle" /\ flow_ret' \in FlowReturns /\ chunk_parse_stage' \in ChunkParseStages
    BY <1>2, <1>5 DEF Returns, FlowReturns, ChunkParseStages
  <2>. QED BY <1>1, <1>2, <1>3, <1>5, <2>1, <2>2, FlushReadReturns
<1>. QED BY <1>4, <1>5 DEF ReadText

-------------------------------------------------------------------------------
(***************************************************************************)
(* The payload                                                             *)
(***************************************************************************)

\* What is reported as the payload, or about to be: in push mode it begins in the medium.
LEMMA FlushReported ==
  ASSUME FlushInv, Parsing("Payload"), NumAvailable >= FrameSize,
         NEW amount, amount = Front.size \/ amount = Lesser(Front.size, NumAvailable),
         payload' = [position |-> byte_position, size |-> amount]
  PROVE  /\ payload' \in [position : UInt64, size : UInt64]
         /\ payload'.size > 0 /\ payload'.position = byte_position
         /\ Pushing => byte_position <= medium.size
<1>1. /\ chunk_parse_stage = "ParsingChunkContent"
      /\ Pushing => upstream_position = byte_position + available
  BY FlushDispatch DEF Parsing
<1>2. Front.size \in UInt64 /\ Front.size > 0
  BY <1>1, FlushFrontType
<1>3. /\ FlushTypeOK /\ medium.size \in UInt64 /\ byte_position \in UInt64 /\ available \in UInt64
      /\ upstream_position <= medium.size
  BY FlushMediumType DEF FlushInv, FlushInput, IoTyped
<1>4. NumAvailable \in UInt64 /\ NumAvailable > 0
  <2>1. upstream_size - byte_position \in Int
    BY <1>3, WidthAssumption DEF FlushTypeOK, UInt64
  <2>2. NumAvailable \in UInt64
    BY <2>1, WrapType DEF NumAvailable
  <2>3. FrameSize \in UInt64 \ {0}
    BY HeaderAssumption
  <2>. QED BY <2>2, <2>3, WidthAssumption DEF UInt64
<1>5. amount \in UInt64 /\ amount > 0
  BY <1>2, <1>4 DEF Lesser
<1>6. Pushing => byte_position <= medium.size
  BY <1>1, <1>3, WidthAssumption DEF UInt64
<1>. QED BY <1>3, <1>5, <1>6

\* The payload is reported: it is skipped, or playback starts with it.
LEMMA ParsePayloadFlushed ==
  ASSUME FlushInv, ParsePayload, UNCHANGED flush_vars PROVE FlushStepIsGood
<1>1. /\ Parsing("Payload") /\ NumAvailable >= FrameSize
      /\ UNCHANGED <<m_stack, prop_vars>>
  BY DEF ParsePayload
<1>2. PICK ret \in FlowReturns :
       /\ ReportPayloadFound(Lesser(Front.size, NumAvailable), Front.size > NumAvailable, ret)
       /\ Returns(IF ret = "OK" THEN "NOTHING_TO_READ" ELSE ret)
       /\ chunk_parse_stage' = IF ret = "OK" THEN "FinishingChunk" ELSE chunk_parse_stage
  BY DEF ParsePayload
<1>3. /\ UNCHANGED <<medium, pop_vars>> /\ scan_from' = byte_position
      /\ flow_ret # "ERROR" /\ chunk_parse_stage = "ParsingChunkContent" /\ Scanning
      /\ Pushing => /\ pending_segment_start = NoSegment
                    /\ upstream_position = byte_position + available
  BY <1>1, FlushDispatch DEF Parsing
<1>4. /\ payload' \in [position : UInt64, size : UInt64]
      /\ payload'.size > 0 /\ payload'.position = byte_position
      /\ Pushing => byte_position <= medium.size
  BY <1>1, <1>2, FlushReported DEF ReportPayloadFound
<1>5. /\ pc' = "settle" /\ flow_ret' \in FlowReturns /\ (ret = "ERROR" => flow_ret' = "ERROR")
      /\ chunk_parse_stage' \in ChunkParseStages
  BY <1>2, <1>3 DEF Returns, FlowReturns, ChunkParseStages
<1>6. RestTyped'
  BY <1>1, <1>3, <1>5 DEF FlushInv, FlushTypeOK, RestTyped, pop_vars, prop_vars, flush_vars
<1>7. CASE /\ \E skipped \in {Lesser(Front.size, NumAvailable), available} :
                Skip(Lesser(Front.size, NumAvailable), TRUE, ret, skipped)
           /\ UNCHANGED parse_stage
  <2>1. Lesser(Front.size, NumAvailable) \in UInt64
    BY <1>2, <1>4 DEF ReportPayloadFound
  <2>2. IoTyped' /\ FlushInput'
    BY <1>3, <1>5, <1>7, <2>1, FlushSkipEffect
  <2>3. FlushPayload' /\ ~StreamingStarts /\ parse_stage' \in Stages
    BY <1>3, <1>4, <1>7 DEF FlushPayload, Pushing, StreamingStarts, Scanning, Stages
  <2>4. FlushInv'
    BY <1>1, <1>3, <1>4, <1>5, <1>6, <2>2, <2>3, FlushReturns
  <2>. QED BY <2>3, <2>4 DEF FlushStepIsGood
<1>8. CASE parse_stage' = "Streaming" /\ UNCHANGED io_vars
  <2>1. /\ byte_position' = byte_position /\ available' = available
        /\ upstream_position' = upstream_position
        /\ pending_segment_start' = pending_segment_start
    BY <1>8 DEF io_vars
  <2>2. IoTyped' /\ upstream_position' <= medium'.size
    BY <1>3, <2>1, FlushMediumType DEF FlushInv, FlushInput, IoTyped
  <2>3. FlushInput'
    BY <1>3, <2>1, <2>2 DEF FlushInput, InputAligned, Pushing
  <2>4. FlushPayload' /\ parse_stage' \in Stages
    BY <1>3, <1>4, <1>8 DEF FlushPayload, Pushing, Stages
  <2>5. InPlace
    BY <1>3, <1>4, <2>1 DEF InPlace
  <2>6. FlushInv'
    BY <1>1, <1>3, <1>4, <1>5, <1>6, <2>2, <2>3, <2>4, FlushReturns
  <2>. QED BY <2>5, <2>6 DEF FlushStepIsGood
<1>. QED BY <1>2, <1>7, <1>8 DEF ReportPayloadFound

\* A flush interrupts the skip of the payload that has just been stored.
LEMMA AbortPayloadSkipFlushed ==
  ASSUME FlushInv, AbortPayloadSkip PROVE FlushStepIsGood
<1>1. /\ Parsing("Payload") /\ NumAvailable >= FrameSize
      /\ payload' = [position |-> byte_position, size |-> Front.size]
      /\ pc' = "paused"
      /\ UNCHANGED <<io_vars, parse_stage, stack_vars, prop_vars, flow_ret, flush_vars>>
  BY DEF AbortPayloadSkip
<1>2. /\ UNCHANGED <<medium, pop_vars>> /\ scan_from' = byte_position
      /\ flow_ret # "ERROR" /\ chunk_parse_stage = "ParsingChunkContent" /\ Scanning
  BY <1>1, FlushDispatch DEF Parsing
<1>3. /\ payload' \in [position : UInt64, size : UInt64]
      /\ payload'.size > 0 /\ payload'.position = byte_position
      /\ Pushing => byte_position <= medium.size
  BY <1>1, FlushReported
<1>4. IoTyped' /\ FlushInput'
  BY <1>1, <1>2, FlushMediumType DEF FlushInv, IoTyped, FlushInput, InputAligned, io_vars, Pushing, Scanning
<1>5. FlushPayload' /\ ~StreamingStarts /\ parse_stage' \in Stages
  BY <1>1, <1>2, <1>3 DEF FlushPayload, Pushing, StreamingStarts, Scanning, Stages
<1>6. RestTyped' /\ pc' \in FlushPlaces /\ flow_ret' \in FlowReturns
  BY <1>1, <1>2 DEF FlushInv, FlushTypeOK, RestTyped, pop_vars, prop_vars, stack_vars, flush_vars, FlushPlaces
<1>7. FlushControl'
  BY <1>1, <1>2 DEF FlushInv, FlushControl, stack_vars, Front
<1>8. FlushInv'
  BY <1>3, <1>4, <1>5, <1>6, <1>7, FlushAssembled
<1>. QED BY <1>5, <1>8 DEF FlushStepIsGood

-------------------------------------------------------------------------------
(***************************************************************************)
(* scan_info() after the call that it dispatched to, and the end of chunks *)
(***************************************************************************)

\* Every part of the stack vanishes only where no content is parsed.
LEMMA SettleFlushed ==
  ASSUME FlushInv, Settle, UNCHANGED flush_vars PROVE FlushStepIsGood
<1>1. /\ pc = "settle"
      /\ UNCHANGED <<medium, io_vars, parse_stage, payload, stack_vars, prop_vars, pop_vars, scan_from>>
  BY DEF Settle
<1>2. flow_ret \in FlowReturns
  BY DEF FlushInv, FlushTypeOK
<1>3. /\ pc' \in {"corrupt_settle", "finish", "scanned"}
      /\ pc' = "corrupt_settle" => flow_ret' = flow_ret /\ flow_ret = "ADVANCE_OUT_OF_BOUNDS"
      /\ pc' = "finish" => /\ flow_ret' = flow_ret /\ flow_ret \in {"OK", "NOTHING_TO_READ"}
                           /\ Scanning /\ chunk_parse_stage = "FinishingChunk"
      /\ flow_ret' \in {flow_ret, "ERROR"}
  BY DEF Settle
<1>4. RestTyped' /\ pc' \in FlushPlaces /\ flow_ret' \in FlowReturns
  BY <1>1, <1>2, <1>3 DEF FlushInv, FlushTypeOK, RestTyped, stack_vars, prop_vars, pop_vars, flush_vars,
                          FlushPlaces, Places, FlowReturns
<1>5. FlushControl'
  BY <1>1, <1>3 DEF FlushInv, FlushControl, stack_vars, Front, Scanning
<1>6. flow_ret # "ERROR" \/ flow_ret' = "ERROR"
  BY <1>3
<1>. QED BY <1>1, <1>4, <1>5, <1>6, FlushQuietStep

\* A corrupted structure fails the scan, or ends it if there is a payload.
LEMMA HandleCorruptedFlushed ==
  ASSUME FlushInv, HandleCorruptedChunkStructure, UNCHANGED flush_vars PROVE FlushStepIsGood
<1>1. /\ pc \in {"corrupt_settle", "corrupt_finish"} /\ pc' \in {"settle", "scanned"}
      /\ UNCHANGED <<medium, payload, stack_vars, prop_vars, pop_vars, scan_from>>
  BY DEF HandleCorruptedChunkStructure
<1>2. flow_ret # "ERROR"
  BY <1>1 DEF FlushInv, FlushControl
<1>3. RestTyped' /\ pc' \in FlushPlaces
  BY <1>1 DEF FlushInv, FlushTypeOK, RestTyped, stack_vars, prop_vars, pop_vars, flush_vars,
              FlushPlaces, Places
<1>4. FlushControl'
  BY <1>1 DEF FlushInv, FlushControl, stack_vars, Front
<1>5. CASE PayloadLocated
  <2>1. ScanningFinished /\ flow_ret' = "NOTHING_TO_READ"
    BY <1>5 DEF HandleCorruptedChunkStructure
  <2>2. /\ IoTyped' /\ parse_stage' \in Stages /\ FlushInput' /\ FlushPayload'
        /\ StreamingStarts => InPlace
    BY <1>1, <1>2, <2>1, FlushScanningFinished
  <2>3. payload' \in [position : UInt64, size : UInt64] /\ flow_ret' \in FlowReturns
    BY <1>1, <2>1 DEF FlushInv, FlushTypeOK, FlowReturns
  <2>4. FlushInv'
    BY <1>3, <1>4, <2>2, <2>3, FlushAssembled
  <2>. QED BY <2>2, <2>4 DEF FlushStepIsGood
<1>6. CASE ~PayloadLocated
  <2>1. flow_ret' = "ERROR" /\ UNCHANGED <<io_vars, parse_stage>>
    BY <1>6 DEF HandleCorruptedChunkStructure
  <2>. QED BY <1>1, <1>3, <1>4, <2>1, FlushQuietStep DEF FlowReturns
<1>. QED BY <1>5, <1>6

\* The pad byte is skipped, or waited for.
LEMMA SkipPadByteFlushed ==
  ASSUME FlushInv, SkipPadByte, UNCHANGED flush_vars PROVE FlushStepIsGood
<1>1. /\ pc = "finish"
      /\ UNCHANGED <<medium, parse_stage, payload, stack_vars, prop_vars, pop_vars, scan_from>>
  BY DEF SkipPadByte
<1>2. PICK ret \in FlowReturns, skipped \in {1, available} :
       /\ Skip(1, FALSE, ret, skipped)
       /\ IF ret = "OK" /\ skipped = 1
          THEN UNCHANGED <<pc, flow_ret>>
          ELSE pc' = "scanned" /\ flow_ret' = IF ret = "OK" THEN "NOT_ENOUGH_DATA" ELSE ret
  BY DEF SkipPadByte
<1>3. flow_ret # "ERROR" /\ flow_ret \in FlowReturns /\ Scanning /\ chunk_parse_stage = "FinishingChunk"
  BY <1>1 DEF FlushInv, FlushControl, FlushTypeOK
<1>4. /\ ret = "ERROR" => flow_ret' = "ERROR"
      /\ pc' \in {"finish", "scanned"} /\ flow_ret' \in FlowReturns
      /\ pc' = "finish" => flow_ret' = flow_ret
  BY <1>1, <1>2, <1>3 DEF FlowReturns
<1>5. IoTyped' /\ FlushInput'
  <2>1. 1 \in UInt64
    BY HeaderAssumption, WidthAssumption DEF UInt64
  <2>. QED BY <1>1, <1>2, <1>3, <1>4, <2>1, FlushSkipEffect
<1>6. FlushPayload' /\ ~StreamingStarts
  BY <1>1, <1>3 DEF FlushInv, FlushPayload, PayloadLocated, Pushing, StreamingStarts, Scanning
<1>7. RestTyped' /\ pc' \in FlushPlaces /\ parse_stage' \in Stages
      /\ payload' \in [position : UInt64, size : UInt64]
  BY <1>1, <1>4 DEF FlushInv, FlushTypeOK, RestTyped, stack_vars, prop_vars, pop_vars, flush_vars,
                    FlushPlaces, Places
<1>8. FlushControl'
  BY <1>1, <1>3, <1>4 DEF FlushControl, stack_vars, Scanning
<1>9. FlushInv'
  BY <1>4, <1>5, <1>6, <1>7, <1>8, FlushAssembled
<1>. QED BY <1>6, <1>9 DEF FlushStepIsGood

\* pop_finished_chunks() begins, or finds that a chunk is not complete.
LEMMA PopFinishedChunksFlushed ==
  ASSUME FlushInv, PopFinishedChunks, UNCHANGED flush_vars PROVE FlushStepIsGood
<1>1. /\ pc = "finish"
      /\ UNCHANGED <<medium, io_vars, parse_stage, payload, stack_vars, prop_vars, flow_ret, scan_from>>
  BY DEF PopFinishedChunks
<1>2. flow_ret # "ERROR" /\ flow_ret \in FlowReturns /\ chunk_parse_stage = "FinishingChunk"
      /\ byte_position \in UInt64
  BY <1>1 DEF FlushInv, FlushControl, FlushTypeOK
<1>3. \/ pc' = "corrupt_finish" /\ UNCHANGED pop_vars
      \/ pc' = "pop" /\ pop_position' = byte_position /\ iter' = 1 /\ any_popped' = FALSE
  BY DEF PopFinishedChunks
<1>4. RestTyped' /\ pc' \in FlushPlaces
  <2>1. pop_position' \in UInt64 /\ iter' \in Nat \ {0} /\ any_popped' \in BOOLEAN
    <3>1. CASE UNCHANGED pop_vars
      BY <3>1 DEF FlushInv, FlushTypeOK, pop_vars
    <3>2. CASE pop_position' = byte_position /\ iter' = 1 /\ any_popped' = FALSE
      <4>1. 1 \in Nat \ {0}
        OBVIOUS
      <4>. QED BY <1>2, <3>2, <4>1
    <3>. QED BY <1>3, <3>1, <3>2
  <2>. QED BY <1>1, <1>3, <2>1 DEF FlushInv, FlushTypeOK, RestTyped, stack_vars, prop_vars, flush_vars,
                                   FlushPlaces, Places
<1>5. FlushControl'
  BY <1>1, <1>2, <1>3 DEF FlushControl, stack_vars
<1>. QED BY <1>1, <1>2, <1>4, <1>5, FlushQuietStep

\* Erasing a chunk leaves a stack of chunks.
LEMMA FlushErased ==
  ASSUME FlushInv, AtElement, Erase(iter) PROVE m_stack' \in Seq(Chunk)
<1>1. m_stack \in Seq(Chunk) /\ iter \in Nat /\ iter # 0 /\ iter <= Len(m_stack)
  BY DEF FlushInv, FlushTypeOK, AtElement
<1>2. m_stack # << >>
  BY <1>1
<1>. QED BY <1>1, <1>2, EraseKeepsStack

\* KeepElement, PopPlainChunk, PopProperties and EndOfStack: the walk over the stack.
LEMMA PopWalkFlushed ==
  ASSUME FlushInv, KeepElement \/ PopPlainChunk \/ PopProperties \/ EndOfStack, UNCHANGED flush_vars
  PROVE  FlushStepIsGood
<1>1. /\ pc = "pop" /\ flow_ret # "ERROR" /\ flow_ret \in FlowReturns
      /\ chunk_parse_stage = "FinishingChunk"
  BY DEF FlushInv, FlushControl, FlushTypeOK, KeepElement, PopPlainChunk, PopProperties, EndOfStack, AtElement
<1>2. CASE KeepElement
  <2>1. /\ iter' = iter + 1
        /\ UNCHANGED <<medium, io_vars, parse_stage, payload, stack_vars, prop_vars, pop_position,
                       any_popped, pc, flow_ret, scan_from>>
    BY <1>2 DEF KeepElement
  <2>2. RestTyped' /\ pc' \in FlushPlaces
    BY <1>1, <2>1 DEF FlushInv, FlushTypeOK, RestTyped, stack_vars, prop_vars, flush_vars, FlushPlaces, Places
  <2>3. FlushControl'
    BY <1>1, <2>1 DEF FlushControl, stack_vars
  <2>. QED BY <1>1, <2>1, <2>2, <2>3, FlushQuietStep
<1>3. ASSUME AtElement, EraseElement, UNCHANGED <<io_vars, parse_stage>>, prop_finished' \in BOOLEAN
      PROVE  FlushStepIsGood
  <2>1. /\ Erase(iter) /\ any_popped' = TRUE
        /\ UNCHANGED <<medium, payload, chunk_parse_stage, parsed, num_chars, upstream_size,
                       pop_position, iter, pc, flow_ret, scan_from>>
    BY <1>3 DEF EraseElement
  <2>2. m_stack' \in Seq(Chunk)
    BY <1>3, <2>1, FlushErased
  <2>3. RestTyped' /\ pc' \in FlushPlaces
    BY <1>1, <1>3, <2>1, <2>2 DEF FlushInv, FlushTypeOK, RestTyped, flush_vars, FlushPlaces, Places
  <2>4. FlushControl'
    BY <1>1, <2>1 DEF FlushControl
  <2>. QED BY <1>1, <1>3, <2>1, <2>3, <2>4, FlushQuietStep
<1>4. CASE PopPlainChunk
  <2>1. prop_finished' \in BOOLEAN
    BY <1>4 DEF PopPlainChunk, FlushInv, FlushTypeOK
  <2>. QED BY <1>3, <1>4, <2>1 DEF PopPlainChunk
<1>5. CASE PopProperties
  <2>1. CASE EraseElement /\ prop_finished' = TRUE
    BY <1>3, <1>5, <2>1 DEF PopProperties
  <2>2. CASE /\ pc' = "corrupt_finish"
             /\ UNCHANGED <<medium, payload, stack_vars, prop_vars, pop_vars, flow_ret, scan_from>>
    <3>1. UNCHANGED <<io_vars, parse_stage>>
      BY <1>5 DEF PopProperties
    <3>2. RestTyped' /\ pc' \in FlushPlaces
      BY <1>1, <2>2 DEF FlushInv, FlushTypeOK, RestTyped, stack_vars, prop_vars, pop_vars, flush_vars,
                        FlushPlaces, Places
    <3>3. FlushControl'
      BY <1>1, <2>2 DEF FlushControl, stack_vars
    <3>. QED BY <1>1, <2>2, <3>1, <3>2, <3>3, FlushQuietStep
  <2>. QED BY <1>5, <2>1, <2>2 DEF PopProperties
<1>6. CASE EndOfStack
  <2>1. /\ pc' \in {"scanned", "corrupt_finish"}
        /\ chunk_parse_stage' \in {"ParsingChunkStart", "FinishingChunk"}
        /\ UNCHANGED <<medium, io_vars, parse_stage, payload, m_stack, prop_vars, pop_vars,
                       flow_ret, scan_from>>
    BY <1>1, <1>6 DEF EndOfStack
  <2>2. RestTyped' /\ pc' \in FlushPlaces
    BY <1>1, <2>1 DEF FlushInv, FlushTypeOK, RestTyped, prop_vars, pop_vars, flush_vars,
                      FlushPlaces, Places, ChunkParseStages
  <2>3. FlushControl'
    BY <1>1, <2>1 DEF FlushControl
  <2>. QED BY <1>1, <2>1, <2>2, <2>3, FlushQuietStep
<1>. QED BY <1>2, <1>4, <1>5, <1>6

\* The outermost chunk ends the scan; another one around it can end it again.
LEMMA PopFormFlushed ==
  ASSUME FlushInv, PopForm, UNCHANGED flush_vars PROVE FlushStepIsGood
<1>1. /\ AtElement /\ ScanningFinished /\ Erase(iter) /\ any_popped' = TRUE
      /\ UNCHANGED <<medium, payload, chunk_parse_stage, parsed, num_chars, upstream_size,
                     pop_position, iter, pc, flow_ret, scan_from, prop_finished>>
  BY DEF PopForm, EraseElement
<1>2. pc = "pop" /\ flow_ret # "ERROR" /\ chunk_parse_stage = "FinishingChunk"
  BY <1>1 DEF FlushInv, FlushControl, AtElement
<1>3. /\ IoTyped' /\ parse_stage' \in Stages /\ FlushInput' /\ FlushPayload'
      /\ StreamingStarts => InPlace
  BY <1>1, <1>2, FlushScanningFinished
<1>4. m_stack' \in Seq(Chunk)
  BY <1>1, FlushErased
<1>5. /\ RestTyped' /\ payload' \in [position : UInt64, size : UInt64]
      /\ pc' \in FlushPlaces /\ flow_ret' \in FlowReturns
  BY <1>1, <1>4 DEF FlushInv, FlushTypeOK, RestTyped, flush_vars
<1>6. FlushControl'
  BY <1>1, <1>2 DEF FlushControl
<1>7. FlushInv'
  BY <1>3, <1>5, <1>6, FlushAssembled
<1>. QED BY <1>3, <1>7 DEF FlushStepIsGood

-------------------------------------------------------------------------------
(***************************************************************************)
(* The loop, upstream, and the flush                                       *)
(***************************************************************************)

\* The loop looks at what scan_info() has returned.
LEMMA ScanInfoReturnedFlushed ==
  ASSUME FlushInv, ScanInfoReturned, UNCHANGED flush_vars PROVE FlushStepIsGood
<1>1. /\ UNCHANGED <<medium, io_vars, parse_stage, payload, stack_vars, prop_vars>>
      /\ scan_from' = 0 /\ pop_position' = 0 /\ iter' = 1 /\ any_popped' = FALSE
  BY DEF ScanInfoReturned, LocalsReset
<1>2. /\ pc' \in {"loop", "idle", "stopped"} /\ flow_ret' \in FlowReturns
      /\ pc' # "stopped" => flow_ret' # "ERROR"
      /\ pc' = "idle" => Pushing
      /\ flow_ret # "ERROR" \/ flow_ret' = "ERROR"
  BY DEF ScanInfoReturned, FlowReturns
<1>3. 0 \in UInt64 /\ 1 \in Nat \ {0}
  BY WidthAssumption DEF UInt64
<1>4. RestTyped' /\ pc' \in FlushPlaces
  BY <1>1, <1>2, <1>3 DEF FlushInv, FlushTypeOK, RestTyped, stack_vars, prop_vars, flush_vars,
                          FlushPlaces, Places
<1>5. FlushControl'
  BY <1>1, <1>2 DEF FlushInv, FlushControl, stack_vars, Front, Pushing
<1>. QED BY <1>1, <1>2, <1>4, <1>5, FlushQuietStep

\* A step that only goes to another place, or leaves the loop.
LEMMA FlushOnlyMoves ==
  ASSUME FlushInv,
         UNCHANGED <<medium, io_vars, parse_stage, payload, stack_vars, prop_vars, pop_vars, flow_ret>>,
         scan_from' \in {scan_from, 0}, flow_ret # "ERROR",
         pc' \in {"stopped", "paused"} \/ UNCHANGED pc,
         flushing' \in BOOLEAN, flush_in_progress' \in BOOLEAN, num_flushes' \in 0 .. MaxFlushes
  PROVE  FlushStepIsGood
<1>1. 0 \in UInt64
  BY WidthAssumption DEF UInt64
<1>2. RestTyped' /\ pc' \in FlushPlaces /\ flow_ret' \in FlowReturns
  BY <1>1 DEF FlushInv, FlushTypeOK, RestTyped, stack_vars, prop_vars, pop_vars, FlushPlaces, Places
<1>3. FlushControl'
  BY DEF FlushInv, FlushControl, stack_vars, Front, Scanning, Pushing
<1>. QED BY <1>2, <1>3, FlushQuietStep

\* ScanIsOver, AbortScan and RefuseBuffer.
LEMMA FlushLeaves ==
  ASSUME FlushInv, (ScanIsOver /\ UNCHANGED flush_vars) \/ AbortScan \/ RefuseBuffer
  PROVE  FlushStepIsGood
<1>1. flushing \in BOOLEAN /\ flush_in_progress \in BOOLEAN /\ num_flushes \in 0 .. MaxFlushes
  BY DEF FlushInv, FlushTypeOK
<1>2. pc \in {"loop", "text", "idle"}
  BY DEF ScanIsOver, AbortScan, RefuseBuffer
<1>3. flow_ret # "ERROR"
  BY <1>2 DEF FlushInv, FlushControl
<1>. QED BY <1>1, <1>3, FlushOnlyMoves DEF ScanIsOver, AbortScan, RefuseBuffer, flush_vars

\* The flags are set, and nothing else.
LEMMA FlushStartFlushed ==
  ASSUME FlushInv, FlushStart PROVE FlushStepIsGood
<1>1. /\ flushing' = TRUE /\ flush_in_progress' = TRUE
      /\ num_flushes < MaxFlushes /\ num_flushes' = num_flushes + 1 /\ UNCHANGED vars
  BY DEF FlushStart
<1>2. num_flushes' \in 0 .. MaxFlushes
  BY <1>1, FlushAssumption DEF FlushInv, FlushTypeOK
<1>3. UNCHANGED <<medium, io_vars, parse_stage, payload, stack_vars, prop_vars, pop_vars, flow_ret,
                  pc, scan_from>>
  BY <1>1 DEF vars
<1>4. RestTyped' /\ pc' \in FlushPlaces /\ flow_ret' \in FlowReturns
  BY <1>1, <1>2, <1>3 DEF FlushInv, FlushTypeOK, RestTyped, stack_vars, prop_vars, pop_vars
<1>5. FlushControl'
  BY <1>3 DEF FlushInv, FlushControl, stack_vars, Front, Scanning, Pushing
<1>6. IoTyped' /\ FlushInput' /\ FlushPayload' /\ ~StreamingStarts
  <2>1. /\ medium' = medium /\ byte_position' = byte_position /\ available' = available
        /\ upstream_position' = upstream_position
        /\ pending_segment_start' = pending_segment_start
        /\ parse_stage' = parse_stage /\ payload' = payload /\ flow_ret' = flow_ret
    BY <1>3 DEF io_vars
  <2>2. FlushTypeOK /\ IoTyped /\ FlushInput /\ FlushPayload
    BY FlushMediumType DEF FlushInv
  <2>. QED BY <2>1, <2>2 DEF IoTyped, FlushInput, InputAligned, FlushPayload, Pushing, Scanning,
                             PayloadLocated, StreamingStarts
<1>7. parse_stage' \in Stages /\ payload' \in [position : UInt64, size : UInt64]
  BY <1>3 DEF FlushInv, FlushTypeOK
<1>8. FlushInv'
  BY <1>4, <1>5, <1>6, <1>7, FlushAssembled
<1>. QED BY <1>6, <1>8 DEF FlushStepIsGood

\* The chain function returns with an empty adapter, or drops what precedes the segment.
LEMMA ChainReturnsFlushed ==
  ASSUME FlushInv, ChainReturns, UNCHANGED flush_vars PROVE FlushStepIsGood
<1>1. /\ pc = "loop" /\ Pushing /\ available' = 0
      /\ available = 0 \/ parse_stage = "AwaitingSegment"
      /\ pc' \in {"idle", "stopped"}
      /\ UNCHANGED <<medium, byte_position, upstream_position, pending_segment_start, parse_stage,
                     payload, stack_vars, prop_vars, pop_vars, flow_ret, scan_from>>
  BY DEF ChainReturns
<1>2. flow_ret # "ERROR" /\ flow_ret \in FlowReturns
  BY <1>1 DEF FlushInv, FlushControl, FlushTypeOK
<1>3. /\ FlushTypeOK /\ IoTyped /\ 0 \in UInt64 /\ FlushInput /\ FlushPayload
  BY FlushMediumType DEF FlushInv
<1>4. IoTyped'
  BY <1>1, <1>3 DEF IoTyped
<1>5. FlushInput'
  <2>1. CASE available = 0
    BY <1>1, <1>2, <1>3, <2>1 DEF FlushInput, InputAligned, Pushing, Scanning
  <2>2. CASE parse_stage = "AwaitingSegment"
    BY <1>1, <1>2, <1>3, <2>2 DEF FlushInput, InputAligned, FlushPayload, Pushing, Scanning
  <2>. QED BY <1>1, <2>1, <2>2
<1>6. FlushPayload' /\ ~StreamingStarts
  BY <1>1, <1>3 DEF FlushPayload, PayloadLocated, Pushing, StreamingStarts
<1>7. RestTyped' /\ parse_stage' \in Stages /\ payload' \in [position : UInt64, size : UInt64]
      /\ pc' \in FlushPlaces /\ flow_ret' \in FlowReturns
  BY <1>1, <1>2 DEF FlushInv, FlushTypeOK, RestTyped, stack_vars, prop_vars, pop_vars, flush_vars,
                    FlushPlaces, Places
<1>8. FlushControl'
  BY <1>1, <1>2 DEF FlushInv, FlushControl, stack_vars, Front, Pushing
<1>9. FlushInv'
  BY <1>4, <1>5, <1>6, <1>7, <1>8, FlushAssembled
<1>. QED BY <1>6, <1>9 DEF FlushStepIsGood

\* Upstream pushes a buffer that begins where the last one ended.
LEMMA DeliverFlushed ==
  ASSUME FlushInv, Deliver, UNCHANGED flush_vars PROVE FlushStepIsGood
<1>1. /\ pc = "idle" /\ pending_segment_start = NoSegment /\ Scanning /\ pc' = "loop"
      /\ upstream_position < medium.size
      /\ UNCHANGED <<medium, byte_position, pending_segment_start, parse_stage, payload,
                     stack_vars, prop_vars, pop_vars, flow_ret, scan_from>>
  BY DEF Deliver
<1>2. PICK n \in BufferSizes :
        /\ available' = available + Lesser(n, medium.size - upstream_position)
        /\ upstream_position' = upstream_position + Lesser(n, medium.size - upstream_position)
  BY DEF Deliver
<1>3. flow_ret # "ERROR" /\ flow_ret \in FlowReturns
  BY <1>1 DEF FlushInv, FlushControl, FlushTypeOK
<1>4. /\ FlushTypeOK /\ IoTyped /\ medium.size \in UInt64 /\ FlushInput /\ FlushPayload
  BY FlushMediumType DEF FlushInv
<1>5. Lesser(n, medium.size - upstream_position) \in 0 .. (medium.size - upstream_position)
  BY <1>1, <1>2, <1>4, BufferSizesAssumption, WidthAssumption DEF Lesser, IoTyped, UInt64
<1>6. upstream_position' \in UInt64 /\ upstream_position' <= medium.size
  BY <1>2, <1>4, <1>5, WidthAssumption DEF IoTyped, UInt64
<1>7. Pushing /\ upstream_position = byte_position + available
  BY <1>1, <1>3, <1>4 DEF FlushInv, FlushControl, FlushInput, InputAligned, Scanning
<1>8. upstream_position' = byte_position' + available' /\ available' \in UInt64
  <2>. DEFINE delivered == Lesser(n, medium.size - upstream_position)
  <2>1. delivered \in Nat /\ upstream_position + delivered \in UInt64
    BY <1>2, <1>4, <1>5, <1>6 DEF IoTyped, UInt64
  <2>. HIDE DEF delivered
  <2>2. /\ upstream_position + delivered = byte_position + (available + delivered)
        /\ available + delivered \in UInt64
    BY <1>4, <1>7, <2>1, WidthAssumption DEF IoTyped, UInt64
  <2>. QED BY <1>1, <1>2, <2>2 DEF delivered
<1>9. IoTyped' /\ FlushInput'
  BY <1>1, <1>4, <1>6, <1>8 DEF IoTyped, FlushInput, InputAligned
<1>10. FlushPayload' /\ ~StreamingStarts
  BY <1>1, <1>4 DEF FlushPayload, PayloadLocated, Pushing, StreamingStarts
<1>11. RestTyped' /\ parse_stage' \in Stages /\ payload' \in [position : UInt64, size : UInt64]
      /\ pc' \in FlushPlaces /\ flow_ret' \in FlowReturns
  BY <1>1, <1>3 DEF FlushInv, FlushTypeOK, RestTyped, stack_vars, prop_vars, pop_vars, flush_vars,
                    FlushPlaces, Places
<1>12. FlushControl'
  BY <1>1, <1>3 DEF FlushInv, FlushControl, stack_vars, Front
<1>13. FlushInv'
  BY <1>9, <1>10, <1>11, <1>12, FlushAssembled
<1>. QED BY <1>10, <1>13 DEF FlushStepIsGood

\* A segment takes position and adapter to where upstream is.
LEMMA UpstreamSegmentFlushed ==
  ASSUME FlushInv, UpstreamSegment, ~SeekHasDeviated, UNCHANGED flush_vars PROVE FlushStepIsGood
<1>1. /\ pc = "idle" /\ HandleSinkSegment
      /\ pc' = IF parse_stage' = "ScanningInfo" THEN "idle" ELSE "stopped"
      /\ UNCHANGED <<medium, payload, stack_vars, prop_vars, pop_vars, flow_ret, scan_from>>
  BY DEF UpstreamSegment
<1>2. /\ pending_segment_start # NoSegment /\ pending_segment_start' = NoSegment
      /\ upstream_position' = upstream_position
  BY <1>1 DEF HandleSinkSegment
<1>3. flow_ret # "ERROR" /\ flow_ret \in FlowReturns /\ Pushing
  BY <1>1 DEF FlushInv, FlushControl, FlushTypeOK
<1>4. /\ FlushTypeOK /\ IoTyped /\ 0 \in UInt64 /\ FlushInput /\ FlushPayload
      /\ parse_stage # "StreamFailure" =>
           upstream_position = pending_segment_start /\ (Scanning => available = 0)
      /\ pending_segment_start \in UInt64
  BY <1>2, <1>3, FlushMediumType DEF FlushInv, FlushInput, InputAligned, IoTyped
<1>5. RestTyped' /\ payload' \in [position : UInt64, size : UInt64] /\ flow_ret' \in FlowReturns
      /\ pc' \in FlushPlaces
  BY <1>1, <1>3 DEF FlushInv, FlushTypeOK, RestTyped, stack_vars, prop_vars, pop_vars, flush_vars,
                    FlushPlaces, Places
<1>6. FlushControl'
  BY <1>1, <1>3 DEF FlushInv, FlushControl, stack_vars, Front, Pushing
<1>7. SUFFICES /\ IoTyped' /\ FlushInput' /\ FlushPayload' /\ parse_stage' \in Stages
               /\ StreamingStarts => InPlace
  BY <1>5, <1>6, FlushAssembled DEF FlushStepIsGood
<1>8. CASE /\ Scanning /\ byte_position' = pending_segment_start
           /\ UNCHANGED <<available, parse_stage>>
  <2>1. byte_position' = upstream_position /\ available' = 0 /\ upstream_position \in UInt64
    BY <1>4, <1>8 DEF Scanning, IoTyped
  <2>2. upstream_position' = byte_position' + available'
    BY <1>2, <2>1, NothingAdds
  <2>3. FlushInput'
    BY <1>1, <1>2, <1>4, <2>2 DEF FlushInput, InputAligned
  <2>4. FlushPayload' /\ ~StreamingStarts
    BY <1>1, <1>4, <1>8 DEF FlushPayload, PayloadLocated, Pushing, StreamingStarts, Scanning
  <2>. QED BY <1>2, <1>4, <1>8, <2>1, <2>3, <2>4 DEF IoTyped, FlushTypeOK
<1>9. CASE /\ parse_stage = "AwaitingSegment"
           /\ StartStreamingAt(pending_segment_start)
           /\ available' = 0
  <2>1. /\ byte_position' = pending_segment_start
        /\ parse_stage' \in {"Streaming", "StreamFailure"}
    BY <1>9 DEF StartStreamingAt
  <2>2. byte_position' = upstream_position /\ upstream_position \in UInt64
        /\ pending_segment_start = payload.position
    BY <1>4, <1>9, <2>1 DEF SeekHasDeviated, IoTyped
  <2>3. upstream_position' = byte_position' + available'
    BY <1>2, <1>9, <2>2, NothingAdds
  <2>4. FlushInput'
    BY <1>1, <1>2, <1>4, <2>3 DEF FlushInput, InputAligned
  <2>5. FlushPayload' /\ payload'.size > 0
    BY <1>1, <1>4, <1>9, <2>1 DEF FlushPayload, PayloadLocated, Pushing
  <2>6. InPlace
    BY <1>1, <2>1, <2>2, <2>3, <2>5 DEF InPlace
  <2>. QED BY <1>2, <1>4, <1>9, <2>1, <2>4, <2>5, <2>6 DEF IoTyped, Stages
<1>10. CASE /\ parse_stage = "StreamFailure"
            /\ UNCHANGED <<byte_position, available, parse_stage>>
  BY <1>1, <1>2, <1>4, <1>10 DEF IoTyped, FlushInput, InputAligned, FlushPayload, PayloadLocated,
                                 Pushing, StreamingStarts, Stages
<1>. QED BY <1>1, <1>8, <1>9, <1>10 DEF HandleSinkSegment

\* A segment that is not the one that is awaited fails the stream.
LEMMA RefuseSegmentFlushed ==
  ASSUME FlushInv, RefuseSegment PROVE FlushStepIsGood
<1>1. /\ pending_segment_start' = NoSegment /\ parse_stage' = "StreamFailure" /\ pc' = "stopped"
      /\ UNCHANGED <<medium, byte_position, available, upstream_position, payload, stack_vars, prop_vars,
                     pop_vars, flow_ret, scan_from, flush_vars>>
  BY DEF RefuseSegment
<1>2. /\ FlushTypeOK /\ IoTyped /\ FlushInput /\ FlushPayload
  BY FlushMediumType DEF FlushInv
<1>3. /\ IoTyped' /\ FlushInput' /\ FlushPayload' /\ parse_stage' \in Stages /\ ~StreamingStarts
  BY <1>1, <1>2 DEF IoTyped, FlushInput, InputAligned, FlushPayload, PayloadLocated, Pushing,
                    StreamingStarts, Stages
<1>4. RestTyped' /\ payload' \in [position : UInt64, size : UInt64]
      /\ pc' \in FlushPlaces /\ flow_ret' \in FlowReturns
  BY <1>1, <1>2 DEF FlushTypeOK, RestTyped, stack_vars, prop_vars, pop_vars, flush_vars,
                    FlushPlaces, Places
<1>5. FlushControl'
  BY <1>1 DEF FlushInv, FlushControl, stack_vars, Front
<1>6. FlushInv'
  BY <1>3, <1>4, <1>5, FlushAssembled
<1>. QED BY <1>3, <1>6 DEF FlushStepIsGood

\* The end of the medium ends the scan.
LEMMA EndOfStreamFlushed ==
  ASSUME FlushInv, EndOfStream, UNCHANGED flush_vars PROVE FlushStepIsGood
<1>1. /\ pc = "idle" /\ Scanning /\ (PayloadLocated => ScanningFinished)
      /\ ~PayloadLocated => FinishWithoutPayload
      /\ pc' = IF parse_stage' = "AwaitingSegment" THEN "idle" ELSE "stopped"
      /\ UNCHANGED <<medium, payload, stack_vars, prop_vars, pop_vars, flow_ret, scan_from>>
  BY DEF EndOfStream
<1>2. flow_ret # "ERROR" /\ Pushing
  BY <1>1 DEF FlushInv, FlushControl
<1>3. ScanningFinished
  BY <1>1 DEF ScanningFinished, Scanning
<1>4. /\ IoTyped' /\ parse_stage' \in Stages /\ FlushInput' /\ FlushPayload'
      /\ StreamingStarts => InPlace
  BY <1>1, <1>2, <1>3, FlushScanningFinished
<1>5. RestTyped' /\ payload' \in [position : UInt64, size : UInt64]
      /\ pc' \in FlushPlaces /\ flow_ret' \in FlowReturns
  BY <1>1 DEF FlushInv, FlushTypeOK, RestTyped, stack_vars, prop_vars, pop_vars, flush_vars,
              FlushPlaces, Places
<1>6. FlushControl'
  BY <1>1, <1>2 DEF FlushInv, FlushControl, stack_vars, Front, Pushing
<1>7. FlushInv'
  BY <1>4, <1>5, <1>6, FlushAssembled
<1>. QED BY <1>4, <1>7 DEF FlushStepIsGood

\* The adapter is emptied, and upstream owes the segment of where it is.
LEMMA FlushStopFlushed ==
  ASSUME FlushInv, FlushStop PROVE FlushStepIsGood
<1>1. /\ pc \in {"idle", "paused"} /\ flushing' = FALSE /\ flush_in_progress' = FALSE
      /\ UNCHANGED <<medium, byte_position, parse_stage, payload, stack_vars, prop_vars, pop_vars, flow_ret,
                     scan_from, num_flushes>>
  BY DEF FlushStop
<1>2. flow_ret # "ERROR"
  BY <1>1 DEF FlushInv, FlushControl
<1>3. /\ FlushTypeOK /\ IoTyped /\ medium.size \in UInt64 /\ FlushInput /\ FlushPayload
      /\ 0 \in UInt64 /\ NoSegment \notin UInt64
  BY FlushMediumType DEF FlushInv
<1>4. RestTyped' /\ payload' \in [position : UInt64, size : UInt64]
      /\ parse_stage' \in Stages /\ flow_ret' \in FlowReturns
  BY <1>1, <1>3 DEF FlushTypeOK, RestTyped, stack_vars, prop_vars, pop_vars
<1>5. CASE Pushing
  <2>1. PICK position \in FlushPositions :
          /\ upstream_position' = position /\ pending_segment_start' = position
          /\ pc' = "idle" /\ available' = 0
    BY <1>5 DEF FlushStop
  <2>2. position \in UInt64 /\ position <= medium.size
    BY <1>3, WidthAssumption DEF FlushPositions, Lesser, IoTyped, FlushInput, UInt64
  <2>3. /\ IoTyped' /\ FlushInput'
    BY <1>1, <1>3, <2>1, <2>2 DEF IoTyped, FlushInput, InputAligned
  <2>4. FlushPayload' /\ ~StreamingStarts
    BY <1>1, <1>3, <2>1, <2>2 DEF FlushPayload, PayloadLocated, Pushing, StreamingStarts
  <2>5. FlushControl' /\ pc' \in FlushPlaces
    BY <1>1, <1>2, <1>5, <2>1 DEF FlushInv, FlushControl, stack_vars, Front, Pushing, FlushPlaces, Places
  <2>6. FlushInv'
    BY <1>4, <2>3, <2>4, <2>5, FlushAssembled
  <2>. QED BY <2>4, <2>6 DEF FlushStepIsGood
<1>6. CASE ~Pushing
  <2>1. pc' = "loop" /\ UNCHANGED <<upstream_position, pending_segment_start, available>>
    BY <1>6 DEF FlushStop
  <2>2. UNCHANGED <<medium, io_vars, parse_stage, payload>>
    BY <1>1, <2>1 DEF io_vars
  <2>3. FlushControl' /\ pc' \in FlushPlaces
    BY <1>1, <1>2, <2>1 DEF FlushInv, FlushControl, stack_vars, Front, FlushPlaces, Places
  <2>. QED BY <1>2, <1>4, <2>2, <2>3, FlushQuietStep
<1>. QED BY <1>5, <1>6

-------------------------------------------------------------------------------
(***************************************************************************)
(* Every step, and the theorems                                            *)
(***************************************************************************)

\* A scan begins before the first byte, with nothing in the adapter.
LEMMA FlushInitInv == ASSUME FlushInit PROVE FlushInv
<1>1. /\ MediaScanInit /\ m_stack = << >> /\ chunk_parse_stage = "ParsingChunkStart"
      /\ parsed = {} /\ num_chars = [f \in Fourccs |-> NotRead]
      /\ upstream_size = 0 /\ prop_finished = FALSE
      /\ pc = (IF Pushing THEN "idle" ELSE "loop") /\ flow_ret = "OK" /\ scan_from = 0
      /\ pop_position = 0 /\ iter = 1 /\ any_popped = FALSE
      /\ flushing = FALSE /\ flush_in_progress = FALSE /\ num_flushes = 0
  BY DEF FlushInit, Init
<1>2. /\ medium \in Media /\ byte_position = 0 /\ available = 0 /\ upstream_position = 0
      /\ pending_segment_start = NoSegment /\ parse_stage = "ScanningInfo"
      /\ payload = [position |-> 0, size |-> 0]
  BY <1>1 DEF MediaScanInit, NoPayload
<1>3. 0 \in UInt64 /\ 0 \in 0 .. MaxFlushes /\ 1 \in Nat \ {0}
  BY WidthAssumption, FlushAssumption DEF UInt64
<1>4. medium.size \in UInt64
  BY <1>2, MediaAssumption DEF Medium
<1>5. FlushTypeOK
  <2>1. m_stack \in Seq(Chunk)
    BY <1>1
  <2>2. NotRead \in UInt64 \cup {NotRead}
    OBVIOUS
  <2>3. num_chars \in [Fourccs -> UInt64 \cup {NotRead}]
    BY <1>1, <2>2
  <2>4. payload \in [position : UInt64, size : UInt64]
    BY <1>2, <1>3
  <2>5. parse_stage \in Stages /\ chunk_parse_stage \in ChunkParseStages /\ flow_ret \in FlowReturns
    BY <1>1, <1>2 DEF Stages, ChunkParseStages, FlowReturns
  <2>6. pc \in FlushPlaces
    BY <1>1 DEF FlushPlaces, Places
  <2>7. /\ byte_position \in UInt64 /\ available \in UInt64 /\ upstream_position \in UInt64
        /\ pending_segment_start \in UInt64 \cup {NoSegment}
        /\ upstream_size \in UInt64 /\ scan_from \in UInt64 /\ pop_position \in UInt64
    BY <1>1, <1>2, <1>3
  <2>8. iter \in Nat \ {0} /\ num_flushes \in 0 .. MaxFlushes
    BY <1>1, <1>3
  <2>9. /\ prop_finished \in BOOLEAN /\ any_popped \in BOOLEAN
        /\ flushing \in BOOLEAN /\ flush_in_progress \in BOOLEAN
    BY <1>1
  <2>. QED BY <1>1, <1>2, <2>1, <2>3, <2>4, <2>5, <2>6, <2>7, <2>8, <2>9 DEF FlushTypeOK
<1>6. FlushControl
  BY <1>1 DEF FlushControl
<1>7. FlushInput
  BY <1>2, <1>4, WidthAssumption DEF FlushInput, InputAligned, UInt64
<1>8. FlushPayload
  BY <1>2 DEF FlushPayload, PayloadLocated
<1>. QED BY <1>5, <1>6, <1>7, <1>8 DEF FlushInv

\* A step of the thread of the scan, whether or not it is being flushed.
LEMMA FlushedThreadStep == ASSUME FlushInv, FlushedThread PROVE FlushStepIsGood
<1>1. CASE AbortScan \/ AbortPayloadSkip
  BY <1>1, FlushLeaves, AbortPayloadSkipFlushed
<1>2. CASE StreamingThread /\ UNCHANGED flush_vars
  <2>1. CASE NoFurtherSubchunk \/ HeaderNotRead \/ ParseChunkStart
    BY <1>2, <2>1, NoFurtherSubchunkFlushed, HeaderNotReadFlushed, ParseChunkStartFlushed
  <2>2. CASE ParseChunkContent
    BY <1>2, <2>2, SkipUnknownChunkFlushed, FixedPartsFlushed, NothingReadFlushed,
       ReadTextLengthFlushed, ResumeTextFlushed, ReadTextFlushed, ParsePayloadFlushed DEF ParseChunkContent
  <2>3. CASE RetryFinish \/ Settle \/ HandleCorruptedChunkStructure
    BY <1>2, <2>3, NothingReadFlushed, SettleFlushed, HandleCorruptedFlushed
  <2>4. CASE FinishChunkParsing
    BY <1>2, <2>4, SkipPadByteFlushed, PopFinishedChunksFlushed, PopWalkFlushed, PopFormFlushed
       DEF FinishChunkParsing
  <2>5. CASE ScanInfoReturned \/ ChainReturns \/ ScanIsOver
    BY <1>2, <2>5, ScanInfoReturnedFlushed, ChainReturnsFlushed, FlushLeaves
  <2>. QED BY <1>2, <2>1, <2>2, <2>3, <2>4, <2>5 DEF StreamingThread
<1>. QED BY <1>1, <1>2 DEF FlushedThread

\* A step of upstream.
LEMMA FlushedUpstreamStep == ASSUME FlushInv, FlushedUpstream PROVE FlushStepIsGood
  BY DeliverFlushed, UpstreamSegmentFlushed, EndOfStreamFlushed, FlushLeaves, RefuseSegmentFlushed
     DEF FlushedUpstream

\* A step that changes nothing.
LEMMA FlushStutters == ASSUME FlushInv, UNCHANGED all_vars PROVE FlushStepIsGood
<1>1. UNCHANGED <<medium, io_vars, parse_stage, payload, stack_vars, prop_vars, pop_vars, flow_ret,
                  pc, scan_from, flush_vars>>
  BY DEF all_vars, vars
<1>2. RestTyped' /\ pc' \in FlushPlaces /\ flow_ret' \in FlowReturns
      /\ parse_stage' \in Stages /\ payload' \in [position : UInt64, size : UInt64]
  BY <1>1 DEF FlushInv, FlushTypeOK, RestTyped, stack_vars, prop_vars, pop_vars, flush_vars
<1>3. FlushControl'
  BY <1>1 DEF FlushInv, FlushControl, stack_vars, Front, Scanning, Pushing
<1>4. IoTyped' /\ FlushInput' /\ FlushPayload' /\ ~StreamingStarts
  <2>1. /\ medium' = medium /\ byte_position' = byte_position /\ available' = available
        /\ upstream_position' = upstream_position
        /\ pending_segment_start' = pending_segment_start
        /\ parse_stage' = parse_stage /\ payload' = payload /\ flow_ret' = flow_ret
    BY <1>1 DEF io_vars
  <2>2. FlushTypeOK /\ IoTyped /\ FlushInput /\ FlushPayload
    BY FlushMediumType DEF FlushInv
  <2>. QED BY <2>1, <2>2 DEF IoTyped, FlushInput, InputAligned, FlushPayload, Pushing, Scanning,
                             PayloadLocated, StreamingStarts
<1>5. FlushInv'
  BY <1>2, <1>3, <1>4, FlushAssembled
<1>. QED BY <1>4, <1>5 DEF FlushStepIsGood

\* Every step of a scan that is flushed keeps the invariant.
LEMMA FlushStep ==
  ASSUME FlushInv, [FlushNext]_all_vars
  PROVE  FlushInv' /\ [StreamingStarts => InPlace]_all_vars
<1>1. FlushStepIsGood
  BY FlushedThreadStep, FlushedUpstreamStep, FlushStartFlushed, FlushStopFlushed, FlushStutters
     DEF FlushNext
<1>. QED BY <1>1 DEF FlushStepIsGood

\* The invariant holds however often, and whenever, a scan is flushed.
THEOREM FlushInvHolds == FlushSpec => []FlushInv
<1>1. FlushInit => FlushInv
  BY FlushInitInv
<1>2. FlushInv /\ [FlushNext]_all_vars => FlushInv'
  BY FlushStep
<1>. QED BY <1>1, <1>2, PTL DEF FlushSpec

\* gst_dsd_media_parse_sink_event() clears the adapter at flush-stop and leaves the byte
\* position to the segment that follows: whatever the flush has interrupted, and whichever
\* of the parser's own seeks it has overtaken, they belong together when bytes are parsed.
THEOREM InputStaysAlignedThroughFlushes == FlushSpec => []InputAligned
<1>1. FlushInv => InputAligned
  BY DEF FlushInv, FlushInput
<1>. QED BY <1>1, FlushInvHolds, PTL

\* However often a scan is flushed, and to wherever, playback starts with the first byte of
\* the payload that was reported, or not at all.
THEOREM PlaybackAlwaysStartsInPlace == FlushSpec => PlaybackStartsInPlace
<1>1. FlushInv /\ [FlushNext]_all_vars => [StreamingStarts => InPlace]_all_vars
  BY FlushStep
<1>. QED BY <1>1, FlushInvHolds, PTL DEF FlushSpec, PlaybackStartsInPlace

===============================================================================
