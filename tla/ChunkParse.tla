------------------------------- MODULE ChunkParse -------------------------------
(***************************************************************************)
(* A scan of a chunk based medium: GstDsdChunkParse's scan_info() with the *)
(* parse and finish functions of GstDFFParse, called by the base class's   *)
(* streaming thread (the chain function in push mode, the pull mode loop   *)
(* in pull mode) until the Scanning Info stage ends.                       *)
(*                                                                         *)
(* The streaming thread is the only process; pc says where in the loop and *)
(* in scan_info() it stands.  What a chunk header or a text length says is *)
(* chosen when it is read, so the contents of the medium are arbitrary.    *)
(***************************************************************************)
EXTENDS MediaScan

CONSTANTS
  HeaderSize,          \* CHUNK_HEADER_SIZE
  SizeIncludesHeader,  \* chunk_size_includes_chunk_header
  RawSizes,            \* the sizes that the header of a chunk gives, for every chunk ID
  TextLengths,         \* the text lengths that text chunks give
  IdLists,             \* the chunks whose text is a list of IDs, of a length that the chunk's size gives
  IdSize,
  RequiredFields,      \* the chunks whose fields PropData::validate() demands
  FrameSize            \* num_channels, the size of a DFF frame

ASSUME HeaderAssumption ==
  /\ HeaderSize \in UInt64 \ {0}
  /\ SizeIncludesHeader \in BOOLEAN
  /\ RawSizes \in [Fourccs -> SUBSET UInt64]
  /\ TextLengths \subseteq UInt64
  /\ IdLists \subseteq Fourccs /\ IdSize \in Nat \ {0}
  /\ RequiredFields \subseteq Fourccs
  /\ FrameSize \in UInt64 \ {0}

\* The table of chunk descriptions: a part of fixed size is not empty; the fields that
\* validate() demands are in chunks without subchunks and not empty, and PROP requires them.
ASSUME TableAssumption ==
  /\ \A f \in DOMAIN Descriptions :
       /\ Descriptions[f].parse \in {"Leaf", "Form", "Properties", "Text"} => Descriptions[f].prefix > 0
       /\ Descriptions[f].finish = "Validate" => RequiredFields \subseteq Descriptions[f].required
  /\ \A f \in RequiredFields :
       /\ f \in DOMAIN Descriptions
       /\ Descriptions[f].parse \in {"Leaf", "Text"}
       /\ Descriptions[f].size > 0

ChunkParseStages == {"ParsingChunkStart", "ParsingChunkContent", "FinishingChunk"}

NotRead == -1

VARIABLES
  chunk_parse_stage,
  parsed,         \* the chunks whose fields in PropData have a value
  num_chars,      \* num_artist_chars and its siblings; of CHNL, the bytes of num_channels IDs
  upstream_size,  \* 0 until the FRM8 chunk is parsed
  prop_finished,  \* output_buffer_size is computed
  pc, flow_ret,
  scan_from,      \* previous_byte_position
  pop_position, iter, any_popped   \* pop_finished_chunks()

prop_vars  == <<parsed, num_chars, upstream_size, prop_finished>>
pop_vars   == <<pop_position, iter, any_popped>>
stack_vars == <<m_stack, chunk_parse_stage>>
vars == <<medium, io_vars, parse_stage, payload, stack_vars, prop_vars, pop_vars,
          pc, flow_ret, scan_from>>

\* idle     waiting for upstream (push mode)
\* loop     at the top of the loop of the chain function, or of the pull mode loop
\* text     in a parse function that has the length of its text
\* settle   in scan_info(), after the call that dispatched on the stage
\* finish   in finish_chunk_parsing(), before pop_finished_chunks()
\* pop      in the second pass of pop_finished_chunks()
\* corrupt_* in handle_corrupted_chunk_structure(), called from those two places
\* scanned  back in the loop with the flow return of scan_info()
\* aborted  an assertion of the code failed
Places == {"idle", "loop", "text", "settle", "finish", "pop", "corrupt_settle", "corrupt_finish",
           "scanned", "stopped", "aborted"}

Init ==
  /\ MediaScanInit
  /\ m_stack = << >>
  /\ chunk_parse_stage = "ParsingChunkStart"
  /\ parsed = {}
  /\ num_chars = [f \in Fourccs |-> NotRead]
  /\ upstream_size = 0
  /\ prop_finished = FALSE
  /\ pc = IF Pushing THEN "idle" ELSE "loop"
  /\ flow_ret = "OK"
  /\ scan_from = 0
  /\ pop_position = 0 /\ iter = 1 /\ any_popped = FALSE

-------------------------------------------------------------------------------
(***************************************************************************)
(* Upstream (push mode)                                                    *)
(***************************************************************************)

\* gst_dsd_media_parse_sink_chain() is entered with a buffer.
Deliver ==
  /\ pc = "idle"
  /\ pending_segment_start = NoSegment
  /\ Scanning
  /\ upstream_position < medium.size
  /\ \E n \in BufferSizes :
       LET delivered == Lesser(n, medium.size - upstream_position)
       IN  /\ available' = available + delivered
           /\ upstream_position' = upstream_position + delivered
  /\ pc' = "loop"
  /\ UNCHANGED <<medium, byte_position, pending_segment_start, parse_stage, payload,
                 stack_vars, prop_vars, pop_vars, flow_ret, scan_from>>

UpstreamSegment ==
  /\ pc = "idle"
  /\ HandleSinkSegment
  /\ pc' = IF parse_stage' = "ScanningInfo" THEN "idle" ELSE "stopped"
  /\ UNCHANGED <<medium, payload, stack_vars, prop_vars, pop_vars, flow_ret, scan_from>>

EndOfStream ==
  /\ pc = "idle"
  /\ pending_segment_start = NoSegment
  /\ Scanning
  /\ upstream_position = medium.size
  /\ IF PayloadLocated THEN ScanningFinished ELSE FinishWithoutPayload
  /\ pc' = IF parse_stage' = "AwaitingSegment" THEN "idle" ELSE "stopped"
  /\ UNCHANGED <<medium, payload, stack_vars, prop_vars, pop_vars, flow_ret, scan_from>>

-------------------------------------------------------------------------------
(***************************************************************************)
(* scan_info(): the call that dispatches on the chunk parse stage          *)
(***************************************************************************)

Dispatch(stage) ==
  /\ pc = "loop"
  /\ Scanning
  /\ Pushing => available > 0
  /\ chunk_parse_stage = stage
  /\ scan_from' = byte_position
  /\ UNCHANGED <<medium, pop_vars>>

Returns(ret) == flow_ret' = ret /\ pc' = "settle"

NumRemaining == Wrap(Front.payload_end_pos - byte_position)

\* parse_chunk_start(), its edge case: a chunk of subchunks that has no further one.
NoFurtherSubchunk ==
  /\ Dispatch("ParsingChunkStart")
  /\ m_stack # << >> /\ NumRemaining <= 1
  /\ chunk_parse_stage' = "FinishingChunk"
  /\ Returns("NOTHING_TO_READ")
  /\ UNCHANGED <<io_vars, parse_stage, payload, m_stack, prop_vars>>

HeaderNotRead ==
  /\ Dispatch("ParsingChunkStart")
  /\ m_stack # << >> => NumRemaining > 1
  /\ \E ret \in FlowReturns \ {"OK"} : Read(HeaderSize, ret) /\ Returns(ret)
  /\ UNCHANGED <<parse_stage, payload, stack_vars, prop_vars>>

Padded(size)      == Wrap(size + (size % 2))
ContentSize(size) == IF SizeIncludesHeader THEN size - HeaderSize ELSE size

SizeIsUnusable(raw_size, begin) ==
  \/ SizeIncludesHeader /\ raw_size < HeaderSize
  \/ Padded(ContentSize(raw_size)) < ContentSize(raw_size)
  \/ Padded(ContentSize(raw_size)) > MaxUInt64 - begin

EnterChunk(fourcc, raw_size, begin) ==
  LET size == ContentSize(raw_size)
      end  == begin + Padded(size)
  IN  /\ PushChunk(fourcc, size, begin, end)
      /\ IF PushReturnCode(fourcc, size, begin, end) = "Ok"
         THEN /\ chunk_parse_stage' = IF size = 0 THEN "FinishingChunk" ELSE "ParsingChunkContent"
              /\ Returns("OK")
         ELSE /\ pc' = "corrupt_settle"
              /\ UNCHANGED <<chunk_parse_stage, flow_ret>>

ParseChunkStart ==
  /\ Dispatch("ParsingChunkStart")
  /\ m_stack # << >> => NumRemaining > 1
  /\ Read(HeaderSize, "OK")
  /\ \E fourcc \in Fourccs : \E raw_size \in RawSizes[fourcc] :
       IF SizeIsUnusable(raw_size, byte_position')
       THEN pc' = "corrupt_settle" /\ UNCHANGED <<stack_vars, flow_ret>>
       ELSE EnterChunk(fourcc, raw_size, byte_position')
  /\ UNCHANGED <<parse_stage, payload, prop_vars>>

\* Mutant of SkipUnknownChunk: a chunk that was skipped to its end is not finished.
SkipUnknownChunkUnfinished ==
  /\ Dispatch("ParsingChunkContent")
  /\ ~Known(Front.fourcc)
  /\ \E ret \in FlowReturns, skipped \in {NumRemaining, available} :
       /\ Skip(NumRemaining, FALSE, ret, skipped)
       /\ Returns(IF ret = "OK" /\ skipped = 0 THEN "NOT_ENOUGH_DATA" ELSE ret)
  /\ UNCHANGED <<parse_stage, payload, stack_vars, prop_vars>>

\* parse_chunk_content() of an unknown chunk.
SkipUnknownChunk ==
  /\ Dispatch("ParsingChunkContent")
  /\ ~Known(Front.fourcc)
  /\ \E ret \in FlowReturns, skipped \in {NumRemaining, available} :
       /\ Skip(NumRemaining, FALSE, ret, skipped)
       /\ Returns(IF ret = "OK" /\ skipped = 0 THEN "NOT_ENOUGH_DATA" ELSE ret)
       /\ chunk_parse_stage' = IF ret = "OK" /\ skipped = NumRemaining THEN "FinishingChunk"
                                                                      ELSE chunk_parse_stage
  /\ UNCHANGED <<parse_stage, payload, m_stack, prop_vars>>

-------------------------------------------------------------------------------
(***************************************************************************)
(* The parse functions of GstDFFParse                                      *)
(***************************************************************************)

Parsing(kind) ==
  /\ Dispatch("ParsingChunkContent")
  /\ Known(Front.fourcc)
  /\ Descriptions[Front.fourcc].parse = kind

Prefix == Descriptions[Front.fourcc].prefix

PrefixNotRead ==
  /\ \E kind \in {"Leaf", "Form", "Properties"} : Parsing(kind)
  /\ \E ret \in FlowReturns \ {"OK"} : Read(Prefix, ret) /\ Returns(ret)
  /\ UNCHANGED <<parse_stage, payload, stack_vars, prop_vars>>

\* FVER, FS and LSCO: one read of fixed size; the value can be unacceptable.
ParseLeaf ==
  /\ Parsing("Leaf")
  /\ Read(Prefix, "OK")
  /\ \/ /\ Returns("OK")
        /\ chunk_parse_stage' = "FinishingChunk"
        /\ parsed' = parsed \cup {Front.fourcc}
     \/ /\ Returns("ERROR")
        /\ UNCHANGED <<chunk_parse_stage, parsed>>
  /\ UNCHANGED <<parse_stage, payload, m_stack, num_chars, upstream_size, prop_finished>>

\* FRM8 and PROP: a type, then subchunks.  FRM8 also asks upstream for its size.
ParseForm ==
  /\ \E kind \in {"Form", "Properties"} : Parsing(kind)
  /\ Read(Prefix, "OK")
  /\ \/ /\ Returns("OK")
        /\ chunk_parse_stage' = "ParsingChunkStart"
        /\ upstream_size' = IF Descriptions[Front.fourcc].parse = "Form" THEN medium.size
                                                                        ELSE upstream_size
     \/ /\ Returns("ERROR")
        /\ UNCHANGED <<chunk_parse_stage, upstream_size>>
  /\ UNCHANGED <<parse_stage, payload, m_stack, parsed, num_chars, prop_finished>>

\* Mutant of ParseContainer: claims to have read something.
ParseContainerClaimingProgress ==
  /\ Parsing("Container")
  /\ chunk_parse_stage' = "ParsingChunkStart"
  /\ Returns("OK")
  /\ UNCHANGED <<io_vars, parse_stage, payload, m_stack, prop_vars>>

\* DIIN: subchunks only.
ParseContainer ==
  /\ Parsing("Container")
  /\ chunk_parse_stage' = "ParsingChunkStart"
  /\ Returns("NOTHING_TO_READ")
  /\ UNCHANGED <<io_vars, parse_stage, payload, m_stack, prop_vars>>

(***************************************************************************)
(* DIAR, DITI and CMPR: a length, then that many characters; and CHNL: a   *)
(* number of channels, then that many IDs.  The length or number is kept   *)
(* in the element, where the next call finds it if the rest has not all    *)
(* arrived, and so does the next chunk of the kind.                        *)
(***************************************************************************)

TextLength == num_chars[Front.fourcc]

\* The number of channels has to be that of the IDs that the chunk has room for, and not zero.
IdListLengths ==
  {length \in UInt64 \ {0} :
     length % IdSize = 0 /\ Front.size - Prefix - length \in 0 .. IdSize - 1}

Lengths == IF Front.fourcc \in IdLists THEN IdListLengths ELSE TextLengths

ReadTextLength ==
  /\ Parsing("Text")
  /\ TextLength = NotRead
  /\ \E ret \in FlowReturns :
       /\ Read(Prefix, ret)
       /\ \/ /\ ret = "OK"
             /\ \E length \in Lengths : num_chars' = [num_chars EXCEPT ![Front.fourcc] = length]
             /\ parsed' = parsed \cup {Front.fourcc}
             /\ pc' = "text"
             /\ UNCHANGED flow_ret
          \/ /\ ret # "OK" \/ Front.fourcc \in IdLists  \* a number of channels that is refused
             /\ Returns(IF ret = "OK" THEN "ERROR" ELSE ret)
             /\ UNCHANGED <<num_chars, parsed>>
  /\ UNCHANGED <<parse_stage, payload, stack_vars, upstream_size, prop_finished>>

ResumeText ==
  /\ Parsing("Text")
  /\ TextLength # NotRead
  /\ pc' = "text"
  /\ UNCHANGED <<io_vars, parse_stage, payload, stack_vars, prop_vars, flow_ret>>

\* What a text says it has, the rest of its chunk may not; a list of IDs is only looked at when
\* its number is read.
TextIsTooLong == TextLength > NumRemaining /\ Front.fourcc \notin IdLists

ReadText ==
  /\ pc = "text"
  /\ \/ /\ TextLength = 0
        /\ chunk_parse_stage' = "FinishingChunk"
        /\ Returns("OK")
        /\ UNCHANGED io_vars
     \/ /\ TextIsTooLong
        /\ Returns("ERROR")
        /\ UNCHANGED <<io_vars, chunk_parse_stage>>
     \/ /\ TextLength > 0 /\ ~TextIsTooLong
        /\ \E ret \in FlowReturns :
             /\ Read(TextLength, ret)
             /\ \/ Returns(ret)
                \/ /\ ret = "OK" /\ Front.fourcc \in RequiredFields \ IdLists
                   /\ Returns("ERROR")  \* a compression that is not supported
             /\ chunk_parse_stage' = IF flow_ret' = "OK" THEN "FinishingChunk" ELSE chunk_parse_stage
  /\ UNCHANGED <<medium, parse_stage, payload, m_stack, prop_vars, pop_vars, scan_from>>

\* DSD: the payload.
FieldsAreComplete == RequiredFields \subseteq parsed
NumAvailable      == Wrap(upstream_size - byte_position)

PayloadUnusable ==
  /\ Parsing("Payload")
  /\ ~FieldsAreComplete \/ NumAvailable < FrameSize
  /\ Returns("ERROR")
  /\ UNCHANGED <<io_vars, parse_stage, payload, stack_vars, prop_vars>>

\* Mutant of ParsePayload: the chunk is not finished after its payload was skipped.
ParsePayloadUnfinished ==
  /\ Parsing("Payload")
  /\ FieldsAreComplete /\ NumAvailable >= FrameSize
  /\ \E ret \in FlowReturns :
       /\ ReportPayloadFound(Lesser(Front.size, NumAvailable), Front.size > NumAvailable, ret)
       /\ Returns(IF ret = "OK" THEN "NOTHING_TO_READ" ELSE ret)
  /\ UNCHANGED <<stack_vars, prop_vars>>

ParsePayload ==
  /\ Parsing("Payload")
  /\ FieldsAreComplete /\ NumAvailable >= FrameSize
  /\ \E ret \in FlowReturns :
       /\ ReportPayloadFound(Lesser(Front.size, NumAvailable), Front.size > NumAvailable, ret)
       /\ Returns(IF ret = "OK" THEN "NOTHING_TO_READ" ELSE ret)
       /\ chunk_parse_stage' = IF ret = "OK" THEN "FinishingChunk" ELSE chunk_parse_stage
  /\ UNCHANGED <<m_stack, prop_vars>>

\* The assertion in report_payload_found() that it is called once.
PayloadReportedAgain ==
  /\ Parsing("Payload")
  /\ FieldsAreComplete /\ NumAvailable >= FrameSize
  /\ PayloadLocated
  /\ pc' = "aborted"
  /\ UNCHANGED <<io_vars, parse_stage, payload, stack_vars, prop_vars, flow_ret>>

\* A chunk that could not be finished by the last call is looked at again.
RetryFinish ==
  /\ Dispatch("FinishingChunk")
  /\ Returns("OK")
  /\ UNCHANGED <<io_vars, parse_stage, payload, stack_vars, prop_vars>>

-------------------------------------------------------------------------------
(***************************************************************************)
(* scan_info() after the dispatch, handle_corrupted_chunk_structure() and  *)
(* finish_chunk_parsing()                                                  *)
(***************************************************************************)

Settle ==
  /\ pc = "settle"
  /\ \/ /\ flow_ret = "ADVANCE_OUT_OF_BOUNDS"
        /\ pc' = "corrupt_settle"
        /\ UNCHANGED flow_ret
     \/ /\ flow_ret \in {"OK", "NOTHING_TO_READ"}
        /\ Scanning
        /\ pc' = IF chunk_parse_stage = "FinishingChunk" THEN "finish" ELSE "scanned"
        /\ UNCHANGED flow_ret
     \/ /\ flow_ret \in {"OK", "NOTHING_TO_READ"}
        /\ ~Scanning
        /\ flow_ret' = IF HasMissingRequiredSubchunks THEN "ERROR" ELSE flow_ret
        /\ pc' = "scanned"
     \/ /\ flow_ret \notin {"OK", "NOTHING_TO_READ", "ADVANCE_OUT_OF_BOUNDS"}
        /\ pc' = "scanned"
        /\ UNCHANGED flow_ret
  /\ UNCHANGED <<medium, io_vars, parse_stage, payload, stack_vars, prop_vars, pop_vars, scan_from>>

\* Mutant of HandleCorruptedChunkStructure: recovers without concluding the scan.
HandleCorruptedByGoingOn ==
  /\ pc \in {"corrupt_settle", "corrupt_finish"}
  /\ pc' = IF pc = "corrupt_settle" THEN "settle" ELSE "scanned"
  /\ flow_ret' = IF PayloadLocated THEN "NOTHING_TO_READ" ELSE "ERROR"
  /\ UNCHANGED <<medium, io_vars, parse_stage, payload, stack_vars, prop_vars, pop_vars, scan_from>>

HandleCorruptedChunkStructure ==
  /\ pc \in {"corrupt_settle", "corrupt_finish"}
  /\ pc' = IF pc = "corrupt_settle" THEN "settle" ELSE "scanned"
  /\ IF PayloadLocated
     THEN ScanningFinished /\ flow_ret' = "NOTHING_TO_READ"
     ELSE flow_ret' = "ERROR" /\ UNCHANGED <<io_vars, parse_stage>>
  /\ UNCHANGED <<medium, payload, stack_vars, prop_vars, pop_vars, scan_from>>

\* The stack is not empty in the FinishingChunk stage (ContentHasChunk).
OnPadByte == Front.payload_end_pos - byte_position = 1

SkipPadByte ==
  /\ pc = "finish"
  /\ OnPadByte
  /\ \E ret \in FlowReturns, skipped \in {1, available} :
       /\ Skip(1, FALSE, ret, skipped)
       /\ IF ret = "OK" /\ skipped = 1
          THEN UNCHANGED <<pc, flow_ret>>
          ELSE pc' = "scanned" /\ flow_ret' = IF ret = "OK" THEN "NOT_ENOUGH_DATA" ELSE ret
  /\ UNCHANGED <<medium, parse_stage, payload, stack_vars, prop_vars, pop_vars, scan_from>>

PopFinishedChunks ==
  /\ pc = "finish"
  /\ ~OnPadByte
  /\ IF byte_position > Front.payload_end_pos \/ FinishableChunkIsIncomplete(byte_position)
     THEN pc' = "corrupt_finish" /\ UNCHANGED pop_vars
     ELSE pc' = "pop" /\ pop_position' = byte_position /\ iter' = 1 /\ any_popped' = FALSE
  /\ UNCHANGED <<medium, io_vars, parse_stage, payload, stack_vars, prop_vars, flow_ret, scan_from>>

-------------------------------------------------------------------------------
(***************************************************************************)
(* The second pass of pop_finished_chunks(), an element at a time          *)
(***************************************************************************)

\* Mutant of Ends: the chunks around the finished one are finished with it.
EndsHereOrLater(i) == m_stack[i].payload_end_pos >= pop_position

AtElement == pc = "pop" /\ iter <= Len(m_stack)
Ends(i)   == m_stack[i].payload_end_pos = pop_position

FinishFunction(chunk) == IF Known(chunk.fourcc) THEN Descriptions[chunk.fourcc].finish ELSE "None"

KeepElement ==
  /\ AtElement /\ ~Ends(iter)
  /\ iter' = iter + 1
  /\ UNCHANGED <<medium, io_vars, parse_stage, payload, stack_vars, prop_vars, pop_position,
                 any_popped, pc, flow_ret, scan_from>>

EraseElement ==
  /\ Erase(iter)
  /\ any_popped' = TRUE
  /\ UNCHANGED <<medium, payload, chunk_parse_stage, parsed, num_chars, upstream_size,
                 pop_position, iter, pc, flow_ret, scan_from>>

PopPlainChunk ==
  /\ AtElement /\ Ends(iter)
  /\ FinishFunction(m_stack[iter]) = "None"
  /\ EraseElement
  /\ UNCHANGED <<io_vars, parse_stage, prop_finished>>

\* gst_dffparse_finish_chunk_frm8()
PopForm ==
  /\ AtElement /\ Ends(iter)
  /\ FinishFunction(m_stack[iter]) = "ScanningFinished"
  /\ ScanningFinished
  /\ EraseElement
  /\ UNCHANGED prop_finished

\* gst_dffparse_finish_chunk_prop()
PopProperties ==
  /\ AtElement /\ Ends(iter)
  /\ FinishFunction(m_stack[iter]) = "Validate"
  /\ IF FieldsAreComplete
     THEN EraseElement /\ prop_finished' = TRUE
     ELSE /\ pc' = "corrupt_finish"
          /\ UNCHANGED <<medium, payload, stack_vars, prop_vars, pop_vars, flow_ret, scan_from>>
  /\ UNCHANGED <<io_vars, parse_stage>>

EndOfStack ==
  /\ pc = "pop" /\ iter > Len(m_stack)
  /\ IF any_popped
     THEN chunk_parse_stage' = "ParsingChunkStart" /\ pc' = "scanned"
     ELSE pc' = "corrupt_finish" /\ UNCHANGED chunk_parse_stage
  /\ UNCHANGED <<medium, io_vars, parse_stage, payload, m_stack, prop_vars, pop_vars,
                 flow_ret, scan_from>>

-------------------------------------------------------------------------------
(***************************************************************************)
(* The loop of the chain function, and the pull mode loop                  *)
(***************************************************************************)

HasAdvanced == byte_position # scan_from

\* The local variables of scan_info() and of what it calls go out of scope.
LocalsReset == scan_from' = 0 /\ pop_position' = 0 /\ iter' = 1 /\ any_popped' = FALSE

ScanInfoReturned ==
  /\ pc = "scanned"
  /\ \/ /\ flow_ret \in {"OK", "NOTHING_TO_READ"}
        /\ IF flow_ret = "OK" => HasAdvanced
           THEN pc' = "loop" /\ flow_ret' = "OK"
           ELSE pc' = "stopped" /\ flow_ret' = "ERROR"
     \/ /\ flow_ret = "NOT_ENOUGH_DATA"
        /\ pc' = IF Pushing THEN "idle" ELSE "stopped"
        /\ UNCHANGED flow_ret
     \/ /\ flow_ret \in {"ERROR", "EOS"}
        /\ pc' = "stopped"
        /\ UNCHANGED flow_ret
  /\ LocalsReset
  /\ UNCHANGED <<medium, io_vars, parse_stage, payload, stack_vars, prop_vars>>

\* The chain function is out of data, or ignores what it has until the segment.
ChainReturns ==
  /\ pc = "loop"
  /\ Pushing
  /\ available = 0 \/ parse_stage = "AwaitingSegment"
  /\ available' = 0
  /\ pc' = IF Scanning \/ pending_segment_start # NoSegment THEN "idle" ELSE "stopped"
  /\ UNCHANGED <<medium, byte_position, upstream_position, pending_segment_start, parse_stage,
                 payload, stack_vars, prop_vars, pop_vars, flow_ret, scan_from>>

\* The scan is over; what the other stages do is not part of this module.
ScanIsOver ==
  /\ pc = "loop"
  /\ parse_stage \in {"Streaming", "StreamFailure"}
  /\ Pushing => available > 0
  /\ pc' = "stopped"
  /\ UNCHANGED <<medium, io_vars, parse_stage, payload, stack_vars, prop_vars, pop_vars,
                 flow_ret, scan_from>>

ParseChunkContent ==
  \/ SkipUnknownChunk \/ PrefixNotRead \/ ParseLeaf \/ ParseForm \/ ParseContainer
  \/ ReadTextLength \/ ResumeText \/ ReadText
  \/ PayloadUnusable \/ ParsePayload \/ PayloadReportedAgain

FinishChunkParsing ==
  \/ SkipPadByte \/ PopFinishedChunks
  \/ KeepElement \/ PopPlainChunk \/ PopForm \/ PopProperties \/ EndOfStack

StreamingThread ==
  \/ NoFurtherSubchunk \/ HeaderNotRead \/ ParseChunkStart
  \/ ParseChunkContent
  \/ RetryFinish \/ Settle \/ HandleCorruptedChunkStructure
  \/ FinishChunkParsing
  \/ ScanInfoReturned \/ ChainReturns \/ ScanIsOver

Upstream == Deliver \/ UpstreamSegment \/ EndOfStream

Next == StreamingThread \/ Upstream

Spec == Init /\ [][Next]_vars

\* The streaming thread runs on, and upstream (which plays the medium from start
\* to end) pushes what it has and then EOS.
FairSpec == Spec /\ WF_vars(StreamingThread) /\ WF_vars(Upstream)

-------------------------------------------------------------------------------
(***************************************************************************)
(* Properties                                                              *)
(***************************************************************************)

TypeOK ==
  /\ medium \in Media
  /\ byte_position \in UInt64
  /\ available \in UInt64 /\ upstream_position \in UInt64
  /\ pending_segment_start \in UInt64 \cup {NoSegment}
  /\ parse_stage \in Stages
  /\ payload \in [position : UInt64, size : UInt64]
  /\ m_stack \in Seq(Chunk)
  /\ chunk_parse_stage \in ChunkParseStages
  /\ parsed \subseteq Fourccs
  /\ num_chars \in [Fourccs -> UInt64 \cup {NotRead}]
  /\ upstream_size \in UInt64 /\ prop_finished \in BOOLEAN
  /\ pc \in Places /\ flow_ret \in FlowReturns
  /\ scan_from \in UInt64 /\ pop_position \in UInt64
  /\ iter \in Nat /\ any_popped \in BOOLEAN

\* While scanning, the chunks on the stack lie inside each other, and the byte
\* position lies inside all of them, whatever sizes their headers gave and
\* wherever a seek of upstream ended.  The remaining bytes of a chunk, which the
\* code computes by unsigned subtraction, therefore never wrap around.
StackNested ==
  Scanning => \A i \in DOMAIN m_stack :
                /\ m_stack[i].payload_begin_pos <= byte_position
                /\ byte_position <= m_stack[i].payload_end_pos
                /\ \A j \in 1 .. i : m_stack[j].payload_end_pos <= m_stack[i].payload_end_pos

\* In push mode the byte position is that of the first byte in the adapter, and
\* upstream goes on where the adapter ends; while a segment is due, the adapter
\* holds nothing that a scan could read.  Failures are beyond repair and excluded.
InputAligned ==
  Pushing /\ flow_ret # "ERROR" /\ parse_stage # "StreamFailure" =>
    IF pending_segment_start = NoSegment
    THEN upstream_position = byte_position + available
    ELSE /\ upstream_position = pending_segment_start
         /\ Scanning => available = 0

\* The loops' checks of the subclass never fire: scan_info() does not return OK
\* without having advanced, not-enough-data in pull mode, or an out of bounds
\* code that it should have handled itself.
NoInternalError ==
  pc = "scanned" =>
    /\ flow_ret = "OK" => HasAdvanced
    /\ flow_ret = "NOT_ENOUGH_DATA" => Pushing
    /\ flow_ret # "ADVANCE_OUT_OF_BOUNDS"

\* The assertion that a skip of an unknown chunk skips something holds, and a
\* chunk's content is only parsed, or a chunk finished, when there is a chunk.
ContentHasChunk ==
  Scanning /\ pc \in {"loop", "finish"} =>
    /\ chunk_parse_stage # "ParsingChunkStart" => m_stack # << >>
    /\ chunk_parse_stage = "ParsingChunkContent" /\ ~Known(Front.fourcc) => NumRemaining > 0

\* Chunks leave the stack innermost first, at their end, and with every subchunk
\* they require.
PopsInnermostFirst ==
  [][Len(m_stack') < Len(m_stack) =>
       /\ m_stack' = Tail(m_stack)
       /\ Front.payload_end_pos = pop_position
       /\ Missing(Front) = {}]_vars

\* When the PROP chunk is finished, the fields that its validation demands have
\* been parsed: having been observed in PROP is as good as having been parsed.
PropEndsComplete ==
  AtElement /\ Ends(iter) /\ FinishFunction(m_stack[iter]) = "Validate" => FieldsAreComplete

\* Streaming starts with the first byte of the payload next to be read.
PlaybackStartsAtPayload ==
  [][parse_stage # "Streaming" /\ parse_stage' = "Streaming" =>
       /\ payload'.size > 0
       /\ byte_position' = payload'.position
       /\ Pushing => upstream_position' = payload'.position + available']_vars

\* Without a seekable upstream, finding the payload ends the scan at once, which
\* the assertion in scanning_finished() relies on.
UnseekableStreamsAtOnce ==
  PayloadLocated /\ ~medium.seekable => parse_stage = "Streaming"

\* Every scan ends, and with a verdict: the Streaming stage, the failure stage,
\* or a flow error.
ScanEnds ==
  <>(\/ pc = "aborted"
     \/ pc = "stopped" /\ (parse_stage \in {"Streaming", "StreamFailure"} \/ flow_ret \in {"ERROR", "EOS"}))

-------------------------------------------------------------------------------
(***************************************************************************)
(* What an assertion of the code says and the code does not keep           *)
(***************************************************************************)

\* gstdsdmediaparse.cpp:3647 asserts that the payload is reported once.
PayloadReportedOnce == pc # "aborted"

===============================================================================
