--------------------------- MODULE ChunkParseLemmas ---------------------------
(***************************************************************************)
(* Lemmas about the operations that the steps of a scan have in common, on *)
(* the inductive invariant's terms: entering a chunk, erasing one, reading *)
(* and skipping, and ending the scan.                                      *)
(***************************************************************************)
EXTENDS ChunkParseInvariant, SequenceTheorems, TLAPS

-------------------------------------------------------------------------------
(***************************************************************************)
(* What push_chunk() and the erasing of a finished chunk do to the stack   *)
(***************************************************************************)

\* A chunk after a step that may have recorded a subchunk in it.
SameExtent(c, d) ==
  /\ c.fourcc = d.fourcc
  /\ c.payload_begin_pos = d.payload_begin_pos
  /\ c.payload_end_pos = d.payload_end_pos
  /\ c.size = d.size

ObservesAtMost(c, d, f) == c.observed \subseteq d.observed \cup {f}

\* A wrapped number is an unsigned one.
LEMMA WrapType == ASSUME NEW n \in Int PROVE Wrap(n) \in UInt64
  BY WidthAssumption DEF Wrap, UInt64

\* Arithmetic that stays in range does not wrap.
LEMMA WrapIdentity == ASSUME NEW n \in UInt64 PROVE Wrap(n) = n
  BY WidthAssumption DEF Wrap, UInt64

\* A known chunk has a description of the right type.
LEMMA DescriptionType ==
  ASSUME NEW f, Known(f)
  PROVE  /\ f \in Fourccs
         /\ Descriptions[f] \in ChunkDescription
  BY DescriptionsAssumption DEF Known

\* Recording an observed subchunk leaves where the chunks begin and end alone.
LEMMA ObservedKeepsExtents ==
  ASSUME m_stack \in Seq(Chunk), NEW f \in Fourccs
  PROVE  /\ Observed(f) \in Seq(Chunk)
         /\ Len(Observed(f)) = Len(m_stack)
         /\ \A i \in 1 .. Len(m_stack) : /\ SameExtent(Observed(f)[i], m_stack[i])
                                      /\ ObservesAtMost(Observed(f)[i], m_stack[i], f)
<1>1. CASE Known(f) /\ m_stack # << >>
  <2>. DEFINE c == [m_stack[1] EXCEPT !.observed = @ \cup {f}]
  <2>1. 1 \in 1 .. Len(m_stack) /\ m_stack[1] \in Chunk
    BY <1>1
  <2>2. Observed(f) = [m_stack EXCEPT ![1] = c]
    BY <1>1 DEF Observed
  <2>3. c \in Chunk /\ SameExtent(c, m_stack[1]) /\ ObservesAtMost(c, m_stack[1], f)
    BY <2>1 DEF Chunk, SameExtent, ObservesAtMost
  <2>. HIDE DEF c
  <2>. QED
    BY <2>1, <2>2, <2>3, ExceptSeq DEF SameExtent, ObservesAtMost
<1>2. CASE ~(Known(f) /\ m_stack # << >>)
  BY <1>2 DEF Observed, SameExtent, ObservesAtMost
<1>. QED BY <1>1, <1>2

\* push_chunk() either leaves the chunks where they are, or puts one more chunk in
\* front that ends inside the chunk that was in front.
LEMMA PushKeepsStack ==
  ASSUME m_stack \in Seq(Chunk), NEW f \in Fourccs, NEW size \in UInt64,
         NEW begin \in UInt64, NEW end \in UInt64,
         PushChunk(f, size, begin, end)
  PROVE  /\ m_stack' \in Seq(Chunk)
         /\ PushReturnCode(f, size, begin, end) # "Ok" =>
              /\ Len(m_stack') = Len(m_stack)
              /\ \A i \in 1 .. Len(m_stack) : /\ SameExtent(m_stack'[i], m_stack[i])
                                              /\ ObservesAtMost(m_stack'[i], m_stack[i], f)
         /\ PushReturnCode(f, size, begin, end) = "Ok" =>
              /\ Len(m_stack') = Len(m_stack) + 1
              /\ m_stack'[1] = [fourcc |-> f, size |-> size, payload_begin_pos |-> begin,
                                payload_end_pos |-> end, observed |-> {}]
              /\ \A i \in 1 .. Len(m_stack) : /\ SameExtent(m_stack'[i + 1], m_stack[i])
                                              /\ ObservesAtMost(m_stack'[i + 1], m_stack[i], f)
              /\ m_stack # << >> => end <= Front.payload_end_pos
<1>. DEFINE new == [fourcc |-> f, size |-> size, payload_begin_pos |-> begin,
                    payload_end_pos |-> end, observed |-> {}]
<1>1. new \in Chunk
  BY DEF Chunk
<1>2. CASE PushReturnCode(f, size, begin, end) = "Ok"
  <2>1. m_stack' = << new >> \o Observed(f)
    BY <1>2 DEF PushChunk
  <2>2. m_stack # << >> => end <= Front.payload_end_pos
    <3>1. SUFFICES ASSUME m_stack # << >> PROVE end <= Front.payload_end_pos
      OBVIOUS
    <3>2. ~(end > Front.payload_end_pos)
      BY <1>2, <3>1 DEF PushReturnCode, OutOfParentBounds
    <3>3. Front \in Chunk
      BY <3>1 DEF Front
    <3>. QED BY <3>2, <3>3 DEF Chunk, UInt64
  <2>. HIDE DEF new
  <2>3. << new >> \in Seq(Chunk) /\ Len(<< new >>) = 1 /\ << new >>[1] = new
    BY <1>1
  <2>4. /\ m_stack' \in Seq(Chunk)
        /\ Len(m_stack') = Len(m_stack) + 1
        /\ m_stack'[1] = new
        /\ \A i \in 1 .. Len(m_stack) : m_stack'[i + 1] = Observed(f)[i]
    BY <1>1, <2>1, <2>3, ObservedKeepsExtents, ConcatProperties
  <2>5. m_stack'[1] = [fourcc |-> f, size |-> size, payload_begin_pos |-> begin,
                       payload_end_pos |-> end, observed |-> {}]
    BY <2>4 DEF new
  <2>. QED BY <1>2, <2>2, <2>4, <2>5, ObservedKeepsExtents
<1>3. CASE PushReturnCode(f, size, begin, end) = "ChunkOutOfParentBounds"
  <2>1. m_stack' = Observed(f)
    BY <1>3 DEF PushChunk
  <2>. QED BY <1>3, <2>1, ObservedKeepsExtents
<1>4. CASE /\ PushReturnCode(f, size, begin, end) # "Ok"
           /\ PushReturnCode(f, size, begin, end) # "ChunkOutOfParentBounds"
  <2>1. m_stack' = m_stack
    BY <1>4 DEF PushChunk
  <2>. QED BY <1>4, <2>1 DEF SameExtent, ObservesAtMost
<1>. QED BY <1>2, <1>3, <1>4

\* Erasing an element closes the gap and leaves the other chunks alone.
LEMMA EraseKeepsStack ==
  ASSUME m_stack \in Seq(Chunk), m_stack # << >>, NEW k \in Nat, Erase(k)
  PROVE  /\ m_stack' \in Seq(Chunk)
         /\ Len(m_stack') = Len(m_stack) - 1
         /\ \A i \in 1 .. Len(m_stack') :
              m_stack'[i] = IF i < k THEN m_stack[i] ELSE m_stack[i + 1]
<1>. DEFINE n == Len(m_stack) - 1
            s == [j \in 1 .. n |-> IF j < k THEN m_stack[j] ELSE m_stack[j + 1]]
<1>1. n \in Nat
  BY EmptySeq, LenProperties
<1>2. \A j \in 1 .. n : s[j] \in Chunk
  BY <1>1, ElementOfSeq
<1>3. s \in [1 .. n -> Chunk]
  BY <1>2
<1>4. m_stack' = s
  BY DEF Erase
<1>5. m_stack' \in Seq(Chunk)
  BY <1>1, <1>3, <1>4
<1>6. DOMAIN m_stack' = 1 .. n
  BY <1>4
<1>7. Len(m_stack') = n
  BY <1>1, <1>5, <1>6, LenProperties
<1>. QED BY <1>4, <1>5, <1>7

-------------------------------------------------------------------------------
(***************************************************************************)
(* Reading, skipping, and the steps of scan_info()                         *)
(***************************************************************************)

\* The innermost chunk, if there is one, has the type of a chunk.
LEMMA FrontType ==
  ASSUME TypeOK, m_stack # << >>
  PROVE  /\ 1 \in DOMAIN m_stack
         /\ Front \in Chunk
         /\ Front.payload_begin_pos \in UInt64
         /\ Front.payload_end_pos \in UInt64
         /\ Front.size \in UInt64
         /\ Front.fourcc \in Fourccs
<1>1. m_stack \in Seq(Chunk)
  BY DEF TypeOK
<1>2. 1 \in DOMAIN m_stack /\ m_stack[1] \in Chunk
  BY <1>1
<1>. QED BY <1>2 DEF Front, Chunk

\* What is at or before the end of the innermost chunk is inside all of them.
LEMMA FrontIsInnermost ==
  ASSUME TypeOK, StackSorted, NEW p \in UInt64, m_stack # << >> => p <= Front.payload_end_pos
  PROVE  \A i \in DOMAIN m_stack : p <= m_stack[i].payload_end_pos
<1>1. SUFFICES ASSUME NEW i \in DOMAIN m_stack PROVE p <= m_stack[i].payload_end_pos
  OBVIOUS
<1>2. m_stack \in Seq(Chunk)
  BY DEF TypeOK
<1>3. m_stack # << >> /\ 1 <= i /\ 1 \in DOMAIN m_stack
  BY <1>2
<1>4. m_stack[1].payload_end_pos <= m_stack[i].payload_end_pos
  BY <1>2, <1>3 DEF StackSorted
<1>5. m_stack[1] \in Chunk /\ m_stack[i] \in Chunk
  BY <1>2, <1>3
<1>. QED BY <1>3, <1>4, <1>5 DEF Front, Chunk, UInt64

InputIsAligned ==
  /\ upstream_position <= medium.size
  /\ Pushing =>
       IF pending_segment_start = NoSegment
       THEN upstream_position = byte_position + available
       ELSE upstream_position = pending_segment_start /\ available = 0

\* The medium is one of the assumed media.
LEMMA MediumType ==
  ASSUME TypeOK PROVE medium \in Medium /\ medium.size \in UInt64 /\ medium.seekable \in BOOLEAN
  BY MediaAssumption DEF TypeOK, Medium

\* A read that succeeds moves the byte position forward, inside the innermost chunk.
LEMMA ReadEffect ==
  ASSUME TypeOK, InputIsAligned, NEW n \in UInt64, NEW ret, Read(n, ret)
  PROVE  /\ byte_position' \in UInt64 /\ available' \in UInt64
         /\ UNCHANGED <<upstream_position, pending_segment_start>>
         /\ byte_position <= byte_position'
         /\ m_stack # << >> /\ byte_position <= Front.payload_end_pos =>
              byte_position' <= Front.payload_end_pos
         /\ Pushing => IF pending_segment_start = NoSegment
                       THEN upstream_position = byte_position' + available'
                       ELSE byte_position' = byte_position /\ available' = 0
         /\ ret = "OK" => byte_position' = byte_position + n
<1>. USE WidthAssumption DEF UInt64
<1>1. CASE ret # "OK"
  BY <1>1 DEF Read, io_vars, TypeOK, InputIsAligned
<1>2. CASE ret = "OK"
  <2>1. Consume(n) /\ ReadReturnCode(n) = "OK"
    BY <1>2 DEF Read
  <2>2. /\ Pushing => n <= available
        /\ VerifyAdvance(byte_position, n)
        /\ ~Pushing => byte_position + n <= medium.size
    BY <2>1, MediumType DEF ReadReturnCode, TypeOK
  <2>3. byte_position + n \in UInt64
    <3>1. CASE Pushing
      <4>1. CASE pending_segment_start = NoSegment
        BY <2>2, <3>1, <4>1, MediumType DEF TypeOK, InputIsAligned
      <4>2. CASE pending_segment_start # NoSegment
        BY <2>2, <3>1, <4>2, MediumType DEF TypeOK, InputIsAligned
      <4>. QED BY <4>1, <4>2
    <3>2. CASE ~Pushing
      BY <2>2, <3>2, MediumType, WidthAssumption DEF TypeOK
    <3>. QED BY <3>1, <3>2
  <2>4. byte_position' = byte_position + n
    BY <2>1, <2>3, WrapIdentity DEF Consume
  <2>5. m_stack # << >> => byte_position' <= Front.payload_end_pos
    BY <2>2, <2>3, <2>4, WrapIdentity DEF VerifyAdvance
  <2>6. /\ UNCHANGED <<upstream_position, pending_segment_start>>
        /\ available' = IF Pushing THEN available - n ELSE available
    BY <2>1 DEF Consume
  <2>. QED BY <2>2, <2>3, <2>4, <2>5, <2>6 DEF TypeOK, InputIsAligned
<1>. QED BY <1>1, <1>2

\* A skip inside the innermost chunk moves the byte position forward, or leaves
\* a segment pending that starts between the old and the new position.
LEMMA SkipEffect ==
  ASSUME TypeOK, InputIsAligned, m_stack # << >>,
         NEW n \in UInt64, NEW force \in BOOLEAN, NEW ret, NEW skipped,
         Skip(n, force, ret, skipped),
         SkipsBySeeking(n, force) => pending_segment_start = NoSegment,
         byte_position + n <= Front.payload_end_pos
  PROVE  /\ byte_position' \in UInt64 /\ available' \in UInt64 /\ upstream_position' \in UInt64
         /\ pending_segment_start' \in UInt64 \cup {NoSegment}
         /\ ret \in {"OK", "ERROR", "ADVANCE_OUT_OF_BOUNDS"}
         /\ byte_position <= byte_position'
         /\ byte_position' <= Front.payload_end_pos
         /\ upstream_position' <= medium.size
         /\ ret # "OK" => byte_position' = byte_position
         /\ ret = "OK" /\ skipped # n => byte_position' < Front.payload_end_pos
         /\ ~Pushing => UNCHANGED pending_segment_start
         /\ Pushing /\ ret # "ERROR" =>
              IF pending_segment_start' = NoSegment
              THEN upstream_position' = byte_position' + available'
              ELSE /\ upstream_position' = pending_segment_start'
                   /\ available' = 0
                   /\ \/ UNCHANGED <<byte_position, pending_segment_start>>
                      \/ /\ byte_position <= pending_segment_start'
                         /\ pending_segment_start' <= byte_position'
                         /\ ret = "OK" /\ skipped = n
<1>. USE WidthAssumption DEF UInt64
<1>0. /\ Front.payload_end_pos \in UInt64 /\ medium.size \in UInt64
      /\ byte_position + n \in UInt64
  BY FrontType, MediumType, WidthAssumption DEF TypeOK
<1>1. CASE skipped > 0 /\ ~VerifyAdvance(byte_position, skipped)
  <2>1. ret = "ADVANCE_OUT_OF_BOUNDS" /\ UNCHANGED io_vars
    BY <1>1 DEF Skip
  <2>2. byte_position \in UInt64 /\ byte_position <= Front.payload_end_pos
    BY <1>0 DEF TypeOK
  <2>. QED BY <2>1, <2>2 DEF io_vars, TypeOK, InputIsAligned
<1>2. CASE ~(skipped > 0 /\ ~VerifyAdvance(byte_position, skipped)) /\ ~SkipsBySeeking(n, force)
  <2>1. ret = "OK" /\ Consume(skipped) /\ skipped \in 0 .. n /\ (Pushing => skipped <= available)
    BY <1>2 DEF Skip, SkipsBySeeking, SkipsPartially, SkipsByConsuming, TypeOK
  <2>2. byte_position + skipped \in UInt64
    BY <1>0, <2>1 DEF TypeOK
  <2>3. byte_position' = byte_position + skipped
    BY <2>1, <2>2, WrapIdentity DEF Consume
  <2>4. /\ UNCHANGED <<upstream_position, pending_segment_start>>
        /\ available' = IF Pushing THEN available - skipped ELSE available
    BY <2>1 DEF Consume
  <2>. QED BY <1>0, <2>1, <2>2, <2>3, <2>4 DEF TypeOK, InputIsAligned
<1>3. CASE ~(skipped > 0 /\ ~VerifyAdvance(byte_position, skipped)) /\ SkipsBySeeking(n, force)
  <2>1. Pushing /\ skipped = n /\ SeekForward(n, ret)
    BY <1>3 DEF Skip, SkipsBySeeking, SkipsByConsuming
  <2>2. Wrap(byte_position + n) = byte_position + n
    BY <1>0, WrapIdentity
  <2>3. available' = 0
    BY <2>1 DEF SeekForward
  <2>4. CASE ret = "ERROR" /\ UNCHANGED <<byte_position, upstream_position, pending_segment_start>>
    BY <1>0, <2>1, <2>3, <2>4, WidthAssumption DEF TypeOK, InputIsAligned
  <2>5. ASSUME ret = "OK", NEW sync \in BOOLEAN,
               UpstreamSeek(byte_position + n, sync),
               byte_position' = IF sync THEN upstream_position' ELSE byte_position + n
        PROVE  /\ upstream_position' = Lesser(byte_position + n, medium.size)
               /\ byte_position <= upstream_position'
               /\ pending_segment_start' = IF sync THEN NoSegment ELSE upstream_position'
    <3>1. byte_position <= medium.size
      BY <1>0, <1>3, <2>1 DEF TypeOK, InputIsAligned
    <3>. QED BY <1>0, <2>5, <3>1 DEF UpstreamSeek, Lesser, TypeOK
  <2>6. ret \in {"OK", "ERROR"} /\ 0 \in UInt64 /\ byte_position \in UInt64
    BY <1>0, <2>1 DEF SeekForward, TypeOK
  <2>7. CASE ret = "OK"
    <3>1. PICK sync \in BOOLEAN :
            /\ UpstreamSeek(byte_position + n, sync)
            /\ byte_position' = IF sync THEN upstream_position' ELSE byte_position + n
      BY <2>1, <2>2, <2>7 DEF SeekForward
    <3>2. /\ upstream_position' = Lesser(byte_position + n, medium.size)
          /\ byte_position <= upstream_position'
          /\ pending_segment_start' = IF sync THEN NoSegment ELSE upstream_position'
      BY <2>5, <2>7, <3>1
    <3>3. /\ upstream_position' \in UInt64 /\ upstream_position' <= medium.size
          /\ upstream_position' <= byte_position + n
      BY <1>0, <3>2 DEF Lesser
    <3>4. CASE sync
      BY <1>0, <2>1, <2>3, <2>6, <2>7, <3>1, <3>2, <3>3, <3>4
    <3>5. CASE ~sync
      <4>1. byte_position' = byte_position + n /\ pending_segment_start' = upstream_position'
        BY <3>1, <3>2, <3>5
      <4>2. pending_segment_start' # NoSegment
        BY <3>3, <4>1 DEF NoSegment
      <4>3. /\ byte_position <= pending_segment_start'
            /\ pending_segment_start' <= byte_position'
            /\ byte_position <= byte_position'
        BY <1>0, <2>6, <3>2, <3>3, <4>1
      <4>. QED BY <1>0, <2>1, <2>3, <2>6, <2>7, <3>3, <4>1, <4>2, <4>3
    <3>. QED BY <3>4, <3>5
  <2>. QED BY <2>1, <2>4, <2>6, <2>7 DEF SeekForward
<1>. QED BY <1>1, <1>2, <1>3

\* Every chunk on the stack has the type of a chunk.
LEMMA ElementType ==
  ASSUME TypeOK, NEW i \in DOMAIN m_stack
  PROVE  /\ m_stack[i] \in Chunk
         /\ m_stack[i].payload_begin_pos \in UInt64
         /\ m_stack[i].payload_end_pos \in UInt64
         /\ m_stack[i].size \in UInt64
<1>1. m_stack \in Seq(Chunk)
  BY DEF TypeOK
<1>2. m_stack[i] \in Chunk
  BY <1>1
<1>. QED BY <1>2 DEF Chunk

\* What every part of scan_info() that is dispatched to can rely on.
LEMMA DispatchFacts ==
  ASSUME ScanInv, NEW stage, Dispatch(stage)
  PROVE  /\ pc = "loop" /\ flow_ret # "ERROR" /\ Scanning /\ chunk_parse_stage = stage
         /\ Pushing => pending_segment_start = NoSegment
         /\ InputIsAligned
         /\ stage # "ParsingChunkStart" => m_stack # << >>
         /\ UNCHANGED <<medium, pop_vars>>
         /\ scan_from' = byte_position
BY DEF ScanInv, TypeOK, ControlInv, InputInv, HasChunk, Dispatch, InputIsAligned

NothingMoved == medium' = medium /\ parse_stage' = parse_stage /\ m_stack' = m_stack /\ byte_position' = byte_position
  /\ available' = available /\ upstream_position' = upstream_position /\ pending_segment_start' = pending_segment_start

\* Steps that leave the input, the stack and the parse stage alone.
LEMMA QuietSteps ==
  ASSUME ScanInv, UNCHANGED <<medium, io_vars, parse_stage, m_stack>>
  PROVE  /\ StackSorted' /\ SizesFit' /\ PositionInside'
         /\ upstream_position' <= medium'.size
<1>1. NothingMoved
  BY DEF NothingMoved, io_vars
<1>. QED BY <1>1 DEF NothingMoved, ScanInv, StackSorted, SizesFit, PositionInside, InputInv, Scanning

\* Such a step keeps the invariant if it keeps the parts about the control.
LEMMA QuietInv ==
  ASSUME ScanInv, UNCHANGED <<medium, io_vars, parse_stage, m_stack>>,
         TypeOK', HasChunk', ControlInv', ContentInv', PopInv',
         flow_ret = "ERROR" => flow_ret' = "ERROR",
         chunk_parse_stage' = "ParsingChunkContent" => chunk_parse_stage = "ParsingChunkContent"
  PROVE  ScanInv'
<1>1. NothingMoved
  BY DEF NothingMoved, io_vars
<1>2. InputInv'
  BY <1>1 DEF NothingMoved, ScanInv, InputInv, ControlInv, Pushing, Scanning
<1>. QED BY <1>2, QuietSteps DEF ScanInv

\* A step that moves the byte position forward inside the innermost chunk keeps the
\* parts of the invariant that are about the position.
LEMMA MovingSteps ==
  ASSUME ScanInv, Scanning, UNCHANGED <<medium, parse_stage, m_stack>>,
         byte_position' \in UInt64, byte_position <= byte_position',
         m_stack # << >> => byte_position' <= Front.payload_end_pos,
         upstream_position' <= medium.size,
         Pushing /\ flow_ret' # "ERROR" =>
           IF pending_segment_start' = NoSegment
           THEN upstream_position' = byte_position' + available'
           ELSE /\ upstream_position' = pending_segment_start'
                /\ available' = 0
                /\ pending_segment_start' \in UInt64
                /\ chunk_parse_stage' # "ParsingChunkContent"
                /\ pending_segment_start' <= byte_position'
                /\ byte_position <= pending_segment_start'
  PROVE  StackSorted' /\ SizesFit' /\ PositionInside' /\ InputInv'
<1>1. TypeOK /\ StackSorted /\ byte_position \in UInt64 /\ m_stack' = m_stack
  BY DEF ScanInv, TypeOK
<1>2. StackSorted' /\ SizesFit'
  BY <1>1 DEF ScanInv, StackSorted, SizesFit
<1>3. ASSUME NEW i \in DOMAIN m_stack
      PROVE  /\ m_stack[i].payload_begin_pos <= byte_position
             /\ m_stack[i].payload_begin_pos \in UInt64
             /\ byte_position' <= m_stack[i].payload_end_pos
  BY <1>1, ElementType, FrontIsInnermost DEF ScanInv, PositionInside
<1>4. \A i \in DOMAIN m_stack : m_stack[i].payload_begin_pos <= byte_position'
  BY <1>1, <1>3 DEF UInt64
<1>5. PositionInside'
  BY <1>1, <1>3, <1>4 DEF PositionInside
<1>6. Pushing' = Pushing /\ medium' = medium
  BY DEF Pushing
<1>7. ASSUME Pushing, flow_ret' # "ERROR", pending_segment_start' # NoSegment
      PROVE  \A i \in DOMAIN m_stack : m_stack[i].payload_begin_pos <= pending_segment_start'
  BY <1>1, <1>3, <1>7 DEF UInt64
<1>8. InputInv'
  BY <1>1, <1>6, <1>7 DEF InputInv
<1>. QED BY <1>2, <1>5, <1>8

\* A read at the place where a part of scan_info() is entered, or where a text
\* is read.
LEMMA ReadKeepsInput ==
  ASSUME ScanInv, pc \in {"loop", "text"}, Scanning,
         Pushing => pending_segment_start = NoSegment,
         NEW n \in UInt64, NEW ret, Read(n, ret),
         UNCHANGED <<medium, parse_stage, m_stack>>
  PROVE  /\ byte_position' \in UInt64 /\ available' \in UInt64
         /\ UNCHANGED <<upstream_position, pending_segment_start>>
         /\ ret = "OK" => byte_position' = byte_position + n
         /\ ret # "OK" => byte_position' = byte_position
         /\ StackSorted' /\ SizesFit' /\ PositionInside' /\ InputInv'
<1>1. TypeOK /\ flow_ret # "ERROR" /\ InputIsAligned
  BY DEF ScanInv, ControlInv, InputInv, InputIsAligned
<1>2. /\ byte_position' \in UInt64 /\ available' \in UInt64
      /\ UNCHANGED <<upstream_position, pending_segment_start>>
      /\ byte_position <= byte_position'
      /\ m_stack # << >> /\ byte_position <= Front.payload_end_pos =>
           byte_position' <= Front.payload_end_pos
      /\ Pushing => upstream_position = byte_position' + available'
      /\ ret = "OK" => byte_position' = byte_position + n
  BY <1>1, ReadEffect
<1>3. m_stack # << >> => byte_position <= Front.payload_end_pos
  BY <1>1, FrontType DEF ScanInv, PositionInside, Front
<1>4. ret # "OK" => byte_position' = byte_position
  BY DEF Read, io_vars
<1>5. UNCHANGED <<upstream_position, pending_segment_start>> /\ upstream_position <= medium.size
  BY <1>1, <1>2 DEF InputIsAligned
<1>. QED BY <1>2, <1>3, <1>4, <1>5, MovingSteps

\* The fixed part of a known chunk's content has a size.
LEMMA PrefixType ==
  ASSUME Known(Front.fourcc)
  PROVE  Front.fourcc \in Fourccs /\ Prefix \in UInt64
  BY DescriptionType DEF Prefix, ChunkDescription

\* A chunk whose size is usable ends where the arithmetic says, without wrapping.
LEMMA UsableSize ==
  ASSUME NEW raw_size \in UInt64, NEW begin \in UInt64, ~SizeIsUnusable(raw_size, begin)
  PROVE  /\ ContentSize(raw_size) \in UInt64
         /\ begin + Padded(ContentSize(raw_size)) \in UInt64
         /\ begin + ContentSize(raw_size) <= begin + Padded(ContentSize(raw_size))
<1>1. ContentSize(raw_size) \in UInt64
  BY HeaderAssumption, WidthAssumption DEF SizeIsUnusable, ContentSize, UInt64
<1>2. ContentSize(raw_size) + (ContentSize(raw_size) % 2) \in Int
  BY <1>1 DEF UInt64
<1>3. Padded(ContentSize(raw_size)) \in UInt64
  BY <1>2, WrapType DEF Padded
<1>. QED BY <1>1, <1>3, WidthAssumption DEF SizeIsUnusable, UInt64

\* A stack that is as it was but for the observed subchunks, or with one more chunk.
LEMMA EnteredStack ==
  ASSUME ScanInv, Scanning, UNCHANGED <<medium, parse_stage>>,
         NEW f \in Fourccs, NEW size \in UInt64, NEW end \in UInt64,
         byte_position' \in UInt64,
         byte_position' + size <= end,
         PushChunk(f, size, byte_position', end),
         byte_position <= byte_position',
         m_stack # << >> => byte_position' <= Front.payload_end_pos
  PROVE  /\ m_stack' \in Seq(Chunk)
         /\ StackSorted' /\ SizesFit' /\ PositionInside'
         /\ PushReturnCode(f, size, byte_position', end) = "Ok" =>
              /\ m_stack' # << >>
              /\ Front'.payload_begin_pos = byte_position'
              /\ Front'.payload_end_pos = end
<1>. DEFINE begin == byte_position'
<1>1. TypeOK /\ StackSorted /\ SizesFit /\ PositionInside /\ m_stack \in Seq(Chunk) /\ byte_position \in UInt64
  BY DEF ScanInv, TypeOK
<1>2. ASSUME NEW i \in DOMAIN m_stack
      PROVE  /\ m_stack[i].payload_begin_pos \in UInt64
             /\ m_stack[i].payload_end_pos \in UInt64
             /\ m_stack[i].size \in UInt64
             /\ m_stack[i].payload_begin_pos <= begin
             /\ begin <= m_stack[i].payload_end_pos
             /\ m_stack[i].payload_begin_pos + m_stack[i].size <= m_stack[i].payload_end_pos
  <2>1. m_stack[i].payload_begin_pos <= byte_position
    BY <1>1 DEF PositionInside
  <2>. QED BY <1>1, <2>1, ElementType, FrontIsInnermost DEF SizesFit, UInt64
<1>3. CASE PushReturnCode(f, size, begin, end) # "Ok"
  <2>1. /\ m_stack' \in Seq(Chunk) /\ Len(m_stack') = Len(m_stack)
        /\ \A i \in 1 .. Len(m_stack) : SameExtent(m_stack'[i], m_stack[i])
    BY <1>1, <1>3, PushKeepsStack
  <2>2. DOMAIN m_stack' = DOMAIN m_stack /\ DOMAIN m_stack = 1 .. Len(m_stack)
    BY <1>1, <2>1
  <2>3. StackSorted'
    BY <1>1, <2>1, <2>2 DEF StackSorted, SameExtent
  <2>4. SizesFit' /\ PositionInside'
    BY <1>2, <2>1, <2>2 DEF SizesFit, PositionInside, SameExtent
  <2>. QED BY <1>3, <2>1, <2>3, <2>4
<1>4. CASE PushReturnCode(f, size, begin, end) = "Ok"
  <2>1. /\ m_stack' \in Seq(Chunk) /\ Len(m_stack') = Len(m_stack) + 1
        /\ m_stack'[1] = [fourcc |-> f, size |-> size, payload_begin_pos |-> begin,
                          payload_end_pos |-> end, observed |-> {}]
        /\ \A i \in 1 .. Len(m_stack) : SameExtent(m_stack'[i + 1], m_stack[i])
        /\ m_stack # << >> => end <= Front.payload_end_pos
    BY <1>1, <1>4, PushKeepsStack
  <2>2. /\ m_stack'[1].payload_begin_pos = begin
        /\ m_stack'[1].payload_end_pos = end
        /\ m_stack'[1].size = size
    BY <2>1
  <2>3. /\ DOMAIN m_stack = 1 .. Len(m_stack) /\ DOMAIN m_stack' = 1 .. (Len(m_stack) + 1)
        /\ Len(m_stack) \in Nat
    BY <1>1, <2>1
  <2>4. \A i \in DOMAIN m_stack' :
          i = 1 \/ (i - 1 \in DOMAIN m_stack /\ SameExtent(m_stack'[i], m_stack[i - 1]))
    BY <2>1, <2>3
  <2>5. \A i \in DOMAIN m_stack : end <= m_stack[i].payload_end_pos
    BY <1>1, <2>1, FrontIsInnermost
  <2>6. StackSorted'
    <3>1. ASSUME NEW i \in DOMAIN m_stack', NEW j \in DOMAIN m_stack', i <= j
          PROVE  m_stack'[i].payload_end_pos <= m_stack'[j].payload_end_pos
      <4>1. CASE i = 1 /\ j = 1
        BY <2>2, <4>1 DEF UInt64
      <4>2. CASE i = 1 /\ j # 1
        BY <2>2, <2>4, <2>5, <4>2 DEF SameExtent
      <4>3. CASE i # 1
        <5>1. i - 1 \in DOMAIN m_stack /\ j - 1 \in DOMAIN m_stack /\ i - 1 <= j - 1
          BY <2>3, <3>1, <4>3
        <5>2. m_stack[i - 1].payload_end_pos <= m_stack[j - 1].payload_end_pos
          BY <1>1, <5>1 DEF StackSorted
        <5>. QED BY <2>3, <2>4, <3>1, <4>3, <5>2 DEF SameExtent
      <4>. QED BY <4>1, <4>2, <4>3
    <3>. QED BY <3>1 DEF StackSorted
  <2>7. SizesFit' /\ PositionInside'
    <3>1. ASSUME NEW i \in DOMAIN m_stack'
          PROVE  /\ m_stack'[i].payload_begin_pos + m_stack'[i].size <= m_stack'[i].payload_end_pos
                 /\ m_stack'[i].payload_begin_pos <= begin
                 /\ begin <= m_stack'[i].payload_end_pos
      BY <1>2, <2>2, <2>4 DEF SameExtent, UInt64
    <3>. QED BY <3>1 DEF SizesFit, PositionInside
  <2>8. m_stack' # << >>
    BY <2>3
  <2>. QED BY <2>1, <2>2, <2>6, <2>7, <2>8 DEF Front
<1>. QED BY <1>3, <1>4

\* A skip inside the innermost chunk keeps the invariant's parts about the input,
\* provided that nothing is parsed as content while a segment is pending.
LEMMA SkipKeepsInput ==
  ASSUME ScanInv, flow_ret # "ERROR", Scanning, m_stack # << >>,
         UNCHANGED <<medium, parse_stage, m_stack>>,
         NEW n \in UInt64, NEW force \in BOOLEAN, NEW ret, NEW skipped,
         Skip(n, force, ret, skipped),
         SkipsBySeeking(n, force) => Pushing /\ pending_segment_start = NoSegment,
         byte_position + n <= Front.payload_end_pos,
         ret = "ERROR" => flow_ret' = "ERROR",
         Pushing /\ pending_segment_start # NoSegment => chunk_parse_stage' # "ParsingChunkContent",
         ret = "OK" /\ skipped = n => chunk_parse_stage' # "ParsingChunkContent"
  PROVE  /\ byte_position' \in UInt64 /\ available' \in UInt64 /\ upstream_position' \in UInt64
         /\ pending_segment_start' \in UInt64 \cup {NoSegment}
         /\ ret \in {"OK", "ERROR", "ADVANCE_OUT_OF_BOUNDS"}
         /\ ret # "OK" => byte_position' = byte_position
         /\ ret = "OK" /\ skipped # n => byte_position' < Front.payload_end_pos
         /\ StackSorted' /\ SizesFit' /\ PositionInside' /\ InputInv'
<1>1. TypeOK /\ InputIsAligned
  BY DEF ScanInv, InputInv, InputIsAligned
<1>2. /\ byte_position' \in UInt64 /\ available' \in UInt64 /\ upstream_position' \in UInt64
      /\ pending_segment_start' \in UInt64 \cup {NoSegment}
      /\ ret \in {"OK", "ERROR", "ADVANCE_OUT_OF_BOUNDS"}
      /\ byte_position <= byte_position'
      /\ byte_position' <= Front.payload_end_pos
      /\ upstream_position' <= medium.size
      /\ ret # "OK" => byte_position' = byte_position
      /\ ret = "OK" /\ skipped # n => byte_position' < Front.payload_end_pos
      /\ Pushing /\ ret # "ERROR" =>
           IF pending_segment_start' = NoSegment
           THEN upstream_position' = byte_position' + available'
           ELSE /\ upstream_position' = pending_segment_start'
                /\ available' = 0
                /\ \/ UNCHANGED <<byte_position, pending_segment_start>>
                   \/ /\ byte_position <= pending_segment_start'
                      /\ pending_segment_start' <= byte_position'
                      /\ ret = "OK" /\ skipped = n
  BY <1>1, SkipEffect
<1>3. CASE UNCHANGED <<byte_position, pending_segment_start>>
  <2>1. StackSorted' /\ SizesFit' /\ PositionInside'
    BY <1>3 DEF ScanInv, StackSorted, SizesFit, PositionInside, Scanning
  <2>2. InputInv'
    BY <1>1, <1>2, <1>3 DEF ScanInv, InputInv, Pushing, Scanning
  <2>. QED BY <1>2, <2>1, <2>2
<1>4. CASE ~UNCHANGED <<byte_position, pending_segment_start>>
  BY <1>2, <1>4, MovingSteps
<1>. QED BY <1>3, <1>4

\* The remaining bytes of the innermost chunk, computed without wrapping.
LEMMA RemainingBytes ==
  ASSUME ScanInv, Scanning, m_stack # << >>
  PROVE  /\ NumRemaining \in UInt64
         /\ byte_position + NumRemaining = Front.payload_end_pos
         /\ byte_position \in UInt64 /\ Front.payload_end_pos \in UInt64
         /\ Front.payload_begin_pos <= byte_position
<1>1. byte_position \in UInt64 /\ Front.payload_end_pos \in UInt64
  BY FrontType DEF ScanInv, TypeOK
<1>2. byte_position <= Front.payload_end_pos /\ Front.payload_begin_pos <= byte_position
  BY FrontType DEF ScanInv, PositionInside, Front
<1>3. Front.payload_end_pos - byte_position \in UInt64
  BY <1>1, <1>2, WidthAssumption DEF UInt64
<1>. QED BY <1>1, <1>2, <1>3, WrapIdentity DEF NumRemaining, UInt64

\* Ending the scan leaves the Scanning Info stage for good.
LEMMA ScanningFinishedEffect ==
  ASSUME TypeOK, upstream_position <= medium.size, ScanningFinished, UNCHANGED medium
  PROVE  /\ ~Scanning'
         /\ parse_stage' \in Stages
         /\ byte_position' \in UInt64 /\ available' \in UInt64 /\ upstream_position' \in UInt64
         /\ pending_segment_start' \in UInt64 \cup {NoSegment}
         /\ upstream_position' <= medium.size
<1>1. /\ payload.position \in UInt64 /\ medium.size \in UInt64
      /\ Lesser(payload.position, medium.size) \in UInt64
      /\ Lesser(payload.position, medium.size) <= medium.size
      /\ 0 \in UInt64
  BY MediumType, WidthAssumption DEF TypeOK, Lesser, UInt64
<1>2. CASE parse_stage = "Streaming" /\ UNCHANGED <<parse_stage, io_vars>>
  BY <1>2 DEF TypeOK, io_vars, Scanning
<1>3. CASE FinishWithoutPayload
  BY <1>3 DEF FinishWithoutPayload, TypeOK, io_vars, Scanning, Stages
<1>4. CASE FinishByRewinding
  BY <1>1, <1>4 DEF FinishByRewinding, StartStreamingAt, TypeOK, Scanning, Stages
<1>5. CASE FinishBySeekingUpstream
  BY <1>1, <1>5 DEF FinishBySeekingUpstream, StartStreamingAt, UpstreamSeek, TypeOK, io_vars, Scanning, Stages
<1>. QED BY <1>2, <1>3, <1>4, <1>5 DEF ScanningFinished

\* Erasing the chunk under the iterator keeps the others as they are.
LEMMA EraseElementEffect ==
  ASSUME ScanInv, AtElement, Ends(iter), EraseElement
  PROVE  /\ m_stack' \in Seq(Chunk) /\ iter = 1 /\ m_stack # << >> /\ m_stack' = Tail(m_stack)
         /\ \A i \in DOMAIN m_stack' : i + 1 \in DOMAIN m_stack /\ m_stack'[i] = m_stack[i + 1]
         /\ StackSorted' /\ SizesFit' /\ PopInv'
         /\ UNCHANGED <<byte_position, parse_stage>> => PositionInside'
<1>1. /\ pc = "pop" /\ iter <= Len(m_stack) /\ m_stack[iter].payload_end_pos = pop_position
      /\ Erase(iter) /\ any_popped' = TRUE
      /\ UNCHANGED <<pop_position, iter, pc>>
  BY DEF AtElement, Ends, EraseElement
<1>2. TypeOK /\ m_stack \in Seq(Chunk) /\ iter \in Nat /\ iter >= 1 /\ pop_position \in UInt64
  BY <1>1 DEF ScanInv, TypeOK, PopInv
<1>3. iter \in DOMAIN m_stack /\ m_stack # << >>
  BY <1>1, <1>2
<1>4. iter = 1
  <2>1. ~(m_stack[iter].payload_end_pos > pop_position)
    BY <1>1, <1>2 DEF UInt64
  <2>2. ~(iter > 1)
    BY <1>1, <1>3, <2>1 DEF ScanInv, PopInv
  <2>. QED BY <1>2, <2>2
<1>5. /\ m_stack' \in Seq(Chunk) /\ Len(m_stack') = Len(m_stack) - 1
      /\ \A i \in 1 .. Len(m_stack') : m_stack'[i] = m_stack[i + 1]
  BY <1>1, <1>2, <1>3, <1>4, EraseKeepsStack
<1>6. m_stack' = Tail(m_stack)
  <2>1. /\ Tail(m_stack) \in Seq(Chunk)
        /\ Len(Tail(m_stack)) = Len(m_stack) - 1
        /\ \A i \in 1 .. Len(Tail(m_stack)) : Tail(m_stack)[i] = m_stack[i + 1]
    BY <1>2, <1>3, HeadTailProperties
  <2>. QED BY <1>5, <2>1, SeqEqual
<1>7. \A i \in DOMAIN m_stack' : i + 1 \in DOMAIN m_stack /\ m_stack'[i] = m_stack[i + 1]
  BY <1>2, <1>5
<1>8. StackSorted' /\ SizesFit'
  BY <1>5, <1>7 DEF ScanInv, StackSorted, SizesFit
<1>9. PopInv'
  BY <1>1, <1>2, <1>4, <1>7 DEF ScanInv, PopInv, Missing, Known
<1>10. ASSUME UNCHANGED <<byte_position, parse_stage>> PROVE PositionInside'
  BY <1>7, <1>10 DEF ScanInv, PositionInside, Scanning
<1>. QED BY <1>3, <1>4, <1>5, <1>6, <1>7, <1>8, <1>9, <1>10

===============================================================================
