--------------------------- MODULE DsdMediaPushProofs ---------------------------
(***************************************************************************)
(* Push mode for any payload, frame size, buffer sizes, seeks and flushes: *)
(* what holds whoever seeks and flushes, and that a stream which only one  *)
(* thread seeks in plays what the segment says.  First come the facts      *)
(* about the index conversions; then every action keeps PushInv; then what *)
(* follows from it.                                                        *)
(***************************************************************************)
EXTENDS DsdMediaPushInvariant, SequenceTheorems, TLAPS

-------------------------------------------------------------------------------
(***************************************************************************)
(* Index conversions.                                                      *)
(***************************************************************************)

LEMMA DivBounds ==
  ASSUME NEW a \in Nat, NEW b \in Nat \ {0}
  PROVE  a \div b \in Nat /\ b * (a \div b) <= a /\ a < b * (a \div b) + b
OBVIOUS

LEMMA DivAtLeast ==
  ASSUME NEW a \in Nat, NEW b \in Nat \ {0}, NEW c \in Nat
  PROVE  c <= a \div b <=> c * b <= a
BY DivBounds

LEMMA DivMonotone ==
  ASSUME NEW a \in Nat, NEW b \in Nat \ {0}, NEW c \in Nat, a <= c
  PROVE  a \div b <= c \div b
<1>1. a \div b \in Nat /\ c \div b \in Nat
  BY DivBounds
<1>2. (a \div b) * b <= a
  BY <1>1, DivAtLeast
<1>3. (a \div b) * b <= c
  BY <1>1, <1>2
<1>. QED BY <1>1, <1>3, DivAtLeast

LEMMA ProductMonotone ==
  ASSUME NEW a \in Nat, NEW b \in Nat, NEW c \in Nat, a <= b
  PROVE  a * c \in Nat /\ a * c <= b * c
OBVIOUS

\* A payload has whole frames, and bytes behind it.
LEMMA Sizes ==
  /\ FrameSize \in Nat \ {0} /\ SampleRate \in Nat \ {0} /\ Second \in Nat \ {0}
  /\ PayloadPosition \in Nat /\ PayloadSize \in Nat /\ MediumSize \in Nat
  /\ EndOfPayload \in Nat /\ EndOfPayload = PayloadPosition + PayloadSize /\ EndOfPayload < MediumSize
  /\ TotalIndices \in Nat \ {0}
  /\ \A i \in Nat : i <= TotalIndices <=> i * FrameSize <= PayloadSize
  /\ Duration \in Nat
<1>1. TotalIndices \in Nat /\ \A i \in Nat : i <= TotalIndices <=> i * FrameSize <= PayloadSize
  BY SizesAssumption, DivBounds, DivAtLeast DEF TotalIndices
<1>2. 1 * FrameSize <= PayloadSize
  BY SizesAssumption
<1>3. 1 <= TotalIndices
  BY <1>1, <1>2
<1>4. Duration \in Nat
  <2>1. TotalIndices * Second \in Nat
    BY <1>1, SizesAssumption
  <2>2. TotalIndices * Second + SampleRate - 1 \in Nat
    BY <2>1, SizesAssumption
  <2>. QED BY <2>2, DivBounds, SizesAssumption DEF Duration
<1>. QED BY <1>1, <1>3, <1>4, SizesAssumption DEF EndOfPayload

LEMMA BytesOfIndex ==
  ASSUME NEW i \in 0 .. TotalIndices
  PROVE  /\ BytesOf(i) = i * FrameSize
         /\ PayloadPosition + i * FrameSize \in PayloadPosition .. EndOfPayload
<1>1. i * FrameSize \in Nat /\ i * FrameSize <= PayloadSize
  BY Sizes
<1>. QED BY <1>1, Sizes DEF BytesOf, Least

LEMMA TimeOfTyped ==
  ASSUME NEW i \in Nat
  PROVE  TimeOf(i) \in 0 .. Duration
<1>1. i * Second \in Nat
  BY Sizes
<1>2. (i * Second) \div SampleRate \in Nat
  BY <1>1, Sizes, DivBounds
<1>. QED BY <1>2, Sizes DEF TimeOf, Least

LEMMA TimeOfZero == TimeOf(0) = 0
<1>1. 0 * Second = 0 /\ 0 \div SampleRate = 0
  BY Sizes
<1>. QED BY <1>1, Sizes DEF TimeOf, Least

LEMMA TimeOfMonotone ==
  ASSUME NEW i \in Nat, NEW j \in Nat, i <= j
  PROVE  TimeOf(i) <= TimeOf(j)
<1>1. i * Second \in Nat /\ j * Second \in Nat /\ i * Second <= j * Second
  BY Sizes, ProductMonotone
<1>2. (i * Second) \div SampleRate <= (j * Second) \div SampleRate
  BY <1>1, Sizes, DivMonotone
<1>3. (i * Second) \div SampleRate \in Nat /\ (j * Second) \div SampleRate \in Nat
  BY <1>1, Sizes, DivBounds
<1>. QED BY <1>2, <1>3, Sizes DEF TimeOf, Least

LEMMA ToIndexTyped ==
  ASSUME NEW format, NEW value \in Nat
  PROVE  ToIndex(format, value) \in 0 .. TotalIndices
<1>1. value \div FrameSize \in Nat
  BY Sizes, DivBounds
<1>2. value * SampleRate \in Nat
  BY Sizes
<1>3. (value * SampleRate) \div Second \in Nat
  BY <1>2, Sizes, DivBounds
<1>. QED BY <1>1, <1>3, Sizes DEF ToIndex, Least

\* The time of an index starts that index.
LEMMA IndexBegins ==
  ASSUME NEW i \in 0 .. TotalIndices
  PROVE  Begins(TimeOf(i), i)
<1>1. i \in Nat /\ i + 1 \in Nat /\ i <= i + 1
  BY Sizes
<1>2. TimeOf(i) \in Int
  BY <1>1, TimeOfTyped
<1>. QED BY <1>1, <1>2, TimeOfMonotone DEF Begins

\* A time lies in the index that it is taken to, unless it is past the last one.
LEMMA TimeInItsIndex ==
  ASSUME NEW time \in 0 .. Duration
  PROVE  Begins(time, ToIndex("TIME", time))
<1>. DEFINE index == (time * SampleRate) \div Second
<1>1. time \in Nat /\ time * SampleRate \in Nat
  BY Sizes
<1>2. index \in Nat /\ index * Second <= time * SampleRate
  BY <1>1, Sizes, DivBounds, DivAtLeast
<1>3. ~((index + 1) * Second <= time * SampleRate)
  BY <1>1, <1>2, Sizes, DivAtLeast
<1>. HIDE DEF index
<1>4. ToIndex("TIME", time) = Least(index, TotalIndices)
  BY DEF ToIndex, index
<1>5. TimeOf(index) <= time
  <2>1. index * Second \in Nat /\ (index * Second) \div SampleRate \in Nat
    BY <1>2, Sizes, DivBounds
  <2>2. ~(time + 1 <= (index * Second) \div SampleRate)
    <3>1. ~((time + 1) * SampleRate <= index * Second)
      BY <1>1, <1>2, <2>1, Sizes
    <3>. QED BY <1>1, <2>1, <3>1, Sizes, DivAtLeast
  <2>. QED BY <1>1, <2>1, <2>2, Sizes DEF TimeOf, Least
<1>6. time <= TimeOf(index + 1)
  <2>1. (index + 1) * Second \in Nat /\ ((index + 1) * Second) \div SampleRate \in Nat
    BY <1>2, Sizes, DivBounds
  <2>2. time * SampleRate <= (index + 1) * Second
    BY <1>1, <1>3, <2>1
  <2>3. time <= ((index + 1) * Second) \div SampleRate
    BY <1>1, <2>1, <2>2, Sizes, DivAtLeast
  <2>. QED BY <2>1, <2>3, Sizes DEF TimeOf, Least
<1>7. CASE index <= TotalIndices
  BY <1>4, <1>5, <1>6, <1>7 DEF Begins, Least
<1>8. CASE ~(index <= TotalIndices)
  <2>1. ToIndex("TIME", time) = TotalIndices
    BY <1>4, <1>8 DEF Least
  <2>2. TotalIndices <= index
    BY <1>2, <1>8, Sizes
  <2>3. TimeOf(TotalIndices) <= TimeOf(index)
    BY <1>2, <2>2, Sizes, TimeOfMonotone
  <2>4. TimeOf(TotalIndices) \in Int /\ TimeOf(index) \in Int
    BY <1>2, Sizes, TimeOfTyped
  <2>. QED BY <1>1, <1>5, <2>1, <2>3, <2>4, Sizes DEF Begins
<1>. QED BY <1>7, <1>8

\* common_seek_procedures(): position, index and segment that a seek asks for belong together.
LEMMA SeekTarget ==
  ASSUME NEW format \in {"BYTES", "TIME"}, NEW value \in Nat, NEW accurate \in BOOLEAN,
         NEW start, start = NormalizedStart(format, value)
  PROVE  /\ ToIndex(format, start) \in 0 .. TotalIndices
         /\ BytesOf(ToIndex(format, start)) + PayloadPosition
              = PayloadPosition + ToIndex(format, start) * FrameSize
         /\ BytesOf(ToIndex(format, start)) + PayloadPosition \in PayloadPosition .. EndOfPayload
         /\ SegmentStart(format, start, accurate) \in 0 .. Duration
         /\ Begins(SegmentStart(format, start, accurate), ToIndex(format, start))
<1>1. start \in Nat /\ (format = "TIME" => start \in 0 .. Duration)
  BY Sizes DEF NormalizedStart, Least
<1>. DEFINE index == ToIndex(format, start)
<1>2. index \in 0 .. TotalIndices
  BY <1>1, ToIndexTyped
<1>3. /\ BytesOf(index) = index * FrameSize /\ index * FrameSize \in Nat
      /\ PayloadPosition + index * FrameSize \in PayloadPosition .. EndOfPayload
  BY <1>2, BytesOfIndex, Sizes
<1>4. CASE accurate /\ format = "TIME"
  <2>1. SegmentStart(format, start, accurate) = start /\ index = ToIndex("TIME", start)
    BY <1>4 DEF SegmentStart
  <2>2. Begins(start, ToIndex("TIME", start))
    BY <1>1, <1>4, TimeInItsIndex
  <2>3. start \in 0 .. Duration
    BY <1>1, <1>4
  <2>4. Begins(SegmentStart(format, start, accurate), index)
    BY ONLY <2>1, <2>2, Zenon
  <2>. QED BY <1>2, <1>3, <2>1, <2>3, <2>4, Sizes
<1>5. CASE ~(accurate /\ format = "TIME")
  <2>1. SegmentStart(format, start, accurate) = TimeOf(index)
    BY <1>5 DEF SegmentStart
  <2>2. TimeOf(index) \in 0 .. Duration /\ Begins(TimeOf(index), index)
    BY <1>2, TimeOfTyped, IndexBegins, Sizes
  <2>. QED BY <1>2, <1>3, <2>1, <2>2, Sizes
<1>. QED BY <1>4, <1>5

\* gst_dffparse_produce_output(): a buffer holds whole indices of what is left.
LEMMA IndicesInBuffer ==
  ASSUME NEW available \in Nat
  PROVE  /\ NumIndicesInBuffer(available) \in Nat
         /\ NumIndicesInBuffer(available) * FrameSize \in Nat
         /\ NumIndicesInBuffer(available) * FrameSize <= available
         /\ NumIndicesInBuffer(available) = 0 => available < FrameSize
<1>1. OutputBufferSize \in Nat /\ FrameSize <= OutputBufferSize
  BY SizesAssumption
<1>2. Least(OutputBufferSize, available) \in Nat /\ Least(OutputBufferSize, available) <= available
  BY <1>1 DEF Least
<1>3. NumIndicesInBuffer(available) \in Nat
  BY <1>2, Sizes, DivBounds DEF NumIndicesInBuffer
<1>4. NumIndicesInBuffer(available) * FrameSize <= Least(OutputBufferSize, available)
  BY <1>2, <1>3, Sizes, DivAtLeast DEF NumIndicesInBuffer
<1>5. FrameSize <= available => 1 <= NumIndicesInBuffer(available)
  <2>. SUFFICES ASSUME FrameSize <= available PROVE 1 <= NumIndicesInBuffer(available)
    OBVIOUS
  <2>1. 1 * FrameSize <= Least(OutputBufferSize, available)
    BY <1>1, Sizes DEF Least
  <2>. QED BY <1>2, <2>1, Sizes, DivAtLeast DEF NumIndicesInBuffer
<1>6. NumIndicesInBuffer(available) * FrameSize \in Nat
  BY <1>3, Sizes
<1>. QED BY <1>1, <1>2, <1>3, <1>4, <1>5, <1>6, Sizes

\* ... and ends inside the payload: only its last incomplete frame is left over.
LEMMA IndicesLeft ==
  ASSUME NEW index \in 0 .. TotalIndices, NEW position \in Nat,
         position = PayloadPosition + index * FrameSize
  PROVE  /\ EndOfPayload - position \in Nat
         /\ index + NumIndicesInBuffer(EndOfPayload - position) <= TotalIndices
         /\ NumIndicesInBuffer(EndOfPayload - position) = 0 => index = TotalIndices
<1>. DEFINE left == EndOfPayload - position
            num == NumIndicesInBuffer(left)
<1>1. index \in Nat /\ index * FrameSize \in Nat /\ index * FrameSize <= PayloadSize
  BY Sizes
<1>2. left \in Nat /\ left = PayloadSize - index * FrameSize
  BY <1>1, Sizes
<1>3. num \in Nat /\ num * FrameSize \in Nat /\ num * FrameSize <= left /\ (num = 0 => left < FrameSize)
  BY <1>2, IndicesInBuffer
<1>4. (index + num) * FrameSize <= PayloadSize
  <2>1. (index + num) * FrameSize = index * FrameSize + num * FrameSize
    BY <1>1, <1>3, Sizes
  <2>. QED BY <1>1, <1>2, <1>3, <2>1, Sizes
<1>5. num = 0 => ~((index + 1) * FrameSize <= PayloadSize)
  <2>1. (index + 1) * FrameSize = index * FrameSize + FrameSize
    BY <1>1, Sizes
  <2>. QED BY <1>1, <1>2, <1>3, <2>1, Sizes
<1>6. index + num \in Nat /\ index + 1 \in Nat
  BY <1>1, <1>3
<1>7. num = 0 => ~(index + 1 <= TotalIndices)
  BY <1>5, <1>6, Sizes
<1>8. index + num <= TotalIndices
  BY <1>4, <1>6, Sizes
<1>. QED BY <1>1, <1>2, <1>7, <1>8, Sizes

LEMMA ScanningFinishedKeepsPushInv ==
  ASSUME PushInv, ScanningFinished
  PROVE  PushInv'
<1>. USE DEF PushInv
<1>1. UNCHANGED <<upstream_is_seekable, flushing, segment_start, current_seqnum,
                next_buffer_is_discont, input_adapter, byte_position, current_index, flow_ret,
                output_buffer, sink_segment, upstream, downstream, seeker, num_seeks, num_flushes,
                accepted>>
  BY DEF ScanningFinished, StreamFailed, event_vars, segment_vars, data_vars, seek_vars, other_vars
<1>2. FieldsTyped'
  <2>1. PayloadPosition \in 0 .. EndOfPayload /\ 0 \in 0 .. TotalIndices /\ 0 \in 0 .. Duration
        /\ InternalSeqnum \in InternalSeqnum .. MaxSeeks
    BY Sizes, SizesAssumption DEF InternalSeqnum
  <2>2. pending' \in [position : 0 .. EndOfPayload, index : 0 .. TotalIndices,
                     seqnum : {NoSeqnum} \cup InternalSeqnum .. MaxSeeks, start : 0 .. Duration,
                     bootstrapping : BOOLEAN]
    BY <2>1 DEF ScanningFinished
  <2>. QED BY <1>1, <2>2 DEF ScanningFinished, StreamFailed, FieldsTyped, Stages, Places
<1>3. PartiesTyped'
  BY <1>1, Sizes, SizesAssumption DEF ScanningFinished, StreamFailed, PartiesTyped, NoSeqnum,
     FlushSeqnum, InternalSeqnum
<1>4. PlacesInv'
  BY <1>1, Sizes DEF ScanningFinished, StreamFailed, PlacesInv, FieldsTyped, InternalSeekInv,
     NoSeqnum, FlushSeqnum, InternalSeqnum
<1>5. AdapterInv'
  BY <1>1 DEF ScanningFinished, StreamFailed, AdapterInv
<1>6. InternalSeekInv'
  BY <1>1 DEF ScanningFinished, StreamFailed, InternalSeekInv, PlacesInv, FieldsTyped, NoSeqnum,
     InternalSeqnum
<1>7. ASSUME SingleSeeker PROVE SyncInv'
  <2>1. pending'.position = PayloadPosition + pending'.index * FrameSize
    <3>1. /\ pending'.position = PayloadPosition /\ pending'.index = 0
          /\ PayloadPosition + 0 * FrameSize = PayloadPosition
      BY Sizes DEF ScanningFinished
    <3>. QED BY <3>1
  <2>2. pc' \in {"in_seek", "loop"} /\ parse_stage' \in {"AwaitingSegment", "StreamFailure"}
    BY DEF ScanningFinished, StreamFailed
  <2>3. \A t \in Seekers : seeker'[t].place # "checked"
    BY <1>1 DEF ScanningFinished, InternalSeekInv
  <2>. QED BY <1>1, <1>7, <2>1, <2>2, <2>3 DEF SyncInv, InSync
<1>8. ASSUME Undisturbed PROVE StreamInv'
  BY <1>1, <1>8 DEF ScanningFinished, StreamFailed, StreamInv, BuffersMatchTimestamps, Undisturbed,
     InternalSeekInv, NoSeqnum, FlushSeqnum, InternalSeqnum
<1>9. ASSUME Undisturbed PROVE SegmentInv'
  <2>1. pending'.start = 0 /\ pending'.index = 0 /\ pending'.seqnum = InternalSeqnum
    BY DEF ScanningFinished
  <2>2. Begins(0, 0)
    BY TimeOfZero, TimeOfTyped, Sizes DEF Begins
  <2>3. pc' \in {"in_seek", "loop"} /\ accepted = NoSeqnum
    BY DEF ScanningFinished, InternalSeekInv
  <2>. QED BY <1>1, <1>9, <2>1, <2>2, <2>3 DEF SegmentInv, Undisturbed, InternalSeekInv
<1>10. ASSUME Undisturbed PROVE HeardInv'
  BY <1>1, <1>10 DEF ScanningFinished, StreamFailed, HeardInv, InStep, Undisturbed
<1>11. ASSUME Undisturbed PROVE EndInv'
  BY <1>1, <1>11 DEF ScanningFinished, StreamFailed, EndInv, Undisturbed
<1>. QED BY <1>2, <1>3, <1>4, <1>5, <1>6, <1>7, <1>8, <1>9, <1>10, <1>11 DEF SingleSeeker, Undisturbed

LEMMA InternalSeekReturnsKeepsPushInv ==
  ASSUME PushInv, InternalSeekReturns
  PROVE  PushInv'
<1>. USE DEF PushInv
<1>1. UNCHANGED <<upstream_is_seekable, parse_stage, flushing, expecting_upstream_segment,
                internal_seek_seqnum, pending, segment_start, current_seqnum,
                next_buffer_is_discont, input_adapter, byte_position, current_index, flow_ret,
                output_buffer, sink_segment, upstream, job, downstream, seeker, num_seeks,
                num_flushes, accepted>>
  BY DEF InternalSeekReturns, event_vars, segment_vars, data_vars, seek_vars, other_vars
<1>2. FieldsTyped'
  BY <1>1 DEF InternalSeekReturns, FieldsTyped, Places
<1>3. PartiesTyped'
  BY <1>1 DEF InternalSeekReturns, PartiesTyped
<1>4. PlacesInv'
  BY <1>1 DEF InternalSeekReturns, PlacesInv
<1>5. AdapterInv'
  BY <1>1 DEF InternalSeekReturns, AdapterInv
<1>6. InternalSeekInv'
  BY <1>1 DEF InternalSeekReturns, InternalSeekInv
<1>7. ASSUME SingleSeeker PROVE SyncInv'
  BY <1>1, <1>7 DEF InternalSeekReturns, SyncInv, InSync
<1>8. ASSUME Undisturbed PROVE StreamInv'
  BY <1>1, <1>8 DEF InternalSeekReturns, StreamInv, BuffersMatchTimestamps, Undisturbed
<1>9. ASSUME Undisturbed PROVE SegmentInv'
  BY <1>1, <1>9 DEF InternalSeekReturns, SegmentInv, Begins, Undisturbed
<1>10. ASSUME Undisturbed PROVE HeardInv'
  BY <1>1, <1>10 DEF InternalSeekReturns, HeardInv, InStep, Undisturbed
<1>11. ASSUME Undisturbed PROVE EndInv'
  BY <1>1, <1>11 DEF InternalSeekReturns, EndInv, Undisturbed
<1>. QED BY <1>2, <1>3, <1>4, <1>5, <1>6, <1>7, <1>8, <1>9, <1>10, <1>11 DEF SingleSeeker, Undisturbed

LEMMA EnterChainKeepsPushInv ==
  ASSUME PushInv, EnterChain
  PROVE  PushInv'
<1>. USE DEF PushInv
<1>1. UNCHANGED <<upstream_is_seekable, parse_stage, flushing, expecting_upstream_segment,
                internal_seek_seqnum, pending, segment_start, current_seqnum,
                next_buffer_is_discont, input_adapter, byte_position, current_index, flow_ret,
                output_buffer, sink_segment, upstream, job, downstream, seeker, num_seeks,
                num_flushes, accepted>>
  BY DEF EnterChain, event_vars, segment_vars, data_vars, seek_vars, other_vars
<1>2. FieldsTyped'
  BY <1>1 DEF EnterChain, FieldsTyped, Places
<1>3. PartiesTyped'
  BY <1>1 DEF EnterChain, PartiesTyped
<1>4. PlacesInv'
  BY <1>1 DEF EnterChain, PlacesInv
<1>5. AdapterInv'
  BY <1>1 DEF EnterChain, AdapterInv
<1>6. InternalSeekInv'
  BY <1>1 DEF EnterChain, InternalSeekInv
<1>7. ASSUME SingleSeeker PROVE SyncInv'
  BY <1>1, <1>7 DEF EnterChain, SyncInv, InSync
<1>8. ASSUME Undisturbed PROVE StreamInv'
  BY <1>1, <1>8 DEF EnterChain, StreamInv, BuffersMatchTimestamps, Undisturbed
<1>9. ASSUME Undisturbed PROVE SegmentInv'
  BY <1>1, <1>9 DEF EnterChain, SegmentInv, Begins, Undisturbed
<1>10. ASSUME Undisturbed PROVE HeardInv'
  BY <1>1, <1>10 DEF EnterChain, HeardInv, InStep, Undisturbed
<1>11. ASSUME Undisturbed PROVE EndInv'
  BY <1>1, <1>11 DEF EnterChain, EndInv, Undisturbed
<1>. QED BY <1>2, <1>3, <1>4, <1>5, <1>6, <1>7, <1>8, <1>9, <1>10, <1>11 DEF SingleSeeker, Undisturbed

\* What a seek, a flush or a buffer needs of the arithmetic of frames.
LEMMA WholeFrames ==
  ASSUME NEW n \in Nat
  PROVE  /\ n * FrameSize \in Nat /\ (n * FrameSize) % FrameSize = 0
         /\ (n * FrameSize) \div FrameSize = n
<1>1. n * FrameSize \in Nat
  BY Sizes
<1>2. n <= (n * FrameSize) \div FrameSize
  BY <1>1, Sizes, DivAtLeast
<1>3. ~(n + 1 <= (n * FrameSize) \div FrameSize)
  <2>1. ~((n + 1) * FrameSize <= n * FrameSize)
    BY <1>1, Sizes
  <2>. QED BY <1>1, <2>1, Sizes, DivAtLeast
<1>4. (n * FrameSize) \div FrameSize \in Nat
  BY <1>1, Sizes, DivBounds
<1>5. (n * FrameSize) \div FrameSize = n
  BY <1>2, <1>3, <1>4
<1>6. (n * FrameSize) % FrameSize = n * FrameSize - FrameSize * ((n * FrameSize) \div FrameSize)
  <2>. DEFINE product == n * FrameSize
  <2>. HIDE DEF product
  <2>1. \A a \in Nat, b \in Nat \ {0} : a % b = a - b * (a \div b)
    OBVIOUS
  <2>2. product \in Nat
    BY <1>1 DEF product
  <2>3. product % FrameSize = product - FrameSize * (product \div FrameSize)
    BY <2>1, <2>2, Sizes
  <2>. QED BY <2>3 DEF product
<1>. QED BY <1>1, <1>5, <1>6, Sizes

\* What the chain function appends to the adapter.
LEMMA BytesAppended ==
  ASSUME NEW adapter \in Seq(0 .. MediumSize - 1), NEW position \in Nat, NEW n \in Nat,
         position + n <= MediumSize
  PROVE  LET all == adapter \o Bytes(position, n) IN
         /\ all \in Seq(0 .. MediumSize - 1) /\ Len(all) = Len(adapter) + n
         /\ \A k \in 1 .. Len(all) :
              all[k] = IF k <= Len(adapter) THEN adapter[k] ELSE position + k - Len(adapter) - 1
<1>. DEFINE all == adapter \o Bytes(position, n)
<1>1. Bytes(position, n) \in Seq(0 .. MediumSize - 1) /\ Len(Bytes(position, n)) = n
  BY Sizes DEF Bytes
<1>2. \A k \in 1 .. n : Bytes(position, n)[k] = position + k - 1
  BY DEF Bytes
<1>3. PICK sent \in Seq(0 .. MediumSize - 1) : sent = Bytes(position, n)
  BY <1>1
<1>4. /\ all \in Seq(0 .. MediumSize - 1) /\ Len(all) = Len(adapter) + n
      /\ \A k \in 1 .. Len(all) : all[k] = IF k <= Len(adapter) THEN adapter[k] ELSE sent[k - Len(adapter)]
  <2>1. all = adapter \o sent /\ Len(sent) = n
    BY <1>1, <1>3
  <2>. QED BY <2>1, ConcatProperties
<1>. HIDE DEF all
<1>5. \A k \in 1 .. n : sent[k] = position + k - 1
  BY <1>2, <1>3
<1>6. ASSUME NEW k \in 1 .. Len(all), ~(k <= Len(adapter))
      PROVE  all[k] = position + k - Len(adapter) - 1
  <2>1. k - Len(adapter) \in 1 .. n
    BY <1>4, <1>6
  <2>. QED BY <1>4, <1>5, <1>6, <2>1
<1>. QED BY <1>4, <1>6 DEF all

\* A buffer that is refused leaves the adapter alone; one that is accepted is appended to it.
LEMMA AcceptBufferEffect ==
  ASSUME PushInv, NEW n \in BufferSizes, AcceptBuffer(n)
  PROVE  /\ pc = "enter" /\ pc' \in {"source", "loop"} /\ flow_ret' \in {"FLUSHING", "ERROR", flow_ret}
         /\ upstream' \in [position : 0 .. MediumSize, state : {upstream.state, "draining"}]
         /\ \/ /\ flushing \/ expecting_upstream_segment
               /\ pc' = "source" /\ input_adapter' = input_adapter
            \/ /\ ~flushing /\ ~expecting_upstream_segment
               /\ pc' = "loop" /\ upstream'.state = upstream.state
               /\ upstream'.position - Len(input_adapter') = upstream.position - Len(input_adapter)
               /\ input_adapter' \in Seq(0 .. MediumSize - 1)
               /\ \A k \in 1 .. Len(input_adapter') :
                    input_adapter'[k] = IF k <= Len(input_adapter) THEN input_adapter[k]
                                        ELSE upstream.position + k - Len(input_adapter) - 1
<1>. DEFINE size  == Least(n, MediumSize - upstream.position)
            after == [upstream EXCEPT !.position = @ + size]
<1>1. /\ upstream.position \in Nat /\ upstream.position <= MediumSize
      /\ upstream.state \in {"playing", "draining", "eos"}
  BY Sizes DEF PushInv, PartiesTyped
<1>2. size \in Nat /\ upstream.position + size \in 0 .. MediumSize
  BY <1>1, Sizes, SizesAssumption DEF Least
<1>. HIDE DEF size
<1>3. after = [position |-> upstream.position + size, state |-> upstream.state]
  BY DEF PushInv, PartiesTyped
<1>. HIDE DEF after
<1>4. [after EXCEPT !.state = "draining"] = [position |-> upstream.position + size, state |-> "draining"]
  BY <1>3
<1>5. input_adapter \in Seq(0 .. MediumSize - 1)
  BY DEF PushInv, FieldsTyped
<1>6. CASE /\ flushing \/ expecting_upstream_segment
           /\ pc' = "source" /\ flow_ret' \in {"FLUSHING", "ERROR"} /\ UNCHANGED input_adapter
           /\ upstream' = after \/ upstream' = [after EXCEPT !.state = "draining"]
  BY <1>2, <1>3, <1>4, <1>6 DEF AcceptBuffer
<1>7. CASE /\ ~flushing /\ ~expecting_upstream_segment
           /\ input_adapter' = input_adapter \o Bytes(upstream.position, size)
           /\ upstream' = after /\ pc' = "loop" /\ UNCHANGED flow_ret
  <2>1. /\ input_adapter' \in Seq(0 .. MediumSize - 1) /\ Len(input_adapter') = Len(input_adapter) + size
        /\ \A k \in 1 .. Len(input_adapter') :
              input_adapter'[k] = IF k <= Len(input_adapter) THEN input_adapter[k]
                                  ELSE upstream.position + k - Len(input_adapter) - 1
    <3>1. upstream.position + size <= MediumSize
      BY <1>2, Sizes
    <3>. QED BY <1>1, <1>2, <1>5, <1>7, <3>1, BytesAppended
  <2>2. upstream'.position - Len(input_adapter') = upstream.position - Len(input_adapter)
    BY <1>1, <1>2, <1>3, <1>5, <1>7, <2>1
  <2>. QED BY <1>2, <1>3, <1>7, <2>1, <2>2 DEF AcceptBuffer
<1>8. \/ /\ flushing \/ expecting_upstream_segment
         /\ pc' = "source" /\ flow_ret' \in {"FLUSHING", "ERROR"} /\ UNCHANGED input_adapter
         /\ upstream' = after \/ upstream' = [after EXCEPT !.state = "draining"]
      \/ /\ ~flushing /\ ~expecting_upstream_segment
         /\ input_adapter' = input_adapter \o Bytes(upstream.position, size)
         /\ upstream' = after /\ pc' = "loop" /\ UNCHANGED flow_ret
  BY DEF AcceptBuffer, after, size
<1>. QED BY <1>6, <1>7, <1>8

LEMMA AcceptBufferKeepsPushInv ==
  ASSUME PushInv, NEW n \in BufferSizes, AcceptBuffer(n)
  PROVE  PushInv'
<1>. USE DEF PushInv
<1>0. /\ pc = "enter" /\ pc' \in {"source", "loop"} /\ flow_ret' \in {"FLUSHING", "ERROR", flow_ret}
      /\ upstream' \in [position : 0 .. MediumSize, state : {upstream.state, "draining"}]
      /\ \/ /\ flushing \/ expecting_upstream_segment
            /\ pc' = "source" /\ input_adapter' = input_adapter
         \/ /\ ~flushing /\ ~expecting_upstream_segment
            /\ pc' = "loop" /\ upstream'.state = upstream.state
            /\ upstream'.position - Len(input_adapter') = upstream.position - Len(input_adapter)
            /\ input_adapter' \in Seq(0 .. MediumSize - 1)
            /\ \A k \in 1 .. Len(input_adapter') :
                 input_adapter'[k] = IF k <= Len(input_adapter) THEN input_adapter[k]
                                     ELSE upstream.position + k - Len(input_adapter) - 1
  BY AcceptBufferEffect
<1>1. UNCHANGED <<upstream_is_seekable, parse_stage, flushing, expecting_upstream_segment,
                internal_seek_seqnum, pending, segment_start, current_seqnum, next_buffer_is_discont,
                byte_position, current_index, output_buffer, sink_segment, job, downstream, seeker,
                num_seeks, num_flushes, accepted>>
  BY DEF AcceptBuffer, event_vars, segment_vars, seek_vars, other_vars
<1>2. FieldsTyped'
  BY <1>0, <1>1 DEF FieldsTyped, Places
<1>3. PartiesTyped'
  <2>1. upstream' \in [position : 0 .. MediumSize, state : {"playing", "draining", "eos"}]
    BY <1>0 DEF PartiesTyped
  <2>. QED BY <1>1, <2>1 DEF PartiesTyped
<1>4. PlacesInv'
  BY <1>0, <1>1 DEF PlacesInv
<1>5. AdapterInv'
  <2>1. CASE flushing \/ expecting_upstream_segment
    BY <1>0, <1>1, <2>1 DEF AdapterInv
  <2>2. CASE ~flushing /\ ~expecting_upstream_segment
    <3>1. /\ upstream.position \in Int /\ upstream'.position \in Int
          /\ Len(input_adapter) \in Nat /\ Len(input_adapter') \in Nat
      <4>1. input_adapter \in Seq(0 .. MediumSize - 1) /\ input_adapter' \in Seq(0 .. MediumSize - 1)
      BY <1>0, <2>2 DEF FieldsTyped
    <4>2. upstream.position \in 0 .. MediumSize /\ upstream'.position \in 0 .. MediumSize
      BY <1>0 DEF PartiesTyped
    <4>. QED BY <4>1, <4>2
    <3>2. /\ upstream'.position - Len(input_adapter') = upstream.position - Len(input_adapter)
          /\ \A k \in 1 .. Len(input_adapter') :
                 input_adapter'[k] = IF k <= Len(input_adapter) THEN input_adapter[k]
                                     ELSE upstream.position + k - Len(input_adapter) - 1
      BY <1>0, <2>2
    <3>3. \A k \in 1 .. Len(input_adapter) : input_adapter[k] = upstream.position - Len(input_adapter) + k - 1
      BY <2>2 DEF AdapterInv
    <3>4. \A k \in 1 .. Len(input_adapter') :
             input_adapter'[k] = upstream'.position - Len(input_adapter') + k - 1
      BY <3>1, <3>2, <3>3
    <3>. QED BY <1>0, <1>1, <3>4 DEF AdapterInv
  <2>. QED BY <2>1, <2>2
<1>6. InternalSeekInv'
  BY <1>0, <1>1 DEF InternalSeekInv
<1>7. ASSUME SingleSeeker PROVE SyncInv'
  BY <1>0, <1>1, <1>7 DEF SyncInv, InSync
<1>8. ASSUME Undisturbed PROVE StreamInv'
  BY <1>0, <1>1, <1>8 DEF StreamInv, PlacesInv, BuffersMatchTimestamps, Undisturbed
<1>9. ASSUME Undisturbed PROVE SegmentInv'
  BY <1>0, <1>1, <1>9 DEF SegmentInv, Undisturbed
<1>10. ASSUME Undisturbed PROVE HeardInv'
  BY <1>0, <1>1, <1>10 DEF HeardInv, InStep, Undisturbed
<1>11. ASSUME Undisturbed PROVE EndInv'
  BY <1>0, <1>1, <1>11 DEF EndInv, StreamInv, PlacesInv, Undisturbed
<1>. QED BY <1>2, <1>3, <1>4, <1>5, <1>6, <1>7, <1>8, <1>9, <1>10, <1>11 DEF SingleSeeker, Undisturbed

LEMMA StartIterationKeepsPushInv ==
  ASSUME PushInv, StartIteration
  PROVE  PushInv'
<1>. USE DEF PushInv
<1>1. UNCHANGED <<upstream_is_seekable, parse_stage, flushing, expecting_upstream_segment,
                internal_seek_seqnum, pending, segment_start, current_seqnum,
                next_buffer_is_discont, input_adapter, byte_position, current_index, output_buffer,
                sink_segment, job, downstream, seeker, num_seeks, num_flushes, accepted>>
  BY DEF StartIteration, Return, event_vars, segment_vars, data_vars, seek_vars, other_vars
<1>2. FieldsTyped'
  BY <1>1 DEF StartIteration, Return, FieldsTyped, Places
<1>3. PartiesTyped'
  BY <1>1 DEF StartIteration, Return, PartiesTyped
<1>4. PlacesInv'
  BY <1>1 DEF StartIteration, Return, PlacesInv
<1>5. AdapterInv'
  BY <1>1 DEF StartIteration, Return, AdapterInv
<1>6. InternalSeekInv'
  BY <1>1 DEF StartIteration, Return, InternalSeekInv
<1>7. ASSUME SingleSeeker PROVE SyncInv'
  BY <1>1, <1>7 DEF StartIteration, Return, SyncInv, InSync
<1>8. ASSUME Undisturbed PROVE StreamInv'
  BY <1>1, <1>8 DEF StartIteration, Return, StreamInv, BuffersMatchTimestamps, Undisturbed, PartiesTyped
<1>9. ASSUME Undisturbed PROVE SegmentInv'
  BY <1>1, <1>9 DEF StartIteration, Return, SegmentInv, Begins, Undisturbed
<1>10. ASSUME Undisturbed PROVE HeardInv'
  BY <1>1, <1>10 DEF StartIteration, Return, HeardInv, InStep, Undisturbed
<1>11. ASSUME Undisturbed PROVE EndInv'
  BY <1>1, <1>11 DEF StartIteration, Return, EndInv, StreamInv, PlacesInv, PartiesTyped, Undisturbed
<1>. QED BY <1>2, <1>3, <1>4, <1>5, <1>6, <1>7, <1>8, <1>9, <1>10, <1>11 DEF SingleSeeker, Undisturbed

LEMMA DispatchKeepsPushInv ==
  ASSUME PushInv, Dispatch
  PROVE  PushInv'
<1>. USE DEF PushInv
<1>1. UNCHANGED <<upstream_is_seekable, parse_stage, flushing, expecting_upstream_segment,
                internal_seek_seqnum, pending, segment_start, current_seqnum,
                next_buffer_is_discont, byte_position, current_index, output_buffer, sink_segment,
                job, downstream, seeker, num_seeks, num_flushes, accepted>>
  BY DEF Dispatch, Return, event_vars, segment_vars, data_vars, seek_vars, other_vars
<1>2. FieldsTyped'
  <2>1. input_adapter' = << >> \/ input_adapter' = input_adapter
    BY DEF Dispatch
  <2>2. input_adapter' \in Seq(0 .. MediumSize - 1)
    <3>1. << >> \in Seq(0 .. MediumSize - 1)
      OBVIOUS
    <3>2. input_adapter \in Seq(0 .. MediumSize - 1)
      BY DEF FieldsTyped
    <3>. QED BY <2>1, <3>1, <3>2
  <2>. QED BY <1>1, <2>2 DEF Dispatch, Return, FieldsTyped, Places
<1>3. PartiesTyped'
  BY <1>1 DEF Dispatch, Return, PartiesTyped
<1>4. PlacesInv'
  BY <1>1 DEF Dispatch, Return, PlacesInv
<1>5. AdapterInv'
  <2>1. CASE input_adapter' = << >>
    BY <1>1, <2>1 DEF Dispatch, Return, AdapterInv
  <2>2. CASE UNCHANGED input_adapter
    <3>1. upstream'.position = upstream.position
      BY DEF Dispatch, Return, PartiesTyped
    <3>. QED BY <1>1, <2>2, <3>1 DEF Dispatch, Return, AdapterInv
  <2>. QED BY <2>1, <2>2 DEF Dispatch
<1>6. InternalSeekInv'
  BY <1>1 DEF Dispatch, Return, InternalSeekInv
<1>7. ASSUME SingleSeeker PROVE SyncInv'
  BY <1>1, <1>7 DEF Dispatch, Return, SyncInv, InSync
<1>8. ASSUME Undisturbed PROVE StreamInv'
  BY <1>1, <1>8 DEF Dispatch, Return, StreamInv, BuffersMatchTimestamps, Undisturbed
<1>9. ASSUME Undisturbed PROVE SegmentInv'
  BY <1>1, <1>9 DEF Dispatch, Return, SegmentInv, Begins, Undisturbed
<1>10. ASSUME Undisturbed PROVE HeardInv'
  BY <1>1, <1>10 DEF Dispatch, Return, HeardInv, InStep, Undisturbed
<1>11. ASSUME Undisturbed PROVE EndInv'
  BY <1>1, <1>11 DEF Dispatch, Return, EndInv, Undisturbed
<1>. QED BY <1>2, <1>3, <1>4, <1>5, <1>6, <1>7, <1>8, <1>9, <1>10, <1>11 DEF SingleSeeker, Undisturbed

\* The data that produce_output() takes from the adapter, and what it leaves there.
LEMMA ProduceEffect ==
  ASSUME PushInv, Produce
  PROVE  /\ pc = "produce" /\ parse_stage' = parse_stage
         /\ \/ /\ pc' = "source" /\ UNCHANGED <<data_vars, output_buffer>>
               /\ upstream'.position = upstream.position
               /\ \/ /\ NumIndicesInBuffer(EndOfPayload - byte_position) = 0 /\ upstream'.state = "draining"
                  \/ parse_stage # "Streaming" /\ upstream'.state = "draining"
                  \/ /\ Len(input_adapter) < NumIndicesInBuffer(EndOfPayload - byte_position) * FrameSize
                     /\ upstream'.state = upstream.state
            \/ /\ pc' = "push" /\ parse_stage = "Streaming" /\ UNCHANGED <<flow_ret, upstream>>
               /\ \E num \in Nat \ {0}, size \in Nat \ {0} :
                    /\ num = NumIndicesInBuffer(EndOfPayload - byte_position)
                    /\ size = num * FrameSize /\ size <= EndOfPayload - byte_position
                    /\ Len(input_adapter) >= size
                    /\ current_index' = current_index + num /\ byte_position' = byte_position + size
                    /\ next_buffer_is_discont' = FALSE
                    /\ output_buffer'.index = current_index
                    /\ output_buffer'.discont = next_buffer_is_discont
                    /\ output_buffer' \in [index : Nat, data : Seq(0 .. MediumSize - 1), discont : BOOLEAN]
                    /\ Len(output_buffer'.data) = size
                    /\ \A k \in 1 .. size : output_buffer'.data[k] = input_adapter[k]
                    /\ input_adapter' \in Seq(0 .. MediumSize - 1)
                    /\ Len(input_adapter') = Len(input_adapter) - size
                    /\ \A k \in 1 .. Len(input_adapter') : input_adapter'[k] = input_adapter[size + k]
<1>. DEFINE left == EndOfPayload - byte_position
            num  == NumIndicesInBuffer(left)
            size == num * FrameSize
<1>1. pc = "produce" /\ byte_position \in PayloadPosition .. EndOfPayload
  BY DEF Produce, PushInv, PlacesInv
<1>2. left \in Nat
  BY <1>1, Sizes
<1>3. num \in Nat /\ size \in Nat /\ size <= left
  BY <1>2, IndicesInBuffer
<1>4. num # 0 => size # 0
  BY <1>3, Sizes
<1>5. input_adapter \in Seq(0 .. MediumSize - 1) /\ current_index \in Nat /\ next_buffer_is_discont \in BOOLEAN
  BY DEF PushInv, FieldsTyped
<1>6. upstream \in [position : 0 .. MediumSize, state : {"playing", "draining", "eos"}]
  BY DEF PushInv, PartiesTyped
<1>7. \/ num = 0 /\ Return("EOS") /\ UNCHANGED <<data_vars, output_buffer>>
      \/ parse_stage # "Streaming" /\ Return("ERROR") /\ UNCHANGED <<data_vars, output_buffer>>
      \/ Len(input_adapter) < size /\ Return("OK") /\ UNCHANGED <<data_vars, output_buffer>>
      \/ /\ num > 0 /\ parse_stage = "Streaming" /\ Len(input_adapter) >= size
         /\ output_buffer' = [index |-> current_index, data |-> SubSeq(input_adapter, 1, size),
                              discont |-> next_buffer_is_discont]
         /\ input_adapter' = SubSeq(input_adapter, size + 1, Len(input_adapter))
         /\ byte_position' = byte_position + size
         /\ current_index' = current_index + num
         /\ next_buffer_is_discont' = FALSE /\ pc' = "push"
         /\ UNCHANGED <<flow_ret, upstream>>
  BY DEF Produce, IndexAfter
<1>8. parse_stage' = parse_stage
  BY DEF Produce
<1>. HIDE DEF size, num
<1>9. CASE num = 0 /\ Return("EOS") /\ UNCHANGED <<data_vars, output_buffer>>
  BY <1>1, <1>6, <1>8, <1>9 DEF Return, num
<1>10. CASE parse_stage # "Streaming" /\ Return("ERROR") /\ UNCHANGED <<data_vars, output_buffer>>
  BY <1>1, <1>6, <1>8, <1>10 DEF Return
<1>11. CASE Len(input_adapter) < size /\ Return("OK") /\ UNCHANGED <<data_vars, output_buffer>>
  BY <1>1, <1>6, <1>8, <1>11 DEF Return, num, size
<1>12. CASE /\ num > 0 /\ parse_stage = "Streaming" /\ Len(input_adapter) >= size
            /\ output_buffer' = [index |-> current_index, data |-> SubSeq(input_adapter, 1, size),
                                 discont |-> next_buffer_is_discont]
            /\ input_adapter' = SubSeq(input_adapter, size + 1, Len(input_adapter))
            /\ byte_position' = byte_position + size
            /\ current_index' = current_index + num
            /\ next_buffer_is_discont' = FALSE /\ pc' = "push"
            /\ UNCHANGED <<flow_ret, upstream>>
  <2>1. num \in Nat \ {0} /\ size \in Nat \ {0} /\ size <= left /\ Len(input_adapter) \in Nat
    BY <1>3, <1>4, <1>5, <1>12
  <2>2. \A k \in 1 .. Len(input_adapter) : input_adapter[k] \in 0 .. MediumSize - 1
    BY <1>5, ElementOfSeq
  <2>3. /\ SubSeq(input_adapter, 1, size) \in Seq(0 .. MediumSize - 1)
        /\ Len(SubSeq(input_adapter, 1, size)) = size
        /\ \A k \in 1 .. size : SubSeq(input_adapter, 1, size)[k] = input_adapter[k]
    BY <1>12, <2>1, <2>2, SubSeqProperties
  <2>4. /\ input_adapter' \in Seq(0 .. MediumSize - 1)
        /\ Len(input_adapter') = Len(input_adapter) - size
        /\ \A k \in 1 .. Len(input_adapter') : input_adapter'[k] = input_adapter[size + k]
    BY <1>12, <2>1, <2>2, SubSeqProperties
  <2>5. /\ output_buffer'.index = current_index /\ output_buffer'.discont = next_buffer_is_discont
        /\ output_buffer'.data = SubSeq(input_adapter, 1, size)
        /\ output_buffer' \in [index : Nat, data : Seq(0 .. MediumSize - 1), discont : BOOLEAN]
    BY <1>5, <1>12, <2>3
  <2>6. /\ num = NumIndicesInBuffer(EndOfPayload - byte_position) /\ size = num * FrameSize
        /\ size <= EndOfPayload - byte_position
    BY <2>1 DEF num, size
  <2>. DEFINE Taken(n, s) ==
                  /\ n = NumIndicesInBuffer(EndOfPayload - byte_position)
                  /\ s = n * FrameSize /\ s <= EndOfPayload - byte_position
                  /\ Len(input_adapter) >= s
                  /\ current_index' = current_index + n /\ byte_position' = byte_position + s
                  /\ next_buffer_is_discont' = FALSE
                  /\ output_buffer'.index = current_index
                  /\ output_buffer'.discont = next_buffer_is_discont
                  /\ output_buffer' \in [index : Nat, data : Seq(0 .. MediumSize - 1), discont : BOOLEAN]
                  /\ Len(output_buffer'.data) = s
                  /\ \A k \in 1 .. s : output_buffer'.data[k] = input_adapter[k]
                  /\ input_adapter' \in Seq(0 .. MediumSize - 1)
                  /\ Len(input_adapter') = Len(input_adapter) - s
                  /\ \A k \in 1 .. Len(input_adapter') : input_adapter'[k] = input_adapter[s + k]
  <2>7. Taken(num, size)
    BY <1>12, <2>1, <2>3, <2>4, <2>5, <2>6
  <2>8. \E n \in Nat \ {0}, s \in Nat \ {0} : Taken(n, s)
    <3>. HIDE DEF Taken
    <3>. QED BY <2>1, <2>7, Zenon
  <2>. QED BY <1>1, <1>8, <1>12, <2>8
<1>. QED BY <1>7, <1>9, <1>10, <1>11, <1>12

LEMMA ProduceReturnsKeepsPushInv ==
  ASSUME PushInv, Produce, pc' = "source"
  PROVE  PushInv'
<1>. USE DEF PushInv
<1>0. /\ pc = "produce" /\ pc' = "source" /\ UNCHANGED <<data_vars, output_buffer>>
      /\ upstream'.position = upstream.position
      /\ \/ /\ NumIndicesInBuffer(EndOfPayload - byte_position) = 0 /\ upstream'.state = "draining"
         \/ parse_stage # "Streaming" /\ upstream'.state = "draining"
         \/ /\ Len(input_adapter) < NumIndicesInBuffer(EndOfPayload - byte_position) * FrameSize
            /\ upstream'.state = upstream.state
  BY ProduceEffect
<1>1. UNCHANGED <<upstream_is_seekable, parse_stage, flushing, expecting_upstream_segment,
                internal_seek_seqnum, pending, segment_start, current_seqnum, next_buffer_is_discont,
                input_adapter, byte_position, current_index, output_buffer, sink_segment, job, downstream,
                seeker, num_seeks, num_flushes, accepted>>
  BY <1>0 DEF Produce, event_vars, segment_vars, data_vars, seek_vars
<1>2. FieldsTyped'
  <2>1. flow_ret' \in {"OK", "EOS", "FLUSHING", "ERROR"}
    BY <1>0 DEF Produce, Return, FieldsTyped
  <2>. QED BY <1>0, <1>1, <2>1 DEF FieldsTyped, Places
<1>3. PartiesTyped'
  <2>1. upstream' \in [position : 0 .. MediumSize, state : {"playing", "draining", "eos"}]
    BY <1>0 DEF Produce, Return, PartiesTyped
  <2>. QED BY <1>1, <2>1 DEF PartiesTyped
<1>4. PlacesInv'
  BY <1>0, <1>1 DEF PlacesInv
<1>5. AdapterInv'
  BY <1>0, <1>1 DEF AdapterInv
<1>6. InternalSeekInv'
  BY <1>0, <1>1 DEF InternalSeekInv
<1>7. ASSUME SingleSeeker PROVE SyncInv'
  BY <1>0, <1>1, <1>7 DEF SyncInv, InSync
<1>8. ASSUME Undisturbed PROVE StreamInv'
  BY <1>0, <1>1, <1>8 DEF StreamInv, BuffersMatchTimestamps, Undisturbed
<1>9. ASSUME Undisturbed PROVE SegmentInv'
  BY <1>0, <1>1, <1>9 DEF SegmentInv, Undisturbed
<1>10. ASSUME Undisturbed PROVE HeardInv'
  BY <1>0, <1>1, <1>10 DEF HeardInv, InStep, Undisturbed
<1>11. ASSUME Undisturbed PROVE EndInv'
  <2>1. NumIndicesInBuffer(EndOfPayload - byte_position) = 0 => current_index = TotalIndices
    <3>1. InSync(current_index) /\ current_index \in 0 .. TotalIndices
      BY <1>0, <1>11 DEF SyncInv, Undisturbed
    <3>2. byte_position \in Nat
      BY Sizes DEF FieldsTyped
    <3>. QED BY <3>1, <3>2, IndicesLeft DEF InSync
  <2>2. upstream.state # "eos"
    BY <1>0, <1>11 DEF EndInv, Undisturbed
  <2>3. parse_stage = "Streaming" /\ upstream'.state # "playing" => current_index = TotalIndices
    BY <1>0, <1>11, <2>1 DEF EndInv, Undisturbed
  <2>4. parse_stage = "Streaming" /\ upstream'.state = "playing" =>
          Len(input_adapter) < NumIndicesInBuffer(EndOfPayload - byte_position) * FrameSize
    BY <1>0
  <2>. QED BY <1>0, <1>1, <1>11, <2>2, <2>3, <2>4 DEF EndInv, Undisturbed
<1>. QED BY <1>2, <1>3, <1>4, <1>5, <1>6, <1>7, <1>8, <1>9, <1>10, <1>11 DEF SingleSeeker, Undisturbed

LEMMA ProduceOutputsKeepsPushInv ==
  ASSUME PushInv, Produce, pc' = "push"
  PROVE  PushInv'
<1>. USE DEF PushInv
<1>0. /\ pc = "produce" /\ pc' = "push" /\ parse_stage = "Streaming" /\ UNCHANGED <<flow_ret, upstream>>
      /\ \E num \in Nat \ {0}, size \in Nat \ {0} :
           /\ num = NumIndicesInBuffer(EndOfPayload - byte_position)
           /\ size = num * FrameSize /\ size <= EndOfPayload - byte_position
           /\ Len(input_adapter) >= size
           /\ current_index' = current_index + num /\ byte_position' = byte_position + size
           /\ next_buffer_is_discont' = FALSE
           /\ output_buffer'.index = current_index
           /\ output_buffer'.discont = next_buffer_is_discont
           /\ output_buffer' \in [index : Nat, data : Seq(0 .. MediumSize - 1), discont : BOOLEAN]
           /\ Len(output_buffer'.data) = size
           /\ \A k \in 1 .. size : output_buffer'.data[k] = input_adapter[k]
           /\ input_adapter' \in Seq(0 .. MediumSize - 1)
           /\ Len(input_adapter') = Len(input_adapter) - size
           /\ \A k \in 1 .. Len(input_adapter') : input_adapter'[k] = input_adapter[size + k]
  BY ProduceEffect
<1>a. PICK num \in Nat \ {0}, size \in Nat \ {0} :
       /\ num = NumIndicesInBuffer(EndOfPayload - byte_position)
       /\ size = num * FrameSize /\ size <= EndOfPayload - byte_position
       /\ Len(input_adapter) >= size
       /\ current_index' = current_index + num /\ byte_position' = byte_position + size
       /\ next_buffer_is_discont' = FALSE
       /\ output_buffer'.index = current_index
       /\ output_buffer'.discont = next_buffer_is_discont
       /\ output_buffer' \in [index : Nat, data : Seq(0 .. MediumSize - 1), discont : BOOLEAN]
       /\ Len(output_buffer'.data) = size
       /\ \A k \in 1 .. size : output_buffer'.data[k] = input_adapter[k]
       /\ input_adapter' \in Seq(0 .. MediumSize - 1)
       /\ Len(input_adapter') = Len(input_adapter) - size
       /\ \A k \in 1 .. Len(input_adapter') : input_adapter'[k] = input_adapter[size + k]
  BY <1>0
<1>1. UNCHANGED <<upstream_is_seekable, parse_stage, flushing, expecting_upstream_segment,
                internal_seek_seqnum, pending, segment_start, current_seqnum, flow_ret, sink_segment,
                upstream, job, downstream, seeker, num_seeks, num_flushes, accepted>>
  BY <1>0 DEF Produce, event_vars, segment_vars, seek_vars
<1>d. /\ size <= EndOfPayload - byte_position /\ byte_position' = byte_position + size
      /\ Len(input_adapter) >= size /\ Len(input_adapter') = Len(input_adapter) - size
      /\ current_index' = current_index + num /\ size = num * FrameSize
      /\ num \in Nat /\ size \in Nat
  BY <1>a
<1>b. /\ byte_position \in PayloadPosition .. EndOfPayload /\ byte_position' \in PayloadPosition .. EndOfPayload
      /\ byte_position' \in 0 .. MediumSize - 1
      /\ Len(input_adapter) \in Nat /\ upstream.position \in Nat /\ current_index \in Nat
  <2>1. byte_position \in PayloadPosition .. EndOfPayload
    BY <1>0 DEF PlacesInv
  <2>2. Len(input_adapter) \in Nat /\ upstream.position \in Nat /\ current_index \in Nat
    BY Sizes DEF FieldsTyped, PartiesTyped
  <2>3. byte_position' \in PayloadPosition .. EndOfPayload /\ byte_position' \in 0 .. MediumSize - 1
    BY <1>d, <2>1, Sizes
  <2>. QED BY <2>1, <2>2, <2>3
<1>c. Len(output_buffer'.data) % FrameSize = 0 /\ Len(output_buffer'.data) \div FrameSize = num
  BY <1>a, <1>d, WholeFrames
<1>2. FieldsTyped'
  <2>1. current_index' \in Nat
    BY <1>b, <1>d
  <2>. QED BY <1>0, <1>1, <1>a, <1>b, <1>c, <2>1 DEF FieldsTyped, Places
<1>3. PartiesTyped'
  BY <1>1 DEF PartiesTyped
<1>4. PlacesInv'
  BY <1>0, <1>1, <1>b DEF PlacesInv
<1>5. AdapterInv'
  <2>1. ASSUME ~flushing, ~expecting_upstream_segment, NEW k \in 1 .. Len(input_adapter')
        PROVE  input_adapter'[k] = upstream.position - Len(input_adapter') + k - 1
    <3>1. k \in Nat /\ size + k \in 1 .. Len(input_adapter)
      BY <1>b, <1>d
    <3>3. input_adapter'[k] = input_adapter[size + k]
      BY <1>a
    <3>2. input_adapter[size + k] = upstream.position - Len(input_adapter) + (size + k) - 1
      BY <2>1, <3>1 DEF AdapterInv
    <3>4. /\ Len(input_adapter) \in Nat /\ upstream.position \in Nat /\ size \in Nat /\ k \in Nat
          /\ Len(input_adapter') = Len(input_adapter) - size
      BY <1>b, <1>d, <3>1
    <3>5. upstream.position - Len(input_adapter) + (size + k) - 1 = upstream.position - Len(input_adapter') + k - 1
      BY ONLY <3>4
    <3>. QED BY ONLY <3>2, <3>3, <3>5
  <2>. QED BY <1>0, <1>1, <2>1 DEF AdapterInv
<1>6. InternalSeekInv'
  BY <1>0, <1>1 DEF InternalSeekInv
<1>7. ASSUME SingleSeeker PROVE SyncInv'
  <2>1. InSync(current_index) /\ current_index \in 0 .. TotalIndices
    BY <1>0, <1>7 DEF SyncInv
  <2>2. current_index + num <= TotalIndices
    <3>1. byte_position \in Nat
      BY <1>b, Sizes
    <3>2. current_index + NumIndicesInBuffer(EndOfPayload - byte_position) <= TotalIndices
      BY <2>1, <3>1, IndicesLeft DEF InSync
    <3>. QED BY <1>a, <3>2
  <2>3. byte_position' = PayloadPosition + current_index' * FrameSize
    <3>1. (current_index + num) * FrameSize = current_index * FrameSize + num * FrameSize
      BY <1>b, Sizes
    <3>2. current_index * FrameSize \in Nat
      BY <1>b, Sizes
    <3>3. byte_position = PayloadPosition + current_index * FrameSize
      BY <2>1 DEF InSync
    <3>. QED BY <1>b, <1>d, <3>1, <3>2, <3>3, Sizes
  <2>4. /\ current_index' \in 0 .. TotalIndices
        /\ output_buffer'.index + Len(output_buffer'.data) \div FrameSize = current_index'
    <3>1. output_buffer'.index = current_index
      BY <1>a
    <3>2. current_index' \in 0 .. TotalIndices
      BY <1>b, <1>d, <2>2, Sizes
    <3>3. output_buffer'.index + Len(output_buffer'.data) \div FrameSize = current_index'
      BY <1>c, <1>d, <3>1, Zenon
    <3>. QED BY <3>2, <3>3
  <2>. QED BY <1>0, <1>1, <1>7, <2>3, <2>4 DEF SyncInv, InSync
<1>8. ASSUME Undisturbed PROVE StreamInv'
  <2>1. /\ byte_position = upstream.position - Len(input_adapter)
        /\ ~flushing /\ ~expecting_upstream_segment
    BY <1>0, <1>8 DEF StreamInv, PlacesInv, Undisturbed
  <2>2. byte_position' = upstream.position - Len(input_adapter')
    BY <1>b, <1>d, <2>1
  <2>3. byte_position = PayloadPosition + current_index * FrameSize
    BY <1>0, <1>8 DEF SyncInv, InSync, Undisturbed
  <2>4. ASSUME NEW k \in 1 .. size
        PROVE  output_buffer'.data[k] = PayloadPosition + output_buffer'.index * FrameSize + k - 1
    <3>1. k \in 1 .. Len(input_adapter) /\ k \in Nat
      BY <1>b, <1>d
    <3>3. output_buffer'.data[k] = input_adapter[k] /\ output_buffer'.index = current_index
      BY <1>a
    <3>2. input_adapter[k] = upstream.position - Len(input_adapter) + k - 1
      BY <2>1, <3>1 DEF AdapterInv
    <3>. QED BY <1>b, <2>1, <2>3, <3>1, <3>2, <3>3
  <2>. QED BY <1>0, <1>1, <1>8, <1>a, <2>2, <2>4 DEF StreamInv, BuffersMatchTimestamps, Undisturbed
<1>9. ASSUME Undisturbed PROVE SegmentInv'
  BY <1>0, <1>1, <1>9 DEF SegmentInv, Undisturbed
<1>10. ASSUME Undisturbed PROVE HeardInv'
  <2>1. downstream.seqnum # NoSeqnum /\ InStep
    BY <1>0, <1>10 DEF HeardInv, Undisturbed
  <2>2. InStep'
    BY <1>0, <1>1, <1>a, <2>1 DEF InStep
  <2>. QED BY <1>0, <1>1, <1>10, <1>a, <1>c, <2>1, <2>2 DEF HeardInv, Undisturbed
<1>11. ASSUME Undisturbed PROVE EndInv'
  BY <1>0, <1>1, <1>11 DEF EndInv, Undisturbed
<1>. QED BY <1>2, <1>3, <1>4, <1>5, <1>6, <1>7, <1>8, <1>9, <1>10, <1>11 DEF SingleSeeker, Undisturbed

LEMMA ProduceKeepsPushInv == ASSUME PushInv, Produce PROVE PushInv'
<1>1. pc' \in {"source", "push"}
  BY DEF Produce, Return
<1>. QED BY <1>1, ProduceReturnsKeepsPushInv, ProduceOutputsKeepsPushInv

LEMMA PushAcceptedKeepsPushInv ==
  ASSUME PushInv, PushAccepted
  PROVE  PushInv'
<1>. USE DEF PushInv
<1>1. UNCHANGED <<upstream_is_seekable, parse_stage, flushing, expecting_upstream_segment,
                internal_seek_seqnum, pending, segment_start, current_seqnum,
                next_buffer_is_discont, input_adapter, byte_position, current_index, flow_ret,
                output_buffer, sink_segment, upstream, job, seeker, num_seeks, num_flushes,
                accepted>>
  BY DEF PushAccepted, event_vars, segment_vars, data_vars, seek_vars, other_vars
<1>2. FieldsTyped'
  BY <1>1 DEF PushAccepted, FieldsTyped, Places
<1>3. PartiesTyped'
  <2>1. output_buffer.index \in Nat /\ Len(output_buffer.data) \in Nat
    BY DEF FieldsTyped
  <2>2. Len(output_buffer.data) \div FrameSize \in Nat
    BY <2>1, Sizes, DivBounds
  <2>3. output_buffer.index + Len(output_buffer.data) \div FrameSize \in Int
    BY <2>1, <2>2
  <2>4. PICK next \in Int : next = output_buffer.index + Len(output_buffer.data) \div FrameSize
    BY <2>3
  <2>7. PICK first \in Int : first = output_buffer.index
    BY <2>1
  <2>5. downstream' = [downstream EXCEPT !.first = first, !.next = next]
    BY <2>4, <2>7 DEF PushAccepted
  <2>6. downstream' \in [flushing : BOOLEAN, seqnum : Int, start : Int, first : Int, next : Int, eos : BOOLEAN]
    BY <2>5 DEF PartiesTyped
  <2>. QED BY <1>1, <2>6 DEF PartiesTyped
<1>4. PlacesInv'
  BY <1>1 DEF PushAccepted, PlacesInv
<1>5. AdapterInv'
  BY <1>1 DEF PushAccepted, AdapterInv
<1>6. InternalSeekInv'
  BY <1>1 DEF PushAccepted, InternalSeekInv
<1>7. ASSUME SingleSeeker PROVE SyncInv'
  BY <1>1, <1>7 DEF PushAccepted, SyncInv, InSync
<1>8. ASSUME Undisturbed PROVE StreamInv'
  BY <1>1, <1>8 DEF PushAccepted, StreamInv, BuffersMatchTimestamps, Undisturbed
<1>9. ASSUME Undisturbed PROVE SegmentInv'
  BY <1>1, <1>9 DEF PushAccepted, SegmentInv, Begins, Undisturbed
<1>10. ASSUME Undisturbed PROVE HeardInv'
  <2>1. /\ downstream'.first = output_buffer.index /\ downstream'.next = current_index
        /\ downstream'.seqnum = downstream.seqnum /\ pc' = "loop"
    BY <1>10 DEF PushAccepted, PartiesTyped, HeardInv, Undisturbed
  <2>2. current_index # NoIndex /\ ~next_buffer_is_discont
    BY <1>10 DEF PushAccepted, HeardInv, FieldsTyped, NoIndex, Undisturbed
  <2>. QED BY <1>1, <1>10, <2>1, <2>2 DEF PushAccepted, HeardInv, InStep, Undisturbed
<1>11. ASSUME Undisturbed PROVE EndInv'
  BY <1>1, <1>11 DEF PushAccepted, EndInv, Undisturbed
<1>. QED BY <1>2, <1>3, <1>4, <1>5, <1>6, <1>7, <1>8, <1>9, <1>10, <1>11 DEF SingleSeeker, Undisturbed

LEMMA PushFlushedKeepsPushInv ==
  ASSUME PushInv, PushFlushed
  PROVE  PushInv'
<1>. USE DEF PushInv
<1>1. UNCHANGED <<upstream_is_seekable, parse_stage, flushing, expecting_upstream_segment,
                internal_seek_seqnum, pending, segment_start, current_seqnum,
                next_buffer_is_discont, input_adapter, byte_position, current_index, output_buffer,
                sink_segment, job, downstream, seeker, num_seeks, num_flushes, accepted>>
  BY DEF PushFlushed, Return, event_vars, segment_vars, data_vars, seek_vars, other_vars
<1>2. FieldsTyped'
  BY <1>1 DEF PushFlushed, Return, FieldsTyped, Places
<1>3. PartiesTyped'
  BY <1>1 DEF PushFlushed, Return, PartiesTyped
<1>4. PlacesInv'
  BY <1>1 DEF PushFlushed, Return, PlacesInv
<1>5. AdapterInv'
  BY <1>1 DEF PushFlushed, Return, AdapterInv
<1>6. InternalSeekInv'
  BY <1>1 DEF PushFlushed, Return, InternalSeekInv
<1>7. ASSUME SingleSeeker PROVE SyncInv'
  BY <1>1, <1>7 DEF PushFlushed, Return, SyncInv, InSync
<1>8. ASSUME Undisturbed PROVE StreamInv'
  BY <1>1, <1>8 DEF PushFlushed, Return, StreamInv, BuffersMatchTimestamps, Undisturbed
<1>9. ASSUME Undisturbed PROVE SegmentInv'
  BY <1>1, <1>9 DEF PushFlushed, Return, SegmentInv, Begins, Undisturbed
<1>10. ASSUME Undisturbed PROVE HeardInv'
  BY <1>1, <1>10 DEF PushFlushed, Return, HeardInv, InStep, Undisturbed, PartiesTyped, PlacesInv, StreamInv
<1>11. ASSUME Undisturbed PROVE EndInv'
  BY <1>1, <1>11 DEF PushFlushed, Return, EndInv, Undisturbed, PartiesTyped, PlacesInv, StreamInv
<1>. QED BY <1>2, <1>3, <1>4, <1>5, <1>6, <1>7, <1>8, <1>9, <1>10, <1>11 DEF SingleSeeker, Undisturbed

LEMMA SendEosKeepsPushInv ==
  ASSUME PushInv, SendEos
  PROVE  PushInv'
<1>. USE DEF PushInv
<1>1. UNCHANGED <<upstream_is_seekable, flushing, expecting_upstream_segment, internal_seek_seqnum,
                pending, segment_start, current_seqnum, next_buffer_is_discont, input_adapter,
                byte_position, current_index, pc, flow_ret, output_buffer, sink_segment, job,
                seeker, num_seeks, num_flushes, accepted>>
  BY DEF SendEos, StreamFailed, event_vars, segment_vars, data_vars, seek_vars, other_vars
<1>2. FieldsTyped'
  BY <1>1 DEF SendEos, StreamFailed, FieldsTyped, Stages, Places
<1>3. PartiesTyped'
  BY <1>1 DEF SendEos, StreamFailed, PartiesTyped
<1>4. PlacesInv'
  BY <1>1 DEF SendEos, StreamFailed, PlacesInv, PartiesTyped
<1>5. AdapterInv'
  BY <1>1 DEF SendEos, StreamFailed, AdapterInv
<1>6. InternalSeekInv'
  BY <1>1 DEF SendEos, StreamFailed, InternalSeekInv
<1>7. ASSUME SingleSeeker PROVE SyncInv'
  BY <1>1, <1>7 DEF SendEos, StreamFailed, SyncInv, InSync
<1>8. ASSUME Undisturbed PROVE StreamInv'
  BY <1>1, <1>8 DEF SendEos, StreamFailed, StreamInv, BuffersMatchTimestamps, Undisturbed
<1>9. ASSUME Undisturbed PROVE SegmentInv'
  BY <1>1, <1>9 DEF SendEos, StreamFailed, SegmentInv, Begins, Undisturbed
<1>10. ASSUME Undisturbed PROVE HeardInv'
  BY <1>1, <1>10 DEF SendEos, StreamFailed, HeardInv, InStep, Undisturbed, PartiesTyped
<1>11. ASSUME Undisturbed PROVE EndInv'
  <2>1. upstream'.state = "eos" /\ pc' = "source" /\ pc = "source"
    BY <1>1 DEF SendEos, PartiesTyped
  <2>2. ASSUME parse_stage' = "Streaming" PROVE current_index = TotalIndices
    <3>1. parse_stage = "Streaming"
      BY <2>2 DEF SendEos, StreamFailed
    <3>2. CASE upstream.state = "playing"
      <4>. DEFINE left == EndOfPayload - byte_position
                  size == NumIndicesInBuffer(left) * FrameSize
      <4>1. upstream.position = MediumSize /\ byte_position = MediumSize - Len(input_adapter)
        BY <1>11, <3>1, <3>2 DEF SendEos, StreamInv, Undisturbed
      <4>2. left \in Nat /\ byte_position < MediumSize
        BY <3>1, Sizes DEF PlacesInv, FieldsTyped
      <4>3. size \in Nat /\ size <= left
        BY <4>2, IndicesInBuffer
      <4>4. Len(input_adapter) = 0 \/ Len(input_adapter) < size
        BY <1>11, <2>1, <3>1, <3>2 DEF EndInv, Undisturbed
      <4>5. Len(input_adapter) \in Nat /\ byte_position \in Nat
        BY Sizes DEF FieldsTyped
      <4>. HIDE DEF size
      <4>. QED BY <4>1, <4>2, <4>3, <4>4, <4>5, Sizes
    <3>. QED BY <1>11, <3>1, <3>2 DEF EndInv, Undisturbed
  <2>. QED BY <1>1, <1>11, <2>1, <2>2 DEF EndInv, Undisturbed
<1>. QED BY <1>2, <1>3, <1>4, <1>5, <1>6, <1>7, <1>8, <1>9, <1>10, <1>11 DEF SingleSeeker, Undisturbed

LEMMA HandleSinkSegmentKeepsPushInv == ASSUME PushInv, HandleSinkSegment PROVE PushInv'
<1>. USE DEF PushInv
<1>0. /\ job.phase = "flushed" /\ pc \in {"source", "in_seek"} /\ downstream = Silent /\ ~flushing
      /\ input_adapter = << >> /\ job' = NoJob
      /\ upstream'.position = JobStart /\ upstream'.state = "playing"
      /\ sink_segment'.return = pc /\ input_adapter' = << >>
      /\ JobStart \in 0 .. MediumSize
  <2>1. JobStart \in 0 .. MediumSize
    BY Sizes DEF JobStart, PartiesTyped
  <2>. QED BY <2>1 DEF HandleSinkSegment, HasStreamLock, AdapterInv, PlacesInv, DeviatedSegment,
     AwaitedSegment,
           OwnSegment
<1>1. UNCHANGED <<upstream_is_seekable, flushing, expecting_upstream_segment, internal_seek_seqnum,
                segment_start, next_buffer_is_discont, current_index, flow_ret, output_buffer, downstream,
                seeker, num_seeks, num_flushes, accepted>>
  BY DEF HandleSinkSegment, event_vars
<1>s. \/ /\ parse_stage = "AwaitingSegment" /\ parse_stage' = "StreamFailure"
         /\ DeviatedSegment /\ UNCHANGED <<pc, byte_position, current_seqnum>>
      \/ /\ parse_stage = "AwaitingSegment" /\ parse_stage' = parse_stage /\ pc' = "adopt"
         /\ byte_position' = pending.position /\ JobStart = pending.position
         /\ UNCHANGED <<pending, current_seqnum>>
      \/ /\ parse_stage = "Streaming" /\ current_seqnum' = job.seqnum /\ UNCHANGED <<byte_position, pending>>
         /\ \/ parse_stage' = "StreamFailure" /\ pc' = pc
            \/ parse_stage' = parse_stage /\ pc' = "adopt_own"
      \/ /\ parse_stage = "StreamFailure"
         /\ UNCHANGED <<parse_stage, byte_position, pc, pending, current_seqnum>>
  BY DEF HandleSinkSegment, DeviatedSegment, AwaitedSegment, TakePosition, OwnSegment, StreamFailed
<1>p. /\ pending' \in [position : 0 .. EndOfPayload, index : 0 .. TotalIndices,
                       seqnum : {NoSeqnum} \cup InternalSeqnum .. MaxSeeks, start : 0 .. Duration,
                       bootstrapping : BOOLEAN]
      /\ pending'.position = pending.position /\ pending'.seqnum = pending.seqnum
      /\ pending'.start = pending.start /\ pending'.bootstrapping = pending.bootstrapping
  <2>1. CASE DeviatedSegment
    <3>1. JobStart \in PayloadPosition .. EndOfPayload - 1 =>
            ToIndex("BYTES", JobStart - PayloadPosition) \in 0 .. TotalIndices
      BY Sizes, ToIndexTyped
    <3>. DEFINE index == IF JobStart \in PayloadPosition .. EndOfPayload - 1
                         THEN ToIndex("BYTES", JobStart - PayloadPosition) ELSE pending.index
    <3>2. index \in 0 .. TotalIndices
      BY <3>1 DEF FieldsTyped
    <3>3. pending' = [pending EXCEPT !.index = index]
      BY <2>1 DEF DeviatedSegment
    <3>. HIDE DEF index
    <3>. QED BY <3>2, <3>3 DEF FieldsTyped
  <2>2. CASE UNCHANGED pending
    BY <2>2 DEF FieldsTyped
  <2>. QED BY <1>s, <2>1, <2>2
<1>2. FieldsTyped'
  <2>1. byte_position' \in 0 .. MediumSize - 1
    BY <1>s, Sizes DEF FieldsTyped
  <2>2. current_seqnum' \in FlushSeqnum .. MaxSeeks
    <3>1. job.seqnum \in NoSeqnum .. MaxSeeks /\ job.seqnum # NoSeqnum
      BY <1>0 DEF PartiesTyped, PlacesInv
    <3>2. job.seqnum \in FlushSeqnum .. MaxSeeks
      BY <3>1 DEF NoSeqnum, FlushSeqnum
    <3>. QED BY <1>s, <3>2 DEF FieldsTyped
  <2>3. sink_segment' \in [seqnum : Int, start : Nat, index : 0 .. TotalIndices,
                           return : {"source", "in_seek", "loop"}]
    <3>1. job.seqnum \in Int /\ JobStart \in Nat /\ 0 \in 0 .. TotalIndices
      BY <1>0, Sizes DEF PartiesTyped
    <3>. QED BY <1>0, <3>1 DEF HandleSinkSegment
  <2>4. parse_stage' \in Stages /\ pc' \in Places /\ input_adapter' \in Seq(0 .. MediumSize - 1)
    BY <1>0, <1>s DEF FieldsTyped, Stages, Places
  <2>. QED BY <1>1, <1>p, <2>1, <2>2, <2>3, <2>4 DEF FieldsTyped
<1>3. PartiesTyped'
  <2>1. upstream' \in [position : 0 .. MediumSize, state : {"playing", "draining", "eos"}]
    BY <1>0 DEF HandleSinkSegment
  <2>2. NoJob \in [phase : {"none", "requested", "forwarding", "flushing", "flushed"},
                   seqnum : NoSeqnum .. MaxSeeks, start : 0 .. EndOfPayload]
    BY Sizes, SizesAssumption DEF NoJob, NoSeqnum
  <2>. QED BY <1>0, <1>1, <2>1, <2>2 DEF PartiesTyped
<1>4. PlacesInv'
  <2>1. pc' = "adopt" => parse_stage' = "AwaitingSegment" /\ byte_position' \in PayloadPosition .. EndOfPayload
    BY <1>0, <1>s, Sizes DEF PlacesInv, FieldsTyped
  <2>2. parse_stage' = "Streaming" => parse_stage = "Streaming" /\ UNCHANGED byte_position
    BY <1>s
  <2>3. parse_stage' = "AwaitingSegment" => parse_stage = "AwaitingSegment"
    BY <1>s
  <2>4. pc' \in {"source", "in_seek", "adopt", "adopt_own"} /\ job'.phase = "none" /\ job'.seqnum = NoSeqnum
    BY <1>0, <1>s DEF NoJob
  <2>5. ~flushing' /\ ~downstream'.flushing
    BY <1>0, <1>1 DEF Silent
  <2>. QED BY <1>1, <1>p, <2>1, <2>2, <2>3, <2>4, <2>5 DEF PlacesInv
<1>5. AdapterInv'
  BY <1>0, <1>1 DEF AdapterInv, NoJob
<1>6. InternalSeekInv'
  <2>1. parse_stage # "ScanningInfo" /\ parse_stage' # "ScanningInfo" /\ pc' # "scan"
    BY <1>0, <1>s
  <2>. QED BY <1>0, <2>1 DEF InternalSeekInv, NoJob, NoSeqnum, InternalSeqnum
<1>7. ASSUME SingleSeeker PROVE SyncInv'
  <2>1. pc' \in {"source", "in_seek", "adopt", "adopt_own"}
    BY <1>0, <1>s
  <2>2. pc' = "adopt" =>
          /\ parse_stage = "AwaitingSegment" /\ pending' = pending /\ byte_position' = pending.position
    BY <1>0, <1>s
  <2>3. parse_stage' = "AwaitingSegment" => pc' = "adopt"
    BY <1>s
  <2>4. parse_stage' = "Streaming" => parse_stage = "Streaming" /\ UNCHANGED byte_position
    BY <1>s
  <2>. QED BY <1>1, <1>7, <2>1, <2>2, <2>3, <2>4 DEF SyncInv, InSync
<1>q. ASSUME Undisturbed
      PROVE  /\ parse_stage # "Streaming" /\ parse_stage' # "Streaming"
             /\ pc' = "adopt" => parse_stage = "AwaitingSegment" /\ pending' = pending
             /\ pc' = "adopt" => byte_position' = upstream'.position /\ parse_stage' = "AwaitingSegment"
             /\ pc' \in {"source", "in_seek", "adopt"}
             /\ parse_stage' = "AwaitingSegment" => pc' = "adopt"
  BY <1>0, <1>q, <1>s DEF StreamInv, Undisturbed
<1>8. ASSUME Undisturbed PROVE StreamInv'
  <2>1. \A t \in Seekers : seeker[t].place # "pushing"
    BY <1>0, <1>8 DEF StreamInv, Undisturbed
  <2>2. job'.seqnum # FlushSeqnum /\ job'.phase = "none"
    BY <1>0 DEF NoJob, NoSeqnum, FlushSeqnum
  <2>3. byte_position' \in Int /\ Len(input_adapter') = 0
    BY <1>0, <1>2 DEF FieldsTyped
  <2>4. pc' = "adopt" => byte_position' = upstream'.position - Len(input_adapter')
    BY <1>0, <1>8, <1>q, <2>3
  <2>. QED BY <1>0, <1>1, <1>8, <1>q, <2>1, <2>2, <2>4 DEF StreamInv, BuffersMatchTimestamps
<1>9. ASSUME Undisturbed PROVE SegmentInv'
  BY <1>0, <1>1, <1>9, <1>p, <1>q, <1>s DEF SegmentInv, Undisturbed
<1>10. ASSUME Undisturbed PROVE HeardInv'
  BY <1>0, <1>1, <1>10, <1>q DEF HeardInv, Silent, NoSeqnum, FlushSeqnum
<1>11. ASSUME Undisturbed PROVE EndInv'
  BY <1>0, <1>1, <1>11, <1>q DEF EndInv, Silent
<1>. QED BY <1>2, <1>3, <1>4, <1>5, <1>6, <1>7, <1>8, <1>9, <1>10, <1>11 DEF SingleSeeker, Undisturbed

\* A seek that is prepared: what it writes, and that the stage changes only for one that is let in.
LEMMA PrepareSeekEffect ==
  ASSUME PushInv, NEW t \in Seekers, NEW format \in {"BYTES", "TIME"}, NEW value \in SeekValues,
         NEW accurate \in BOOLEAN, PrepareSeek(t, format, value, accurate)
  PROVE  /\ seeker[t].place = "checked" /\ seeker[t].seqnum \in 1 .. MaxSeeks
         /\ \A u \in Seekers \ {t} : seeker'[u] = seeker[u]
         /\ seeker'[t].seqnum = seeker[t].seqnum
         /\ seeker' \in [Seekers -> [place : {"idle", "checked", "pushing"}, seqnum : NoSeqnum .. MaxSeeks,
                                     position : 0 .. EndOfPayload]]
         /\ \/ UNCHANGED <<pending, parse_stage, accepted>> /\ seeker'[t].place = "idle"
            \/ /\ pending' \in [position : 0 .. EndOfPayload, index : 0 .. TotalIndices,
                                seqnum : {NoSeqnum} \cup InternalSeqnum .. MaxSeeks, start : 0 .. Duration,
                                bootstrapping : BOOLEAN]
               /\ pending'.seqnum = seeker[t].seqnum /\ ~pending'.bootstrapping
               /\ pending'.position >= PayloadPosition
               /\ pending'.position = PayloadPosition + pending'.index * FrameSize
               /\ Begins(pending'.start, pending'.index)
               /\ \/ /\ parse_stage = "Streaming" /\ parse_stage' = "AwaitingSegment"
                     /\ accepted' = seeker[t].seqnum /\ seeker'[t].place = "pushing"
                  \/ /\ parse_stage # "Streaming" /\ UNCHANGED <<parse_stage, accepted>>
                     /\ seeker'[t].place = "idle"
<1>. USE DEF PushInv
<1>. DEFINE start == NormalizedStart(format, value)
            index == ToIndex(format, start)
            position == BytesOf(index) + PayloadPosition
            segment == SegmentStart(format, start, accurate)
<1>1. /\ index \in 0 .. TotalIndices /\ segment \in 0 .. Duration /\ Begins(segment, index)
      /\ position = PayloadPosition + index * FrameSize /\ position \in PayloadPosition .. EndOfPayload
  <2>1. value \in Nat
    BY SizesAssumption
  <2>. QED BY <2>1, SeekTarget
<1>2. seeker[t].place = "checked" /\ seeker[t].seqnum \in 1 .. MaxSeeks
  <2>1. seeker[t].place = "checked"
    BY DEF PrepareSeek
  <2>2. seeker[t].seqnum \in 1 .. num_seeks /\ num_seeks \in 0 .. MaxSeeks
    BY <2>1 DEF PlacesInv, PartiesTyped
  <2>. QED BY <2>1, <2>2, SizesAssumption
<1>3. \/ /\ pending' = [position |-> position, index |-> index, seqnum |-> seeker[t].seqnum,
                        start |-> segment, bootstrapping |-> FALSE]
         /\ SwitchToAwaitingSegment(t, position)
      \/ /\ seeker' = [seeker EXCEPT ![t].place = "idle"]
         /\ UNCHANGED <<pending, parse_stage, accepted>>
  BY DEF PrepareSeek
<1>. HIDE DEF index, position, segment
<1>4. seeker \in [Seekers -> [place : {"idle", "checked", "pushing"}, seqnum : NoSeqnum .. MaxSeeks,
                              position : 0 .. EndOfPayload]]
  BY DEF PartiesTyped
<1>5. position \in 0 .. EndOfPayload
  BY <1>1, Sizes
<1>6. CASE /\ seeker' = [seeker EXCEPT ![t].place = "idle"]
           /\ UNCHANGED <<pending, parse_stage, accepted>>
  BY <1>2, <1>4, <1>6
<1>7. CASE /\ pending' = [position |-> position, index |-> index, seqnum |-> seeker[t].seqnum,
                          start |-> segment, bootstrapping |-> FALSE]
           /\ SwitchToAwaitingSegment(t, position)
  <2>0. seeker[t].seqnum \in {NoSeqnum} \cup InternalSeqnum .. MaxSeeks /\ position >= PayloadPosition
    BY <1>1, <1>2, Sizes DEF InternalSeqnum
  <2>1. /\ pending' \in [position : 0 .. EndOfPayload, index : 0 .. TotalIndices,
                         seqnum : {NoSeqnum} \cup InternalSeqnum .. MaxSeeks, start : 0 .. Duration,
                         bootstrapping : BOOLEAN]
        /\ pending'.position = position /\ pending'.index = index /\ pending'.start = segment
        /\ pending'.seqnum = seeker[t].seqnum /\ ~pending'.bootstrapping
    BY <1>1, <1>5, <1>7, <2>0
  <2>2. pending'.position = PayloadPosition + pending'.index * FrameSize /\ Begins(pending'.start, pending'.index)
    BY <1>1, <2>1, Zenon
  <2>3. CASE parse_stage = "Streaming"
    BY <1>2, <1>4, <1>5, <1>7, <2>0, <2>1, <2>2, <2>3 DEF SwitchToAwaitingSegment
  <2>4. CASE parse_stage # "Streaming"
    BY <1>2, <1>4, <1>7, <2>0, <2>1, <2>2, <2>4 DEF SwitchToAwaitingSegment
  <2>. QED BY <2>3, <2>4
<1>. QED BY <1>3, <1>6, <1>7

LEMMA PrepareSeekKeepsPushInv ==
  ASSUME PushInv, NEW t \in Seekers, NEW format \in {"BYTES", "TIME"}, NEW value \in SeekValues,
         NEW accurate \in BOOLEAN, PrepareSeek(t, format, value, accurate)
  PROVE  PushInv'
<1>. USE DEF PushInv
<1>1. UNCHANGED <<upstream_is_seekable, flushing, expecting_upstream_segment, internal_seek_seqnum,
                segment_start, current_seqnum, next_buffer_is_discont, input_adapter, byte_position,
                current_index, pc, flow_ret, output_buffer, sink_segment, upstream, job, downstream,
                num_seeks, num_flushes>>
  BY DEF PrepareSeek, event_vars, segment_vars, data_vars, other_vars
<1>0. /\ seeker[t].place = "checked" /\ seeker[t].seqnum \in 1 .. MaxSeeks
      /\ \A u \in Seekers \ {t} : seeker'[u] = seeker[u]
      /\ seeker'[t].seqnum = seeker[t].seqnum
      /\ seeker' \in [Seekers -> [place : {"idle", "checked", "pushing"}, seqnum : NoSeqnum .. MaxSeeks,
                                  position : 0 .. EndOfPayload]]
  BY PrepareSeekEffect
<1>s. \/ UNCHANGED <<pending, parse_stage, accepted>> /\ seeker'[t].place = "idle"
      \/ /\ pending' \in [position : 0 .. EndOfPayload, index : 0 .. TotalIndices,
                          seqnum : {NoSeqnum} \cup InternalSeqnum .. MaxSeeks, start : 0 .. Duration,
                          bootstrapping : BOOLEAN]
         /\ pending'.seqnum = seeker[t].seqnum /\ ~pending'.bootstrapping
         /\ pending'.position >= PayloadPosition
         /\ pending'.position = PayloadPosition + pending'.index * FrameSize
         /\ Begins(pending'.start, pending'.index)
         /\ \/ /\ parse_stage = "Streaming" /\ parse_stage' = "AwaitingSegment"
               /\ accepted' = seeker[t].seqnum /\ seeker'[t].place = "pushing"
            \/ /\ parse_stage # "Streaming" /\ UNCHANGED <<parse_stage, accepted>>
               /\ seeker'[t].place = "idle"
  BY PrepareSeekEffect
<1>p. /\ parse_stage' = parse_stage \/ (parse_stage = "Streaming" /\ parse_stage' = "AwaitingSegment")
      /\ parse_stage # "ScanningInfo" /\ pc # "scan" /\ parse_stage' # "ScanningInfo"
      /\ accepted' \in {accepted, seeker[t].seqnum}
      /\ pending'.seqnum \in {pending.seqnum, seeker[t].seqnum}
  <2>1. parse_stage # "ScanningInfo" /\ pc # "scan"
    BY <1>0 DEF InternalSeekInv
  <2>2. /\ parse_stage' = parse_stage \/ (parse_stage = "Streaming" /\ parse_stage' = "AwaitingSegment")
        /\ accepted' \in {accepted, seeker[t].seqnum}
    BY <1>s
  <2>3. pending'.seqnum \in {pending.seqnum, seeker[t].seqnum}
    BY <1>s
  <2>. QED BY <2>1, <2>2, <2>3
<1>2. FieldsTyped'
  <2>1. parse_stage' \in Stages
    BY <1>p DEF FieldsTyped, Stages
  <2>2. pending' \in [position : 0 .. EndOfPayload, index : 0 .. TotalIndices,
                      seqnum : {NoSeqnum} \cup InternalSeqnum .. MaxSeeks, start : 0 .. Duration,
                      bootstrapping : BOOLEAN]
    BY <1>0, <1>s, Sizes DEF FieldsTyped, InternalSeqnum
  <2>. QED BY <1>1, <2>1, <2>2 DEF FieldsTyped
<1>3. PartiesTyped'
  BY <1>0, <1>1, <1>p DEF PartiesTyped
<1>4. PlacesInv'
  <2>1. pending'.seqnum # NoSeqnum => pending'.position >= PayloadPosition
    BY <1>s, Sizes DEF PlacesInv
  <2>2. parse_stage' = "AwaitingSegment" \/ pc = "adopt" => pending'.seqnum # NoSeqnum
    BY <1>0, <1>s DEF PlacesInv, NoSeqnum
  <2>3. \A u \in Seekers : seeker'[u].place # "idle" => seeker'[u].seqnum \in 1 .. num_seeks
    BY <1>0 DEF PlacesInv
  <2>4. parse_stage' = "Streaming" => parse_stage = "Streaming"
    BY <1>p
  <2>5. pc \in {"adopt", "resume"} => parse_stage' \in {"AwaitingSegment", "StreamFailure"}
    BY <1>p DEF PlacesInv
  <2>. QED BY <1>1, <2>1, <2>2, <2>3, <2>4, <2>5 DEF PlacesInv
<1>5. AdapterInv'
  BY <1>1 DEF AdapterInv
<1>6. InternalSeekInv'
  <2>1. parse_stage \in {"AwaitingSegment", "StreamFailure"} => parse_stage' = parse_stage
    BY <1>p
  <2>. QED BY <1>1, <1>p, <2>1 DEF InternalSeekInv
<1>q. ASSUME SingleSeeker
      PROVE  /\ pc \notin {"adopt", "resume"} /\ parse_stage # "AwaitingSegment"
             /\ \A u \in Seekers : seeker'[u].place # "checked"
             /\ \A u \in Seekers : seeker'[u].place = "pushing" =>
                                    parse_stage = "Streaming" /\ parse_stage' = "AwaitingSegment"
             /\ parse_stage' = "AwaitingSegment" =>
                  /\ pending'.position = PayloadPosition + pending'.index * FrameSize
                  /\ Begins(pending'.start, pending'.index)
                  /\ pending'.seqnum = accepted' /\ accepted' # NoSeqnum
  <2>1. \A u \in Seekers : u = t
    BY <1>q DEF SingleSeeker
  <2>2. pc \notin {"adopt", "resume"} /\ parse_stage # "AwaitingSegment"
    BY <1>0, <1>q DEF SyncInv
  <2>. QED BY <1>0, <1>s, <2>1, <2>2 DEF NoSeqnum
<1>7. ASSUME SingleSeeker PROVE SyncInv'
  BY <1>1, <1>7, <1>p, <1>q DEF SyncInv, InSync
<1>8. ASSUME Undisturbed PROVE StreamInv'
  <2>1. parse_stage' = "Streaming" => parse_stage = "Streaming"
    BY <1>p
  <2>. QED BY <1>1, <1>8, <1>q, <2>1 DEF StreamInv, BuffersMatchTimestamps, Undisturbed
<1>9. ASSUME Undisturbed PROVE SegmentInv'
  <2>1. accepted' <= num_seeks
    <3>1. seeker[t].seqnum \in 1 .. num_seeks /\ num_seeks \in Nat /\ accepted <= num_seeks
      BY <1>0, <1>9, SizesAssumption DEF PlacesInv, PartiesTyped, SegmentInv, Undisturbed
    <3>. QED BY <1>p, <3>1
  <2>2. pending'.bootstrapping => pending'.start = 0
    BY <1>9, <1>s DEF SegmentInv, Undisturbed
  <2>. QED BY <1>1, <1>9, <1>q, <2>1, <2>2 DEF SegmentInv, Undisturbed
<1>10. ASSUME Undisturbed PROVE HeardInv'
  BY <1>1, <1>10, <1>p DEF HeardInv, InStep, Undisturbed
<1>11. ASSUME Undisturbed PROVE EndInv'
  BY <1>1, <1>11, <1>p DEF EndInv, Undisturbed
<1>. QED BY <1>2, <1>3, <1>4, <1>5, <1>6, <1>7, <1>8, <1>9, <1>10, <1>11 DEF SingleSeeker, Undisturbed

LEMMA AdoptSegmentKeepsPushInv ==
  ASSUME PushInv, AdoptSegment
  PROVE  PushInv'
<1>. USE DEF PushInv
<1>1. UNCHANGED <<upstream_is_seekable, parse_stage, flushing, input_adapter, byte_position,
                current_index, flow_ret, output_buffer, upstream, job, downstream, seeker,
                num_seeks, num_flushes, accepted>>
  BY DEF AdoptSegment, event_vars, segment_vars, data_vars, seek_vars, other_vars
<1>2. FieldsTyped'
  <2>1. pending.seqnum \in FlushSeqnum .. MaxSeeks
    BY DEF AdoptSegment, PlacesInv, FieldsTyped, NoSeqnum, FlushSeqnum, InternalSeqnum
  <2>2. pending.start \in 0 .. Duration /\ 0 \in 0 .. Duration
    BY Sizes DEF FieldsTyped
  <2>. QED BY <1>1, <2>1, <2>2 DEF AdoptSegment, FieldsTyped, Places
<1>3. PartiesTyped'
  BY <1>1 DEF AdoptSegment, PartiesTyped
<1>4. PlacesInv'
  BY <1>1 DEF AdoptSegment, PlacesInv
<1>5. AdapterInv'
  BY <1>1 DEF AdoptSegment, AdapterInv
<1>6. InternalSeekInv'
  BY <1>1 DEF AdoptSegment, InternalSeekInv
<1>7. ASSUME SingleSeeker PROVE SyncInv'
  BY <1>1, <1>7 DEF AdoptSegment, SyncInv, InSync
<1>8. ASSUME Undisturbed PROVE StreamInv'
  BY <1>1, <1>8 DEF AdoptSegment, StreamInv, BuffersMatchTimestamps, Undisturbed
<1>9. ASSUME Undisturbed PROVE SegmentInv'
  <2>1. sink_segment'.index = pending.index /\ pending'.seqnum = pending.seqnum /\ pc' = "resume"
    BY DEF AdoptSegment, FieldsTyped
  <2>2. Begins(segment_start', sink_segment'.index)
    BY <1>9, <2>1 DEF AdoptSegment, SegmentInv, Undisturbed
  <2>3. current_seqnum' >= InternalSeqnum
    BY DEF AdoptSegment, PlacesInv, FieldsTyped, NoSeqnum, InternalSeqnum
  <2>4. pending'.start = pending.start /\ pending'.index = pending.index /\ pending'.bootstrapping = FALSE
    BY DEF AdoptSegment, FieldsTyped
  <2>. QED BY <1>1, <1>9, <2>1, <2>2, <2>3, <2>4 DEF AdoptSegment, SegmentInv, StreamInv, Undisturbed
<1>10. ASSUME Undisturbed PROVE HeardInv'
  BY <1>1, <1>10 DEF AdoptSegment, HeardInv, InStep, Undisturbed
<1>11. ASSUME Undisturbed PROVE EndInv'
  BY <1>1, <1>11 DEF AdoptSegment, EndInv, Undisturbed
<1>. QED BY <1>2, <1>3, <1>4, <1>5, <1>6, <1>7, <1>8, <1>9, <1>10, <1>11 DEF SingleSeeker, Undisturbed

LEMMA ResumeStreamingKeepsPushInv ==
  ASSUME PushInv, ResumeStreaming
  PROVE  PushInv'
<1>. USE DEF PushInv
<1>1. UNCHANGED <<upstream_is_seekable, flushing, expecting_upstream_segment, internal_seek_seqnum,
                pending, segment_start, current_seqnum, next_buffer_is_discont, input_adapter,
                byte_position, flow_ret, output_buffer, sink_segment, upstream, job, downstream,
                seeker, num_seeks, num_flushes, accepted>>
  BY DEF ResumeStreaming, CurrentIndexAfterSeek, event_vars, segment_vars, data_vars, seek_vars, other_vars
<1>2. FieldsTyped'
  <2>1. current_index' \in Nat
    BY Sizes DEF ResumeStreaming, CurrentIndexAfterSeek, FieldsTyped
  <2>. QED BY <1>1, <2>1 DEF ResumeStreaming, FieldsTyped, Stages, Places
<1>3. PartiesTyped'
  BY <1>1 DEF ResumeStreaming, CurrentIndexAfterSeek, PartiesTyped
<1>4. PlacesInv'
  BY <1>1 DEF ResumeStreaming, CurrentIndexAfterSeek, PlacesInv
<1>5. AdapterInv'
  BY <1>1 DEF ResumeStreaming, CurrentIndexAfterSeek, AdapterInv
<1>6. InternalSeekInv'
  BY <1>1 DEF ResumeStreaming, CurrentIndexAfterSeek, InternalSeekInv
<1>7. ASSUME SingleSeeker PROVE SyncInv'
  BY <1>1, <1>7 DEF ResumeStreaming, CurrentIndexAfterSeek, SyncInv, InSync, FieldsTyped
<1>8. ASSUME Undisturbed PROVE StreamInv'
  BY <1>1, <1>8 DEF ResumeStreaming, CurrentIndexAfterSeek, StreamInv, BuffersMatchTimestamps, Undisturbed
<1>9. ASSUME Undisturbed PROVE SegmentInv'
  BY <1>1, <1>9 DEF ResumeStreaming, CurrentIndexAfterSeek, SegmentInv, Begins, Undisturbed
<1>10. ASSUME Undisturbed PROVE HeardInv'
  BY <1>1, <1>10 DEF ResumeStreaming, CurrentIndexAfterSeek, HeardInv, InStep, Undisturbed
<1>11. ASSUME Undisturbed PROVE EndInv'
  BY <1>1, <1>11 DEF ResumeStreaming, CurrentIndexAfterSeek, EndInv, Undisturbed, StreamInv
<1>. QED BY <1>2, <1>3, <1>4, <1>5, <1>6, <1>7, <1>8, <1>9, <1>10, <1>11 DEF SingleSeeker, Undisturbed

LEMMA AdoptOwnSegmentKeepsPushInv ==
  ASSUME PushInv, AdoptOwnSegment
  PROVE  PushInv'
<1>. USE DEF PushInv
<1>1. UNCHANGED <<upstream_is_seekable, parse_stage, flushing, internal_seek_seqnum, pending,
                current_seqnum, next_buffer_is_discont, input_adapter, byte_position, current_index,
                flow_ret, output_buffer, sink_segment, upstream, job, downstream, seeker, num_seeks,
                num_flushes, accepted>>
  BY DEF AdoptOwnSegment, event_vars, segment_vars, data_vars, seek_vars, other_vars
<1>2. FieldsTyped'
  <2>. DEFINE start == IF sink_segment.start < PayloadPosition THEN 0 ELSE sink_segment.start - PayloadPosition
  <2>1. start \in Nat
    BY Sizes DEF FieldsTyped
  <2>2. ToIndex("BYTES", start) \in Nat
    BY <2>1, Sizes, ToIndexTyped
  <2>3. TimeOf(ToIndex("BYTES", start)) \in 0 .. Duration
    BY <2>2, TimeOfTyped
  <2>4. segment_start' = TimeOf(ToIndex("BYTES", start))
    BY DEF AdoptOwnSegment
  <2>5. segment_start' \in 0 .. Duration /\ expecting_upstream_segment' \in BOOLEAN /\ pc' \in Places
    <3>1. segment_start' \in 0 .. Duration
      BY ONLY <2>3, <2>4
    <3>. QED BY <1>1, <3>1 DEF AdoptOwnSegment, Places
  <2>. QED BY <1>1, <2>5 DEF FieldsTyped
<1>3. PartiesTyped'
  BY <1>1 DEF AdoptOwnSegment, PartiesTyped
<1>4. PlacesInv'
  BY <1>1 DEF AdoptOwnSegment, PlacesInv
<1>5. AdapterInv'
  BY <1>1 DEF AdoptOwnSegment, AdapterInv
<1>6. InternalSeekInv'
  BY <1>1 DEF AdoptOwnSegment, InternalSeekInv
<1>7. ASSUME SingleSeeker PROVE SyncInv'
  BY <1>1, <1>7 DEF AdoptOwnSegment, SyncInv, InSync
<1>8. ASSUME Undisturbed PROVE StreamInv'
  BY <1>1, <1>8 DEF AdoptOwnSegment, StreamInv, BuffersMatchTimestamps, Undisturbed
<1>9. ASSUME Undisturbed PROVE SegmentInv'
  BY <1>1, <1>9 DEF AdoptOwnSegment, SegmentInv, Begins, Undisturbed, StreamInv
<1>10. ASSUME Undisturbed PROVE HeardInv'
  BY <1>1, <1>10 DEF AdoptOwnSegment, HeardInv, InStep, Undisturbed, StreamInv
<1>11. ASSUME Undisturbed PROVE EndInv'
  BY <1>1, <1>11 DEF AdoptOwnSegment, EndInv, Undisturbed, StreamInv
<1>. QED BY <1>2, <1>3, <1>4, <1>5, <1>6, <1>7, <1>8, <1>9, <1>10, <1>11 DEF SingleSeeker, Undisturbed

LEMMA AnnounceSegmentKeepsPushInv ==
  ASSUME PushInv, AnnounceSegment
  PROVE  PushInv'
<1>. USE DEF PushInv
<1>1. UNCHANGED <<upstream_is_seekable, flushing, expecting_upstream_segment, internal_seek_seqnum,
                pending, segment_start, current_seqnum, next_buffer_is_discont, input_adapter,
                byte_position, current_index, output_buffer, sink_segment, job, seeker, num_seeks,
                num_flushes, accepted>>
  BY DEF AnnounceSegment, Return, StreamFailed, event_vars, segment_vars, data_vars, seek_vars, other_vars
<1>2. FieldsTyped'
  BY <1>1 DEF AnnounceSegment, Return, StreamFailed, FieldsTyped, Stages, Places
<1>3. PartiesTyped'
  <2>1. current_seqnum \in Int /\ segment_start \in Int /\ NoIndex \in Int
    BY Sizes, SizesAssumption DEF FieldsTyped, NoIndex, FlushSeqnum
  <2>2. downstream' \in [flushing : BOOLEAN, seqnum : Int, start : Int, first : Int, next : Int, eos : BOOLEAN]
    BY <2>1 DEF AnnounceSegment, PartiesTyped
  <2>3. upstream' \in [position : 0 .. MediumSize, state : {"playing", "draining", "eos"}]
    BY DEF AnnounceSegment, Return, PartiesTyped
  <2>. QED BY <1>1, <2>2, <2>3 DEF PartiesTyped
<1>4. PlacesInv'
  BY <1>1 DEF AnnounceSegment, Return, StreamFailed, PlacesInv, FieldsTyped, PartiesTyped, Silent
<1>5. AdapterInv'
  <2>1. upstream'.position = upstream.position
    BY DEF AnnounceSegment, Return, PartiesTyped
  <2>2. pc' \in {"source", "in_seek", "loop"} /\ job.phase # "flushed"
    BY DEF AnnounceSegment, Return, AdapterInv, FieldsTyped
  <2>. QED BY <1>1, <2>1, <2>2 DEF AdapterInv
<1>6. InternalSeekInv'
  BY <1>1 DEF AnnounceSegment, Return, StreamFailed, InternalSeekInv, FieldsTyped, PartiesTyped, Silent
<1>7. ASSUME SingleSeeker PROVE SyncInv'
  BY <1>1, <1>7 DEF AnnounceSegment, Return, StreamFailed, SyncInv, InSync, FieldsTyped, PartiesTyped
<1>8. ASSUME Undisturbed PROVE StreamInv'
  BY <1>1, <1>8 DEF AnnounceSegment, Return, StreamFailed, StreamInv, BuffersMatchTimestamps,
     Undisturbed, FieldsTyped, PartiesTyped, PlacesInv
<1>9. ASSUME Undisturbed PROVE SegmentInv'
  BY <1>1, <1>9 DEF AnnounceSegment, Return, StreamFailed, SegmentInv, Begins, Undisturbed,
     FieldsTyped, PartiesTyped, PlacesInv, StreamInv
<1>10. ASSUME Undisturbed PROVE HeardInv'
  <2>1. CASE ~downstream.flushing
    <3>1. /\ downstream'.seqnum = current_seqnum /\ downstream'.start = segment_start
          /\ downstream'.next = NoIndex
      BY <2>1 DEF AnnounceSegment, PartiesTyped
    <3>2. pc' \in {"source", "in_seek", "loop"}
      BY <2>1 DEF AnnounceSegment, FieldsTyped
    <3>3. current_seqnum # NoSeqnum /\ current_seqnum # FlushSeqnum
      BY <1>10 DEF SegmentInv, Undisturbed, FieldsTyped, NoSeqnum, FlushSeqnum, InternalSeqnum
    <3>4. next_buffer_is_discont /\ Begins(segment_start, current_index)
      BY <1>10 DEF AnnounceSegment, SegmentInv, Undisturbed
    <3>. QED BY <1>1, <3>1, <3>2, <3>3, <3>4 DEF HeardInv, InStep
  <2>2. CASE downstream.flushing
    <3>1. UNCHANGED downstream /\ pc' \in {"source", "in_seek", "loop"} /\ parse_stage' # "Streaming"
      BY <1>10, <2>2 DEF AnnounceSegment, Return, StreamFailed, FieldsTyped, PlacesInv, StreamInv,
         Undisturbed
    <3>. QED BY <1>1, <1>10, <3>1 DEF HeardInv, Undisturbed
  <2>. QED BY <2>1, <2>2 DEF PartiesTyped
<1>11. ASSUME Undisturbed PROVE EndInv'
  BY <1>1, <1>11 DEF AnnounceSegment, Return, StreamFailed, EndInv, Undisturbed, FieldsTyped,
     PartiesTyped, PlacesInv, StreamInv
<1>. QED BY <1>2, <1>3, <1>4, <1>5, <1>6, <1>7, <1>8, <1>9, <1>10, <1>11 DEF SingleSeeker, Undisturbed

LEMMA FlushStartKeepsPushInv ==
  ASSUME PushInv, FlushStart
  PROVE  PushInv'
<1>. USE DEF PushInv
<1>1. UNCHANGED <<upstream_is_seekable, parse_stage, expecting_upstream_segment,
                internal_seek_seqnum, pending, segment_start, current_seqnum,
                next_buffer_is_discont, input_adapter, byte_position, current_index, pc, flow_ret,
                output_buffer, sink_segment, upstream, downstream, seeker, num_seeks, num_flushes,
                accepted>>
  BY DEF FlushStart, event_vars, segment_vars, data_vars, seek_vars, other_vars
<1>2. FieldsTyped'
  <2>1. flushing' \in BOOLEAN
    BY DEF FlushStart, FieldsTyped
  <2>. QED BY <1>1, <2>1 DEF FieldsTyped
<1>3. PartiesTyped'
  BY <1>1 DEF FlushStart, PartiesTyped
<1>4. PlacesInv'
  BY <1>1 DEF FlushStart, PlacesInv, PartiesTyped, IsInternalFlush
<1>5. AdapterInv'
  BY <1>1 DEF FlushStart, AdapterInv, PartiesTyped, IsInternalFlush
<1>6. InternalSeekInv'
  BY <1>1 DEF FlushStart, InternalSeekInv, PartiesTyped, IsInternalFlush, PlacesInv, NoSeqnum,
     FlushSeqnum, InternalSeqnum
<1>7. ASSUME SingleSeeker PROVE SyncInv'
  BY <1>1, <1>7 DEF FlushStart, SyncInv, InSync
<1>8. ASSUME Undisturbed PROVE StreamInv'
  BY <1>1, <1>8 DEF FlushStart, StreamInv, BuffersMatchTimestamps, Undisturbed, PartiesTyped,
     IsInternalFlush
<1>9. ASSUME Undisturbed PROVE SegmentInv'
  BY <1>1, <1>9 DEF FlushStart, SegmentInv, Begins, Undisturbed
<1>10. ASSUME Undisturbed PROVE HeardInv'
  BY <1>1, <1>10 DEF FlushStart, HeardInv, InStep, Undisturbed
<1>11. ASSUME Undisturbed PROVE EndInv'
  BY <1>1, <1>11 DEF FlushStart, EndInv, Undisturbed
<1>. QED BY <1>2, <1>3, <1>4, <1>5, <1>6, <1>7, <1>8, <1>9, <1>10, <1>11 DEF SingleSeeker, Undisturbed

LEMMA ForwardFlushStartKeepsPushInv ==
  ASSUME PushInv, ForwardFlushStart
  PROVE  PushInv'
<1>. USE DEF PushInv
<1>1. UNCHANGED <<upstream_is_seekable, parse_stage, flushing, expecting_upstream_segment,
                internal_seek_seqnum, pending, segment_start, current_seqnum,
                next_buffer_is_discont, input_adapter, byte_position, current_index, pc, flow_ret,
                output_buffer, sink_segment, upstream, seeker, num_seeks, num_flushes, accepted>>
  BY DEF ForwardFlushStart, event_vars, segment_vars, data_vars, seek_vars, other_vars
<1>2. FieldsTyped'
  BY <1>1 DEF ForwardFlushStart, FieldsTyped, Places
<1>3. PartiesTyped'
  BY <1>1 DEF ForwardFlushStart, PartiesTyped
<1>4. PlacesInv'
  BY <1>1 DEF ForwardFlushStart, PlacesInv
<1>5. AdapterInv'
  BY <1>1 DEF ForwardFlushStart, AdapterInv
<1>6. InternalSeekInv'
  BY <1>1 DEF ForwardFlushStart, InternalSeekInv, PartiesTyped, PlacesInv, NoSeqnum, FlushSeqnum,
     InternalSeqnum
<1>7. ASSUME SingleSeeker PROVE SyncInv'
  BY <1>1, <1>7 DEF ForwardFlushStart, SyncInv, InSync
<1>8. ASSUME Undisturbed PROVE StreamInv'
  BY <1>1, <1>8 DEF ForwardFlushStart, StreamInv, BuffersMatchTimestamps, Undisturbed
<1>9. ASSUME Undisturbed PROVE SegmentInv'
  BY <1>1, <1>9 DEF ForwardFlushStart, SegmentInv, Begins, Undisturbed
<1>10. ASSUME Undisturbed PROVE HeardInv'
  BY <1>1, <1>10 DEF ForwardFlushStart, HeardInv, InStep, Undisturbed
<1>11. ASSUME Undisturbed PROVE EndInv'
  BY <1>1, <1>11 DEF ForwardFlushStart, EndInv, Undisturbed
<1>. QED BY <1>2, <1>3, <1>4, <1>5, <1>6, <1>7, <1>8, <1>9, <1>10, <1>11 DEF SingleSeeker, Undisturbed

LEMMA FlushStopKeepsPushInv ==
  ASSUME PushInv, FlushStop
  PROVE  PushInv'
<1>. USE DEF PushInv
<1>1. UNCHANGED <<upstream_is_seekable, parse_stage, internal_seek_seqnum, pending, segment_start,
                current_seqnum, byte_position, current_index, pc, flow_ret, output_buffer,
                sink_segment, upstream, seeker, num_seeks, num_flushes, accepted>>
  BY DEF FlushStop, ForwardFlushStop, event_vars, segment_vars, data_vars, seek_vars, other_vars
<1>2. FieldsTyped'
  <2>1. flushing' \in BOOLEAN /\ expecting_upstream_segment' \in BOOLEAN
    BY DEF FlushStop, FieldsTyped
  <2>2. input_adapter' \in Seq(0 .. MediumSize - 1)
    BY DEF FlushStop
  <2>. QED BY <1>1, <2>1, <2>2 DEF FlushStop, FieldsTyped
<1>3. PartiesTyped'
  <2>1. downstream' = Silent
    BY DEF FlushStop, ForwardFlushStop, IsInternalFlush, InternalSeekInv, FieldsTyped
  <2>2. Silent \in [flushing : BOOLEAN, seqnum : Int, start : Int, first : Int, next : Int, eos : BOOLEAN]
    BY DEF Silent, NoSeqnum, NoIndex
  <2>. QED BY <1>1, <2>1, <2>2 DEF FlushStop, PartiesTyped
<1>4. PlacesInv'
  <2>1. ~flushing' /\ ~downstream'.flushing
    <3>1. CASE IsInternalFlush
      <4>1. job.seqnum = InternalSeqnum
        BY <3>1 DEF IsInternalFlush, FieldsTyped
      <4>. QED BY <3>1, <4>1 DEF FlushStop, InternalSeekInv, Silent
    <3>2. CASE ~IsInternalFlush
      BY <3>2 DEF FlushStop, ForwardFlushStop, Silent
    <3>. QED BY <3>1, <3>2
  <2>2. job'.phase = "flushed" /\ job'.seqnum = job.seqnum /\ job.phase = "flushing"
    BY DEF FlushStop, PartiesTyped
  <2>. QED BY <1>1, <2>1, <2>2 DEF PlacesInv
<1>5. AdapterInv'
  <2>1. downstream' = Silent
    BY DEF FlushStop, ForwardFlushStop, IsInternalFlush, InternalSeekInv, FieldsTyped
  <2>2. pc \in {"source", "in_seek", "loop"} /\ input_adapter' = << >>
    BY DEF FlushStop, HasStreamLock
  <2>. QED BY <1>1, <2>1, <2>2 DEF AdapterInv
<1>6. InternalSeekInv'
  BY <1>1 DEF FlushStop, ForwardFlushStop, InternalSeekInv
<1>7. ASSUME SingleSeeker PROVE SyncInv'
  BY <1>1, <1>7 DEF FlushStop, ForwardFlushStop, SyncInv, InSync
<1>8. ASSUME Undisturbed PROVE StreamInv'
  BY <1>1, <1>8 DEF FlushStop, ForwardFlushStop, StreamInv, BuffersMatchTimestamps, Undisturbed
<1>9. ASSUME Undisturbed PROVE SegmentInv'
  BY <1>1, <1>9 DEF FlushStop, ForwardFlushStop, SegmentInv, Begins, Undisturbed
<1>10. ASSUME Undisturbed PROVE HeardInv'
  BY <1>1, <1>10 DEF FlushStop, ForwardFlushStop, HeardInv, InStep, Undisturbed, PartiesTyped,
     PlacesInv, HasStreamLock, InternalSeekInv, StreamInv, IsInternalFlush, Silent, NoSeqnum,
     FlushSeqnum, InternalSeqnum
<1>11. ASSUME Undisturbed PROVE EndInv'
  BY <1>1, <1>11 DEF FlushStop, ForwardFlushStop, EndInv, Undisturbed, PartiesTyped, HasStreamLock,
     StreamInv, IsInternalFlush, Silent
<1>. QED BY <1>2, <1>3, <1>4, <1>5, <1>6, <1>7, <1>8, <1>9, <1>10, <1>11 DEF SingleSeeker, Undisturbed

LEMMA ExternalFlushKeepsPushInv ==
  ASSUME PushInv, ExternalFlush
  PROVE  PushInv'
<1>. USE DEF PushInv
<1>1. UNCHANGED <<upstream_is_seekable, parse_stage, flushing, expecting_upstream_segment,
                internal_seek_seqnum, pending, segment_start, current_seqnum,
                next_buffer_is_discont, input_adapter, byte_position, current_index, pc, flow_ret,
                output_buffer, sink_segment, upstream, downstream, seeker, num_seeks, accepted>>
  BY DEF ExternalFlush, event_vars, segment_vars, data_vars, seek_vars, other_vars
<1>2. FieldsTyped'
  BY <1>1 DEF ExternalFlush, FieldsTyped, Places
<1>3. PartiesTyped'
  BY <1>1, Sizes, SizesAssumption DEF ExternalFlush, PartiesTyped, NoSeqnum, FlushSeqnum, InternalSeqnum
<1>4. PlacesInv'
  BY <1>1 DEF ExternalFlush, PlacesInv, NoSeqnum, FlushSeqnum, InternalSeqnum, PartiesTyped
<1>5. AdapterInv'
  BY <1>1 DEF ExternalFlush, AdapterInv
<1>6. InternalSeekInv'
  BY <1>1 DEF ExternalFlush, InternalSeekInv, NoSeqnum, FlushSeqnum, InternalSeqnum
<1>7. ASSUME SingleSeeker PROVE SyncInv'
  BY <1>1, <1>7 DEF ExternalFlush, SyncInv, InSync
<1>8. ASSUME Undisturbed PROVE StreamInv'
  BY <1>1, <1>8 DEF ExternalFlush, StreamInv, BuffersMatchTimestamps, Undisturbed, PartiesTyped,
     NoSeqnum, FlushSeqnum, InternalSeqnum
<1>9. ASSUME Undisturbed PROVE SegmentInv'
  BY <1>1, <1>9 DEF ExternalFlush, SegmentInv, Begins, Undisturbed
<1>10. ASSUME Undisturbed PROVE HeardInv'
  BY <1>1, <1>10 DEF ExternalFlush, HeardInv, InStep, Undisturbed
<1>11. ASSUME Undisturbed PROVE EndInv'
  BY <1>1, <1>11 DEF ExternalFlush, EndInv, Undisturbed
<1>. QED BY <1>2, <1>3, <1>4, <1>5, <1>6, <1>7, <1>8, <1>9, <1>10, <1>11 DEF SingleSeeker, Undisturbed

LEMMA CheckSeekKeepsPushInv ==
  ASSUME PushInv, NEW t \in Seekers, CheckSeek(t)
  PROVE  PushInv'
<1>. USE DEF PushInv
<1>1. UNCHANGED <<upstream_is_seekable, parse_stage, flushing, expecting_upstream_segment,
                internal_seek_seqnum, pending, segment_start, current_seqnum,
                next_buffer_is_discont, input_adapter, byte_position, current_index, pc, flow_ret,
                output_buffer, sink_segment, upstream, job, downstream, num_flushes, accepted>>
  BY DEF CheckSeek, event_vars, segment_vars, data_vars, seek_vars, other_vars
<1>2. FieldsTyped'
  BY <1>1 DEF CheckSeek, FieldsTyped, Places
<1>3. PartiesTyped'
  BY <1>1, Sizes, SizesAssumption DEF CheckSeek, PartiesTyped, NoSeqnum, FlushSeqnum, InternalSeqnum
<1>4. PlacesInv'
  BY <1>1 DEF CheckSeek, PlacesInv, PartiesTyped
<1>5. AdapterInv'
  BY <1>1 DEF CheckSeek, AdapterInv
<1>6. InternalSeekInv'
  BY <1>1 DEF CheckSeek, InternalSeekInv
<1>7. ASSUME SingleSeeker PROVE SyncInv'
  <2>1. pc \notin {"adopt", "resume"} /\ parse_stage = "Streaming"
    BY DEF CheckSeek, PlacesInv
  <2>. QED BY <1>1, <1>7, <2>1 DEF SyncInv, InSync
<1>8. ASSUME Undisturbed PROVE StreamInv'
  BY <1>1, <1>8 DEF CheckSeek, StreamInv, BuffersMatchTimestamps, Undisturbed
<1>9. ASSUME Undisturbed PROVE SegmentInv'
  <2>1. num_seeks' = num_seeks + 1 /\ num_seeks \in Nat /\ accepted <= num_seeks /\ accepted \in Int
    BY <1>9, SizesAssumption DEF CheckSeek, PartiesTyped, SegmentInv, Undisturbed, NoSeqnum
  <2>2. \A u \in Seekers : seeker'[u].place = "checked" => seeker'[u].seqnum > accepted
    BY <1>9, <2>1 DEF CheckSeek, SegmentInv, PartiesTyped, Undisturbed
  <2>. QED BY <1>1, <1>9, <2>1, <2>2 DEF SegmentInv, Undisturbed
<1>10. ASSUME Undisturbed PROVE HeardInv'
  BY <1>1, <1>10 DEF CheckSeek, HeardInv, InStep, Undisturbed
<1>11. ASSUME Undisturbed PROVE EndInv'
  BY <1>1, <1>11 DEF CheckSeek, EndInv, Undisturbed
<1>. QED BY <1>2, <1>3, <1>4, <1>5, <1>6, <1>7, <1>8, <1>9, <1>10, <1>11 DEF SingleSeeker, Undisturbed

LEMMA PushSeekKeepsPushInv ==
  ASSUME PushInv, NEW t \in Seekers, PushSeek(t)
  PROVE  PushInv'
<1>. USE DEF PushInv
<1>1. UNCHANGED <<upstream_is_seekable, flushing, expecting_upstream_segment, internal_seek_seqnum,
                pending, segment_start, current_seqnum, next_buffer_is_discont, input_adapter,
                byte_position, current_index, pc, flow_ret, output_buffer, sink_segment, upstream,
                downstream, num_seeks, num_flushes, accepted>>
  BY DEF PushSeek, StreamFailed, event_vars, segment_vars, data_vars, seek_vars, other_vars
<1>2. FieldsTyped'
  BY <1>1 DEF PushSeek, StreamFailed, FieldsTyped, Stages
<1>3. PartiesTyped'
  BY <1>1 DEF PushSeek, StreamFailed, PartiesTyped
<1>4. PlacesInv'
  BY <1>1 DEF PushSeek, StreamFailed, PlacesInv, PartiesTyped, NoSeqnum, FlushSeqnum, InternalSeqnum
<1>5. AdapterInv'
  BY <1>1 DEF PushSeek, StreamFailed, AdapterInv
<1>6. InternalSeekInv'
  BY <1>1 DEF PushSeek, StreamFailed, InternalSeekInv, PartiesTyped, PlacesInv, NoSeqnum, FlushSeqnum,
     InternalSeqnum
<1>7. ASSUME SingleSeeker PROVE SyncInv'
  BY <1>1, <1>7 DEF PushSeek, StreamFailed, SyncInv, InSync
<1>8. ASSUME Undisturbed PROVE StreamInv'
  <2>1. seeker'[t].place = "idle" /\ \A u \in Seekers : u = t
    BY <1>8 DEF PushSeek, PartiesTyped, Undisturbed, SingleSeeker
  <2>2. parse_stage # "Streaming" /\ pc \notin {"adopt", "resume"}
    BY <1>8 DEF PushSeek, StreamInv, Undisturbed
  <2>4. seeker[t].seqnum \in 1 .. num_seeks
    BY DEF PushSeek, PlacesInv
  <2>5. seeker[t].seqnum # FlushSeqnum
    BY <2>4 DEF FlushSeqnum
  <2>3. job'.seqnum # FlushSeqnum /\ parse_stage' # "Streaming"
    BY <1>8, <2>2, <2>5 DEF PushSeek, StreamFailed, StreamInv, Undisturbed
  <2>. QED BY <1>1, <1>8, <2>1, <2>2, <2>3 DEF StreamInv, BuffersMatchTimestamps, Undisturbed
<1>9. ASSUME Undisturbed PROVE SegmentInv'
  BY <1>1, <1>9 DEF PushSeek, StreamFailed, SegmentInv, Begins, Undisturbed
<1>10. ASSUME Undisturbed PROVE HeardInv'
  BY <1>1, <1>10 DEF PushSeek, StreamFailed, HeardInv, InStep, Undisturbed
<1>11. ASSUME Undisturbed PROVE EndInv'
  BY <1>1, <1>11 DEF PushSeek, StreamFailed, EndInv, Undisturbed
<1>. QED BY <1>2, <1>3, <1>4, <1>5, <1>6, <1>7, <1>8, <1>9, <1>10, <1>11 DEF SingleSeeker, Undisturbed

-------------------------------------------------------------------------------
(***************************************************************************)
(* PushInv is an invariant.                                                *)
(***************************************************************************)

LEMMA InitPushInv == ASSUME Init PROVE PushInv
<1>1. /\ byte_position \in 0 .. MediumSize - 1
      /\ input_adapter \in Seq(0 .. MediumSize - 1) /\ Len(input_adapter) \in {0, 1}
      /\ byte_position + Len(input_adapter) \in 0 .. MediumSize
      /\ \A k \in 1 .. Len(input_adapter) : input_adapter[k] = byte_position
  <2>1. PayloadPosition \in 0 .. MediumSize - 1 /\ MediumSize - 1 \in 0 .. MediumSize - 1
    BY Sizes
  <2>2. CASE input_adapter = << >>
    BY <2>1, <2>2, Sizes DEF Init
  <2>3. CASE input_adapter = << byte_position >>
    BY <2>1, <2>3, Sizes DEF Init
  <2>. QED BY <2>2, <2>3 DEF Init
<1>2. /\ upstream.position = byte_position + Len(input_adapter) /\ upstream.state = "playing"
      /\ job = NoJob /\ downstream = Silent /\ accepted = NoSeqnum /\ num_seeks = 0 /\ current_index = 0
      /\ pending = [position |-> 0, index |-> 0, seqnum |-> NoSeqnum, start |-> 0, bootstrapping |-> FALSE]
      /\ output_buffer = [index |-> 0, data |-> << >>, discont |-> FALSE]
      /\ sink_segment = [seqnum |-> NoSeqnum, start |-> 0, index |-> 0, return |-> "loop"]
      /\ seeker = [t \in Seekers |-> [place |-> "idle", seqnum |-> NoSeqnum, position |-> 0]]
      /\ ~flushing /\ ~expecting_upstream_segment /\ next_buffer_is_discont
      /\ \/ parse_stage = "ScanningInfo" /\ pc = "scan"
         \/ parse_stage = "Streaming" /\ pc = "announce" /\ byte_position = PayloadPosition
  BY DEF Init
<1>3. FieldsTyped
  <2>1. 0 \in 0 .. EndOfPayload /\ 0 \in 0 .. TotalIndices /\ 0 \in 0 .. Duration /\ 0 % FrameSize = 0
    BY Sizes
  <2>2. pending \in [position : 0 .. EndOfPayload, index : 0 .. TotalIndices,
                     seqnum : {NoSeqnum} \cup InternalSeqnum .. MaxSeeks, start : 0 .. Duration,
                     bootstrapping : BOOLEAN]
    BY <1>2, <2>1
  <2>3. output_buffer \in [index : Nat, data : Seq(0 .. MediumSize - 1), discont : BOOLEAN]
        /\ Len(output_buffer.data) % FrameSize = 0
    <3>1. output_buffer.data = << >> /\ Len(output_buffer.data) = 0
      BY <1>2
    <3>2. << >> \in Seq(0 .. MediumSize - 1)
      OBVIOUS
    <3>. QED BY <1>2, <2>1, <3>1, <3>2
  <2>4. sink_segment \in [seqnum : Int, start : Nat, index : 0 .. TotalIndices,
                          return : {"source", "in_seek", "loop"}]
    BY <1>2, <2>1 DEF NoSeqnum
  <2>5. InternalSeqnum \in FlushSeqnum .. MaxSeeks
    BY SizesAssumption DEF InternalSeqnum, FlushSeqnum
  <2>6. /\ upstream_is_seekable \in BOOLEAN /\ parse_stage \in Stages /\ pc \in Places
        /\ internal_seek_seqnum \in {NoSeqnum, InternalSeqnum}
        /\ flow_ret \in {"OK", "EOS", "FLUSHING", "ERROR"}
        /\ segment_start \in 0 .. Duration /\ current_seqnum \in FlushSeqnum .. MaxSeeks
    BY <1>2, <2>1, <2>5 DEF Init, Stages, Places
  <2>7. /\ flushing \in BOOLEAN /\ expecting_upstream_segment \in BOOLEAN
        /\ next_buffer_is_discont \in BOOLEAN /\ current_index \in Nat
    BY DEF Init
  <2>. QED BY <1>1, <2>2, <2>3, <2>4, <2>6, <2>7 DEF FieldsTyped
<1>4. PartiesTyped
  <2>1. /\ 0 \in 0 .. EndOfPayload /\ NoSeqnum \in NoSeqnum .. MaxSeeks
        /\ 0 \in 0 .. MaxSeeks /\ 0 \in 0 .. MaxFlushes
    BY Sizes, SizesAssumption DEF NoSeqnum
  <2>2. upstream \in [position : 0 .. MediumSize, state : {"playing", "draining", "eos"}]
    BY <1>1 DEF Init
  <2>3. downstream \in [flushing : BOOLEAN, seqnum : Int, start : Int, first : Int, next : Int, eos : BOOLEAN]
    BY <1>2 DEF Silent, NoSeqnum, NoIndex
  <2>. QED BY <1>2, <2>1, <2>2, <2>3 DEF Init, PartiesTyped, NoJob
<1>5. PlacesInv
  <2>1. PayloadPosition \in PayloadPosition .. EndOfPayload
    BY Sizes
  <2>. QED BY <1>2, <2>1 DEF PlacesInv, NoJob, Silent
<1>6. AdapterInv
  <2>1. byte_position \in Int
    BY <1>1
  <2>. QED BY <1>1, <1>2, <2>1 DEF AdapterInv, NoJob
<1>7. InternalSeekInv
  BY <1>2 DEF InternalSeekInv, NoJob, NoSeqnum, InternalSeqnum
<1>8. SyncInv
  <2>1. /\ PayloadPosition + 0 * FrameSize = PayloadPosition /\ 0 \in 0 .. TotalIndices
        /\ Len(<< >>) = 0 /\ 0 \div FrameSize = 0
    BY Sizes
  <2>2. output_buffer.index + Len(output_buffer.data) \div FrameSize = 0
    BY <1>2, <2>1
  <2>. QED BY <1>2, <2>1, <2>2 DEF SyncInv, InSync
<1>9. StreamInv
  <2>1. byte_position = upstream.position - Len(input_adapter)
    BY <1>1, <1>2
  <2>. QED BY <1>2, <2>1 DEF StreamInv, BuffersMatchTimestamps, NoJob, NoSeqnum, FlushSeqnum
<1>10. SegmentInv
  <2>1. Begins(0, 0)
    BY TimeOfZero, TimeOfTyped, Sizes DEF Begins
  <2>2. segment_start = 0 /\ current_seqnum = InternalSeqnum
    BY DEF Init
  <2>. QED BY <1>2, <2>1, <2>2 DEF SegmentInv, NoSeqnum, InternalSeqnum
<1>11. HeardInv
  BY <1>2 DEF HeardInv, Silent, NoSeqnum, FlushSeqnum
<1>12. EndInv
  BY <1>2 DEF Init, EndInv, Silent
<1>. QED BY <1>3, <1>4, <1>5, <1>6, <1>7, <1>8, <1>9, <1>10, <1>11, <1>12 DEF PushInv

LEMMA StutterKeepsPushInv == ASSUME PushInv, UNCHANGED vars PROVE PushInv'
<1>1. UNCHANGED <<upstream_is_seekable, parse_stage, flushing, expecting_upstream_segment,
                internal_seek_seqnum, pending, segment_start, current_seqnum, next_buffer_is_discont,
                input_adapter, byte_position, current_index, pc, flow_ret, output_buffer, sink_segment,
                upstream, job, downstream, seeker, num_seeks, num_flushes, accepted>>
  BY DEF vars, event_vars, segment_vars, data_vars, seek_vars, other_vars
<1>2. UNCHANGED <<FieldsTyped, PartiesTyped, PlacesInv, AdapterInv, InternalSeekInv>>
  BY <1>1 DEF FieldsTyped, PartiesTyped, PlacesInv, AdapterInv, InternalSeekInv
<1>3. UNCHANGED <<SyncInv, StreamInv, SegmentInv, HeardInv, EndInv>>
  BY <1>1 DEF SyncInv, InSync, StreamInv, BuffersMatchTimestamps, SegmentInv, HeardInv, InStep, EndInv
<1>. QED BY <1>2, <1>3 DEF PushInv, SingleSeeker, Undisturbed

LEMMA StepKeepsPushInv == ASSUME PushInv, [Next]_vars PROVE PushInv'
<1>1. CASE Element
  BY <1>1, ScanningFinishedKeepsPushInv, InternalSeekReturnsKeepsPushInv, AcceptBufferKeepsPushInv,
     StartIterationKeepsPushInv, DispatchKeepsPushInv, ProduceKeepsPushInv, PushFlushedKeepsPushInv,
     AdoptSegmentKeepsPushInv, ResumeStreamingKeepsPushInv, AdoptOwnSegmentKeepsPushInv,
     AnnounceSegmentKeepsPushInv DEF Element
<1>2. CASE Upstream \/ PushAccepted \/ ExternalFlush
  BY <1>2, EnterChainKeepsPushInv, SendEosKeepsPushInv, PushAcceptedKeepsPushInv,
     ExternalFlushKeepsPushInv DEF Upstream
<1>3. CASE Job
  BY <1>3, FlushStartKeepsPushInv, ForwardFlushStartKeepsPushInv, FlushStopKeepsPushInv,
     HandleSinkSegmentKeepsPushInv DEF Job
<1>4. CASE \E t \in Seekers : CheckSeek(t) \/ Seek(t)
  BY <1>4, CheckSeekKeepsPushInv, PrepareSeekKeepsPushInv, PushSeekKeepsPushInv DEF Seek
<1>5. CASE UNCHANGED vars
  BY <1>5, StutterKeepsPushInv
<1>. QED BY <1>1, <1>2, <1>3, <1>4, <1>5 DEF Next

\* Push mode (gstdsdmediaparse.cpp, gstdffparse.cpp), for any payload, frame size, buffers and
\* seeks: the fields stay typed and the seek that ends the scan stays internal whoever seeks and
\* flushes; position and index stay together when one thread seeks at a time; and when nobody else
\* flushes either, what downstream hears continues what it has heard.
THEOREM PushInvHolds == Spec => []PushInv
<1>1. Init => PushInv
  BY InitPushInv
<1>2. PushInv /\ [Next]_vars => PushInv'
  BY StepKeepsPushInv
<1>. QED BY <1>1, <1>2, PTL DEF Spec

-------------------------------------------------------------------------------
(***************************************************************************)
(* What follows from it.                                                   *)
(***************************************************************************)

\* gst_dsd_media_parse_sink_event() (gstdsdmediaparse.cpp:1183, :1233): the flush events of the
\* seek that ends the scan neither reach downstream nor make the element flush, even when the
\* seek is deferred to another thread and others flush or seek meanwhile.
THEOREM InternalSeekIsInternal == Spec => []InternalSeekStaysInternal
<1>1. PushInv => InternalSeekStaysInternal
  BY DEF PushInv, InternalSeekInv, InternalSeekStaysInternal, Silent
<1>. QED BY PushInvHolds, <1>1, PTL

\* The fields stay inside the payload, as long as one thread seeks at a time.
THEOREM PushFieldsStayTyped ==
  ASSUME SingleSeeker PROVE Spec => []TypeOK
<1>1. ASSUME PushInv PROVE TypeOK
  <2>1. FieldsTyped /\ PartiesTyped /\ SyncInv
    BY <1>1 DEF PushInv
  <2>2. pending.seqnum \in NoSeqnum .. MaxSeeks
    BY <2>1, SizesAssumption DEF FieldsTyped, NoSeqnum, InternalSeqnum
  <2>3. pending.position \in 0 .. EndOfPayload /\ pending.index \in 0 .. TotalIndices
        /\ pending.start \in 0 .. Duration /\ pending.bootstrapping \in BOOLEAN
    BY <2>1 DEF FieldsTyped
  <2>4. sink_segment.index \in 0 .. TotalIndices
    BY <2>1 DEF FieldsTyped
  <2>5. /\ upstream.position \in 0 .. MediumSize /\ upstream.state \in {"playing", "draining", "eos"}
        /\ job.phase \in {"none", "requested", "forwarding", "flushing", "flushed"}
        /\ job.seqnum \in NoSeqnum .. MaxSeeks
        /\ \A t \in Seekers : seeker[t].place \in {"idle", "checked", "pushing"}
        /\ num_seeks \in 0 .. MaxSeeks /\ num_flushes \in 0 .. MaxFlushes
    BY <2>1 DEF PartiesTyped
  <2>6. /\ current_index \in 0 .. TotalIndices
        /\ output_buffer.index + Len(output_buffer.data) \div FrameSize \in 0 .. TotalIndices
    BY <2>1 DEF SyncInv
  <2>. QED BY <2>1, <2>2, <2>3, <2>4, <2>5, <2>6 DEF TypeOK, FieldsTyped, Stages
<1>. QED BY PushInvHolds, <1>1, PTL

\* gst_dffparse_produce_output(): the bytes of a buffer are those that its timestamp stands for.
THEOREM BuffersAlwaysMatchTimestamps ==
  ASSUME Undisturbed PROVE Spec => []BuffersMatchTimestamps
<1>1. PushInv => BuffersMatchTimestamps
  BY DEF PushInv, StreamInv
<1>. QED BY PushInvHolds, <1>1, PTL

\* The byte position that gst_dsd_media_parse_read_data_during_streaming() moves is that of the
\* next byte.
THEOREM BytePositionStaysTrue ==
  ASSUME Undisturbed PROVE Spec => []BytePositionIsTrue
<1>1. ASSUME PushInv PROVE BytePositionIsTrue
  <2>. SUFFICES ASSUME parse_stage = "Streaming"
                PROVE  byte_position = IF input_adapter = << >> THEN upstream.position ELSE input_adapter[1]
    BY DEF BytePositionIsTrue
  <2>1. byte_position = upstream.position - Len(input_adapter) /\ ~flushing /\ ~expecting_upstream_segment
    BY <1>1 DEF PushInv, StreamInv, PlacesInv
  <2>2. input_adapter \in Seq(0 .. MediumSize - 1) /\ upstream.position \in Nat
    BY <1>1, Sizes DEF PushInv, FieldsTyped, PartiesTyped
  <2>3. CASE input_adapter = << >>
    BY <2>1, <2>2, <2>3
  <2>4. CASE input_adapter # << >>
    <3>1. 1 \in 1 .. Len(input_adapter) /\ Len(input_adapter) \in Nat
      BY <2>2, <2>4
    <3>2. input_adapter[1] = upstream.position - Len(input_adapter) + 1 - 1
      BY <1>1, <2>1, <3>1 DEF PushInv, AdapterInv
    <3>. QED BY <2>1, <2>2, <2>4, <3>1, <3>2
  <2>. QED BY <2>3, <2>4
<1>. QED BY PushInvHolds, <1>1, PTL

\* A buffer that is pushed has at least one whole index, and they end inside the payload.
LEMMA BufferHasIndices ==
  ASSUME PushInv, Undisturbed, pc = "push"
  PROVE  /\ output_buffer.index \in 0 .. TotalIndices /\ output_buffer.index < current_index
         /\ current_index \in 0 .. TotalIndices
         /\ current_index = output_buffer.index + Len(output_buffer.data) \div FrameSize
<1>1. /\ current_index = output_buffer.index + Len(output_buffer.data) \div FrameSize
      /\ Len(output_buffer.data) > 0 /\ current_index \in 0 .. TotalIndices
  BY DEF PushInv, HeardInv, SyncInv, Undisturbed
<1>2. /\ output_buffer.index \in Nat /\ Len(output_buffer.data) \in Nat
      /\ Len(output_buffer.data) % FrameSize = 0
  BY DEF PushInv, FieldsTyped
<1>. DEFINE length == Len(output_buffer.data)
            num == length \div FrameSize
<1>3. num \in Nat /\ num # 0
  <2>. HIDE DEF length
  <2>1. \A a \in Nat, b \in Nat \ {0} : a % b = 0 /\ a > 0 => b <= a
    OBVIOUS
  <2>2. length \in Nat /\ length > 0 /\ length % FrameSize = 0
    BY <1>1, <1>2 DEF length
  <2>3. 1 * FrameSize <= length
    BY <2>1, <2>2, Sizes
  <2>4. 1 <= num /\ num \in Nat
    BY <2>2, <2>3, Sizes, DivAtLeast, DivBounds
  <2>. QED BY <2>4
<1>. HIDE DEF num
<1>4. current_index = output_buffer.index + num
  BY <1>1 DEF num
<1>5. /\ output_buffer.index \in 0 .. TotalIndices /\ output_buffer.index < current_index
  <2>1. current_index \in 0 .. TotalIndices /\ output_buffer.index \in Nat
    BY <1>1, <1>2
  <2>. QED BY <1>3, <1>4, <2>1, Sizes
<1>. QED BY <1>1, <1>5

LEMMA BufferInStep ==
  ASSUME PushInv, Undisturbed, PushAccepted
  PROVE  /\ downstream.seqnum # NoSeqnum /\ ~downstream.eos
         /\ IF downstream.next = NoIndex
            THEN /\ output_buffer.discont
                 /\ TimeOf(output_buffer.index) <= downstream.start
                 /\ downstream.start <= TimeOf(output_buffer.index + 1)
            ELSE ~output_buffer.discont /\ output_buffer.index = downstream.next
<1>1. pc = "push"
  BY DEF PushAccepted
<1>2. downstream.seqnum # NoSeqnum /\ ~downstream.eos /\ InStep
  BY <1>1 DEF PushInv, HeardInv, EndInv, Undisturbed
<1>3. output_buffer.index < TotalIndices
  <2>1. /\ output_buffer.index \in 0 .. TotalIndices /\ current_index \in 0 .. TotalIndices
        /\ output_buffer.index < current_index
    BY <1>1, BufferHasIndices
  <2>. QED BY <2>1, Sizes
<1>. QED BY <1>1, <1>2, <1>3 DEF InStep, Begins

\* gst_dffparse_produce_output() and start_streaming() (gstdsdmediaparse.cpp): a buffer only
\* comes after a segment, the first one starts where the segment says, and each continues the
\* one before it.
THEOREM BuffersAlwaysFollowSegment ==
  ASSUME Undisturbed PROVE Spec => BuffersFollowSegment
<1>1. PushInv /\ [Next]_vars =>
        [PushAccepted =>
           /\ downstream.seqnum # NoSeqnum /\ ~downstream.eos
           /\ IF downstream.next = NoIndex
              THEN /\ output_buffer.discont
                   /\ TimeOf(output_buffer.index) <= downstream.start
                   /\ downstream.start <= TimeOf(output_buffer.index + 1)
              ELSE ~output_buffer.discont /\ output_buffer.index = downstream.next]_vars
  BY BufferInStep
<1>. QED BY PushInvHolds, <1>1, PTL DEF Spec, BuffersFollowSegment

\* Only EOS of upstream ends the stream downstream.
LEMMA EosFromUpstream ==
  ASSUME PushInv, [Next]_vars, downstream'.eos, ~downstream.eos
  PROVE  SendEos /\ parse_stage = "Streaming"
<1>1. CASE UNCHANGED downstream
  BY <1>1
<1>2. CASE PushAccepted \/ AnnounceSegment \/ ForwardFlushStart \/ FlushStop
  <2>1. ~(PushAccepted \/ AnnounceSegment \/ ForwardFlushStart)
    <3>1. ASSUME PushAccepted PROVE downstream'.eos = downstream.eos
      BY <3>1 DEF PushInv, PartiesTyped, PushAccepted
    <3>2. ASSUME AnnounceSegment PROVE downstream'.eos = downstream.eos
      BY <3>2 DEF PushInv, PartiesTyped, AnnounceSegment
    <3>3. ASSUME ForwardFlushStart PROVE downstream'.eos = downstream.eos
      BY <3>3 DEF PushInv, PartiesTyped, ForwardFlushStart
    <3>. QED BY <3>1, <3>2, <3>3
  <2>2. ASSUME FlushStop PROVE downstream' = downstream \/ downstream' = Silent
    BY <2>2 DEF FlushStop, ForwardFlushStop
  <2>3. ~Silent.eos
    BY DEF Silent
  <2>. QED BY <1>2, <2>1, <2>2, <2>3
<1>3. CASE SendEos
  BY <1>3 DEF SendEos
<1>4. \/ UNCHANGED downstream
      \/ PushAccepted \/ AnnounceSegment \/ ForwardFlushStart \/ FlushStop \/ SendEos
  <2>1. CASE Element
    BY <2>1 DEF Element, ScanningFinished, InternalSeekReturns, AcceptBuffer, StartIteration, Dispatch,
       Produce, PushFlushed, AdoptSegment, ResumeStreaming, AdoptOwnSegment
  <2>2. CASE \E t \in Seekers : CheckSeek(t) \/ Seek(t)
    BY <2>2 DEF CheckSeek, Seek, PrepareSeek, PushSeek
  <2>3. CASE Upstream \/ Job \/ ExternalFlush \/ PushAccepted
    BY <2>3 DEF Upstream, Job, ExternalFlush, EnterChain, FlushStart, HandleSinkSegment
  <2>4. CASE UNCHANGED vars
    BY <2>4 DEF vars
  <2>. QED BY <2>1, <2>2, <2>3, <2>4 DEF Next
<1>. QED BY <1>1, <1>2, <1>3, <1>4

LEMMA EosAfterAll ==
  ASSUME PushInv, Undisturbed, [Next]_vars, downstream'.eos, ~downstream.eos
  PROVE  /\ SendEos /\ parse_stage = "Streaming" /\ downstream.seqnum # NoSeqnum
         /\ IF downstream.next = NoIndex THEN downstream.start >= TimeOf(TotalIndices)
                                         ELSE downstream.next = TotalIndices
<1>1. SendEos /\ parse_stage = "Streaming" /\ pc = "source"
  BY EosFromUpstream DEF SendEos
<1>2. downstream.seqnum # NoSeqnum /\ InStep
  BY <1>1 DEF PushInv, HeardInv
<1>3. current_index = TotalIndices
  <2>1. EndInv'
    BY <1>1, SendEosKeepsPushInv DEF PushInv, Undisturbed, SingleSeeker
  <2>2. upstream'.state = "eos" /\ parse_stage' = "Streaming" /\ current_index' = current_index
    BY <1>1 DEF SendEos, PushInv, PartiesTyped, data_vars
  <2>. QED BY <2>1, <2>2 DEF EndInv
<1>4. downstream.start \in Int /\ TimeOf(TotalIndices) \in Int
  BY Sizes, TimeOfTyped DEF PushInv, PartiesTyped
<1>. QED BY <1>1, <1>2, <1>3, <1>4 DEF InStep, Begins

\* gst_dsd_media_parse_sink_event() and the EOS of upstream: downstream is told of the end when
\* everything from the segment's start on has been pushed.
THEOREM EosOnlyAfterAll ==
  ASSUME Undisturbed PROVE Spec => EosMeansAllPlayed
<1>1. PushInv /\ [Next]_vars =>
        [downstream'.eos /\ ~downstream.eos =>
           IF downstream.next = NoIndex THEN downstream.start >= TimeOf(TotalIndices)
                                        ELSE downstream.next = TotalIndices]_vars
  BY EosAfterAll
<1>. QED BY PushInvHolds, <1>1, PTL DEF Spec, EosMeansAllPlayed

-------------------------------------------------------------------------------
(***************************************************************************)
(* Every step of the element is a step of SeekContract, or changes nothing *)
(* of what it speaks of, when one thread seeks and nobody else flushes.    *)
(***************************************************************************)

LEMMA ContractUnchanged ==
  ASSUME UNCHANGED <<accepted, current_seqnum>>,
         (parse_stage = "StreamFailure")' = (parse_stage = "StreamFailure"),
         downstream'.seqnum = downstream.seqnum, downstream'.first = downstream.first,
         downstream'.next = downstream.next, downstream'.eos = downstream.eos
  PROVE  UNCHANGED Contract!vars
BY DEF Contract!vars

\* The stream fails, has failed, or goes on; nobody downstream is told.
LEMMA ContractFail ==
  ASSUME UNCHANGED <<accepted, current_seqnum, downstream>>,
         \/ parse_stage' = "StreamFailure"
         \/ parse_stage' = parse_stage
         \/ parse_stage # "StreamFailure" /\ parse_stage' # "StreamFailure"
  PROVE  Contract!Fail \/ UNCHANGED Contract!vars
<1>1. CASE parse_stage' = "StreamFailure"
  BY <1>1 DEF Contract!Fail
<1>2. CASE parse_stage' # "StreamFailure" /\ parse_stage # "StreamFailure"
  BY <1>2, ContractUnchanged
<1>3. CASE parse_stage' = parse_stage
  BY <1>3, ContractUnchanged
<1>. QED BY <1>1, <1>2, <1>3

LEMMA InitContract == ASSUME Init PROVE Contract!Init
<1>1. TotalIndices \in Nat
  BY Sizes
<1>. QED BY <1>1 DEF Init, Contract!Init, Contract!Nothing, Contract!None, Silent, NoSeqnum,
   InternalSeqnum, NoIndex

LEMMA ContractAdoptSegment ==
  ASSUME PushInv, Undisturbed, AdoptSegment
  PROVE  Contract!Serve
<1>1. current_seqnum' = pending.seqnum /\ UNCHANGED <<accepted, parse_stage, downstream>>
  BY DEF AdoptSegment
<1>2. pending.seqnum = IF accepted = NoSeqnum THEN InternalSeqnum ELSE accepted
  BY DEF PushInv, SegmentInv, AdoptSegment
<1>. QED BY <1>1, <1>2 DEF Contract!Serve

LEMMA ContractAnnounceSegment ==
  ASSUME PushInv, Undisturbed, AnnounceSegment
  PROVE  Contract!Next \/ UNCHANGED Contract!vars
<1>1. UNCHANGED <<accepted, current_seqnum>> /\ pc = "announce"
  BY DEF AnnounceSegment, seek_vars, segment_vars
<1>2. CASE downstream.flushing
  <2>1. UNCHANGED downstream /\ (parse_stage' = parse_stage \/ parse_stage' = "StreamFailure")
    BY <1>2 DEF AnnounceSegment, StreamFailed
  <2>. QED BY <1>1, <2>1, ContractFail DEF Contract!Next
<1>3. CASE ~downstream.flushing
  <2>1. /\ downstream'.seqnum = current_seqnum /\ downstream'.first = NoIndex /\ downstream'.next = NoIndex
        /\ downstream'.eos = downstream.eos /\ UNCHANGED parse_stage
    BY <1>3 DEF AnnounceSegment, PushInv, PartiesTyped
  <2>2. current_seqnum # NoSeqnum /\ current_seqnum # Contract!None
    BY DEF PushInv, SegmentInv, FieldsTyped, NoSeqnum, InternalSeqnum, FlushSeqnum, Contract!None
  <2>. DEFINE heard == [seqnum |-> current_seqnum, first |-> NoIndex, next |-> NoIndex, last |-> TotalIndices]
              new   == [Contract!Nothing EXCEPT !.seqnum = current_seqnum, !.last = TotalIndices]
  <2>3. new = heard
    <3>. HIDE DEF new
    <3>1. new = [Contract!Nothing EXCEPT !.seqnum = current_seqnum, !.last = TotalIndices]
      BY DEF new
    <3>2. Contract!Nothing = [seqnum |-> NoIndex, first |-> NoIndex, next |-> NoIndex, last |-> TotalIndices]
      BY DEF Contract!Nothing, Contract!None, NoIndex
    <3>. QED BY ONLY <3>1, <3>2
  <2>4. [seqnum |-> IF downstream.seqnum = NoSeqnum THEN -1 ELSE downstream.seqnum,
         first |-> downstream.first, next |-> downstream.next, last |-> TotalIndices]' = heard
    BY <2>1, <2>2
  <2>5. TotalIndices \in 0 .. TotalIndices
    BY Sizes
  <2>6. \E last \in 0 .. TotalIndices :
          [seqnum |-> IF downstream.seqnum = NoSeqnum THEN -1 ELSE downstream.seqnum,
           first |-> downstream.first, next |-> downstream.next, last |-> TotalIndices]'
            = [Contract!Nothing EXCEPT !.seqnum = current_seqnum, !.last = last]
    BY ONLY <2>3, <2>4, <2>5, Zenon
  <2>7. /\ UNCHANGED <<accepted, current_seqnum>> /\ downstream'.eos = downstream.eos
        /\ (parse_stage = "StreamFailure")' = (parse_stage = "StreamFailure")
        /\ (IF accepted = NoSeqnum THEN InternalSeqnum ELSE accepted)'
             = (IF accepted = NoSeqnum THEN InternalSeqnum ELSE accepted)
    BY <1>1, <2>1
  <2>8. Contract!Announce
    BY <2>2, <2>6, <2>7, Zenon DEF Contract!Announce
  <2>. QED BY <2>8 DEF Contract!Next
<1>. QED BY <1>2, <1>3 DEF PushInv, PartiesTyped

LEMMA ContractPushAccepted ==
  ASSUME PushInv, Undisturbed, PushAccepted
  PROVE  Contract!Play
<1>1. pc = "push" /\ UNCHANGED <<accepted, current_seqnum, parse_stage>>
  BY DEF PushAccepted, seek_vars, segment_vars
<1>2. /\ downstream'.seqnum = downstream.seqnum /\ downstream'.eos = downstream.eos
      /\ downstream'.first = output_buffer.index /\ downstream'.next = current_index
  BY <1>1 DEF PushAccepted, PushInv, PartiesTyped, HeardInv
<1>3. /\ downstream.seqnum # NoSeqnum /\ ~downstream.eos
      /\ downstream.next \in {NoIndex, output_buffer.index}
  BY BufferInStep
<1>4. /\ output_buffer.index \in 0 .. TotalIndices /\ current_index \in 0 .. TotalIndices
      /\ output_buffer.index < current_index
  BY <1>1, BufferHasIndices
<1>5. downstream.seqnum # -1 /\ downstream.seqnum \in Int
  BY DEF PushInv, HeardInv, FlushSeqnum, PartiesTyped
<1>. DEFINE heard == [seqnum |-> IF downstream.seqnum = NoSeqnum THEN -1 ELSE downstream.seqnum,
                     first |-> downstream.first, next |-> downstream.next, last |-> TotalIndices]
            new   == [heard EXCEPT !.first = output_buffer.index, !.next = current_index]
<1>6. heard' = new
  <2>1. heard = [seqnum |-> downstream.seqnum, first |-> downstream.first, next |-> downstream.next,
                 last |-> TotalIndices]
    BY <1>3
  <2>2. heard' = [seqnum |-> downstream.seqnum, first |-> output_buffer.index, next |-> current_index,
                  last |-> TotalIndices]
    BY <1>2, <1>3
  <2>3. new = [heard EXCEPT !.first = output_buffer.index, !.next = current_index]
    OBVIOUS
  <2>. HIDE DEF heard, new
  <2>4. new = [seqnum |-> downstream.seqnum, first |-> output_buffer.index, next |-> current_index,
               last |-> TotalIndices]
    BY ONLY <2>1, <2>3
  <2>. QED BY <2>2, <2>4, Zenon
<1>7. heard.seqnum # Contract!None /\ heard.next \in {Contract!None, output_buffer.index}
  BY <1>3, <1>5 DEF Contract!None, NoIndex
<1>8. \E first, next \in 0 .. TotalIndices :
        /\ heard.next \in {Contract!None, first} /\ first < next
        /\ heard' = [heard EXCEPT !.first = first, !.next = next]
  BY ONLY <1>4, <1>6, <1>7, Zenon
<1>9. /\ UNCHANGED <<accepted, current_seqnum>> /\ downstream'.eos = downstream.eos
      /\ (parse_stage = "StreamFailure")' = (parse_stage = "StreamFailure")
      /\ (IF accepted = NoSeqnum THEN InternalSeqnum ELSE accepted)'
           = (IF accepted = NoSeqnum THEN InternalSeqnum ELSE accepted)
  BY <1>1, <1>2
<1>. QED BY <1>3, <1>7, <1>8, <1>9, Zenon DEF Contract!Play

LEMMA ContractSendEos ==
  ASSUME PushInv, Undisturbed, Next, SendEos
  PROVE  Contract!Next \/ UNCHANGED Contract!vars
<1>1. UNCHANGED <<accepted, current_seqnum>>
  BY DEF SendEos, seek_vars, segment_vars
<1>2. CASE parse_stage # "Streaming"
  <2>1. UNCHANGED downstream /\ parse_stage' = "StreamFailure"
    BY <1>2 DEF SendEos, StreamFailed
  <2>. QED BY <1>1, <2>1, ContractFail DEF Contract!Next
<1>3. CASE parse_stage = "Streaming"
  <2>1. /\ UNCHANGED parse_stage /\ downstream'.seqnum = downstream.seqnum
        /\ downstream'.first = downstream.first /\ downstream'.next = downstream.next
        /\ downstream'.eos \in BOOLEAN /\ (downstream.eos => downstream'.eos)
    BY <1>3 DEF SendEos, PushInv, PartiesTyped
  <2>2. CASE downstream'.eos /\ ~downstream.eos
    <3>1. /\ downstream.seqnum # NoSeqnum
          /\ downstream.next = NoIndex \/ downstream.next = TotalIndices
      BY <2>2, EosAfterAll
    <3>2. downstream.seqnum # -1 /\ TotalIndices \in TotalIndices .. TotalIndices
      BY Sizes DEF PushInv, HeardInv, FlushSeqnum
    <3>3. Contract!End
      BY <1>1, <2>1, <2>2, <3>1, <3>2 DEF Contract!End, Contract!None, NoIndex
    <3>. QED BY <3>3 DEF Contract!Next
  <2>3. CASE downstream'.eos = downstream.eos
    BY <1>1, <2>1, <2>3, ContractUnchanged
  <2>4. downstream.eos \in BOOLEAN
    BY DEF PushInv, PartiesTyped
  <2>. QED BY <2>1, <2>2, <2>3, <2>4
<1>. QED BY <1>2, <1>3

LEMMA ContractFlush ==
  ASSUME PushInv, ForwardFlushStart \/ FlushStop
  PROVE  Contract!Silence \/ UNCHANGED Contract!vars
<1>1. UNCHANGED <<accepted, current_seqnum, parse_stage>>
  BY DEF ForwardFlushStart, FlushStop, seek_vars, segment_vars
<1>2. CASE downstream' = Silent
  BY <1>1, <1>2 DEF Contract!Silence, Contract!Nothing, Contract!None, Silent, NoSeqnum, NoIndex
<1>3. CASE downstream' = downstream
  BY <1>1, <1>3, ContractUnchanged
<1>4. CASE ForwardFlushStart
  <2>1. /\ downstream'.seqnum = downstream.seqnum /\ downstream'.first = downstream.first
        /\ downstream'.next = downstream.next /\ downstream'.eos = downstream.eos
    BY <1>4 DEF ForwardFlushStart, PushInv, PartiesTyped
  <2>. QED BY <1>1, <2>1, ContractUnchanged
<1>. QED BY <1>2, <1>3, <1>4 DEF FlushStop, ForwardFlushStop

LEMMA ContractPrepareSeek ==
  ASSUME PushInv, Undisturbed, NEW t \in Seekers, NEW format \in {"BYTES", "TIME"},
         NEW value \in SeekValues, NEW accurate \in BOOLEAN, PrepareSeek(t, format, value, accurate)
  PROVE  Contract!Ask \/ UNCHANGED Contract!vars
<1>1. UNCHANGED <<current_seqnum, downstream>>
  BY DEF PrepareSeek, segment_vars
<1>2. /\ seeker[t].place = "checked" /\ seeker[t].seqnum \in 1 .. MaxSeeks
      /\ \/ UNCHANGED <<parse_stage, accepted>>
         \/ /\ parse_stage = "Streaming" /\ parse_stage' = "AwaitingSegment"
            /\ accepted' = seeker[t].seqnum
  BY PrepareSeekEffect
<1>3. seeker[t].seqnum > accepted
  BY <1>2 DEF PushInv, SegmentInv
<1>4. CASE UNCHANGED <<parse_stage, accepted>>
  BY <1>1, <1>4, ContractUnchanged
<1>5. CASE /\ parse_stage = "Streaming" /\ parse_stage' = "AwaitingSegment"
           /\ accepted' = seeker[t].seqnum
  <2>1. /\ seeker[t].seqnum \in 1 .. MaxSeeks /\ seeker[t].seqnum # NoSeqnum
        /\ seeker[t].seqnum # InternalSeqnum /\ seeker[t].seqnum # accepted
    <3>1. accepted \in Int
      BY SizesAssumption DEF PushInv, PartiesTyped, NoSeqnum
    <3>. QED BY <1>2, <1>3, <3>1 DEF NoSeqnum, InternalSeqnum
  <2>. QED BY <1>1, <1>5, <2>1 DEF Contract!Ask, Contract!Seeks
<1>. QED BY <1>2, <1>4, <1>5

LEMMA ContractHandleSinkSegment ==
  ASSUME PushInv, Undisturbed, HandleSinkSegment
  PROVE  Contract!Fail \/ UNCHANGED Contract!vars
<1>1. parse_stage # "Streaming"
  BY DEF HandleSinkSegment, PushInv, StreamInv
<1>2. /\ UNCHANGED <<accepted, current_seqnum, downstream>>
      /\ parse_stage' = parse_stage \/ parse_stage' = "StreamFailure"
  BY <1>1 DEF HandleSinkSegment, DeviatedSegment, AwaitedSegment, StreamFailed
<1>. QED BY <1>2, ContractFail

LEMMA ContractOtherSteps ==
  ASSUME PushInv,
         \/ ScanningFinished \/ InternalSeekReturns \/ EnterChain \/ StartIteration \/ Dispatch \/ Produce
         \/ (\E n \in BufferSizes : AcceptBuffer(n)) \/ PushFlushed \/ ResumeStreaming \/ AdoptOwnSegment
         \/ FlushStart \/ ExternalFlush \/ \E t \in Seekers : CheckSeek(t) \/ PushSeek(t)
  PROVE  \/ Contract!Fail \/ UNCHANGED Contract!vars
         \/ ResumeStreaming /\ parse_stage = "StreamFailure"
<1>1. UNCHANGED <<accepted, current_seqnum, downstream>>
  BY DEF ScanningFinished, InternalSeekReturns, EnterChain, StartIteration, Dispatch, Produce, AcceptBuffer,
     PushFlushed, ResumeStreaming, AdoptOwnSegment, FlushStart, ExternalFlush, CheckSeek, PushSeek,
     seek_vars, segment_vars
<1>2. \/ parse_stage' = parse_stage \/ parse_stage' = "StreamFailure"
      \/ parse_stage = "ScanningInfo" /\ parse_stage' = "AwaitingSegment"
      \/ ResumeStreaming /\ parse_stage' = "Streaming"
  BY DEF ScanningFinished, InternalSeekReturns, EnterChain, StartIteration, Dispatch, Produce, AcceptBuffer,
     PushFlushed, ResumeStreaming, AdoptOwnSegment, FlushStart, ExternalFlush, CheckSeek, PushSeek,
     StreamFailed, PushInv, InternalSeekInv
<1>. QED BY <1>1, <1>2, ContractFail

LEMMA ContractStep ==
  ASSUME PushInv, Undisturbed, [Next]_vars
  PROVE  [Contract!Next]_(Contract!vars)
<1>1. ~(ResumeStreaming /\ parse_stage = "StreamFailure")
  BY DEF ResumeStreaming, PushInv, StreamInv
<1>2. CASE \/ ScanningFinished \/ InternalSeekReturns \/ EnterChain \/ StartIteration \/ Dispatch \/ Produce
           \/ (\E n \in BufferSizes : AcceptBuffer(n)) \/ PushFlushed \/ ResumeStreaming \/ AdoptOwnSegment
           \/ FlushStart \/ ExternalFlush \/ \E t \in Seekers : CheckSeek(t) \/ PushSeek(t)
  BY <1>1, <1>2, ContractOtherSteps DEF Contract!Next
<1>3. CASE AdoptSegment
  BY <1>3, ContractAdoptSegment DEF Contract!Next
<1>4. CASE AnnounceSegment
  BY <1>4, ContractAnnounceSegment
<1>5. CASE PushAccepted
  BY <1>5, ContractPushAccepted DEF Contract!Next
<1>6. CASE SendEos
  BY <1>6, ContractSendEos DEF Next, Upstream
<1>7. CASE ForwardFlushStart \/ FlushStop
  BY <1>7, ContractFlush DEF Contract!Next
<1>8. CASE HandleSinkSegment
  BY <1>8, ContractHandleSinkSegment DEF Contract!Next
<1>9. CASE \E t \in Seekers, format \in {"BYTES", "TIME"}, value \in SeekValues, accurate \in BOOLEAN :
             PrepareSeek(t, format, value, accurate)
  BY <1>9, ContractPrepareSeek DEF Contract!Next
<1>10. CASE UNCHANGED vars
  BY <1>10, ContractUnchanged DEF vars, seek_vars, segment_vars
<1>11. CASE Next
  BY <1>2, <1>3, <1>4, <1>5, <1>6, <1>7, <1>8, <1>9, <1>11 DEF Next, Element, Upstream, Job, Seek
<1>. QED BY <1>10, <1>11

\* The safety half of ImplementsSeekContract, as for pull mode: downstream hears a segment first
\* and that of the seek accepted last, the buffers of a segment without a gap, and an end only
\* after all of them.
THEOREM KeepsSeekContract ==
  ASSUME Undisturbed PROVE Spec => Contract!Init /\ [][Contract!Next]_(Contract!vars)
<1>1. PushInv /\ [Next]_vars => [Contract!Next]_(Contract!vars)
  BY ContractStep
<1>. QED BY PushInvHolds, InitContract, <1>1, PTL DEF Spec

===============================================================================
