---------------------------- MODULE PlaybackProofs ----------------------------
(***************************************************************************)
(* In pull mode downstream plays what the segment says: for any payload,   *)
(* block size, number of channels, seeking threads, seeks and flushes.     *)
(* First come the facts about the index conversions, which round; then     *)
(* every action keeps PlaybackInv; then what follows from it.              *)
(***************************************************************************)
EXTENDS PlaybackInvariant, DsdMediaPullProofs, FiniteSetTheorems

-------------------------------------------------------------------------------
(***************************************************************************)
(* Index conversions.                                                      *)
(***************************************************************************)

LEMMA DivBounds ==
  ASSUME NEW a \in Nat, NEW b \in Nat \ {0}
  PROVE  a \div b \in Nat /\ b * (a \div b) <= a /\ a < b * (a \div b) + b
OBVIOUS

LEMMA DivAtLeast ==
  ASSUME NEW a \in Nat, NEW b \in Nat \ {0}, NEW c \in Nat
  PROVE  c <= a \div b <=> c * b <= a
BY DivBounds

LEMMA DivMonotone ==
  ASSUME NEW a \in Nat, NEW b \in Nat \ {0}, NEW c \in Nat, a <= c
  PROVE  a \div b <= c \div b
<1>1. a \div b \in Nat /\ c \div b \in Nat
  BY DivBounds
<1>2. (a \div b) * b <= a
  BY <1>1, DivAtLeast
<1>3. (a \div b) * b <= c
  BY <1>1, <1>2
<1>. QED BY <1>1, <1>3, DivAtLeast

LEMMA BlockOffset ==
  ASSUME NEW b \in Nat \ {0}, NEW c \in Nat, NEW k \in 0 .. b - 1
  PROVE  (c * b + k) % b = k
OBVIOUS

LEMMA ProductMonotone ==
  ASSUME NEW a \in Nat, NEW b \in Nat, NEW c \in Nat, a <= b
  PROVE  a * c \in Nat /\ a * c <= b * c
OBVIOUS

\* A payload has a block group and a duration, and is what PayloadsAssumption says of it.
LEMMA PayloadSizes ==
  ASSUME payload \in Payloads
  PROVE  /\ payload.size \in Nat /\ payload.actual \in Nat \ {0}
         /\ Alignment \in Nat \ {0}
         /\ TotalNumIndices \in Nat \ {0} /\ Duration \in Nat \ {0}
         /\ EndOfPayload \in Nat /\ PayloadPosition \in Nat /\ PayloadPosition <= EndOfPayload
         /\ WholeGroups = payload.size \div Alignment
         /\ WholeGroups \in 0 .. TotalNumIndices
<1>1. payload.size \in Nat /\ payload.actual \in Nat \ {0} /\ payload.truncated \in BOOLEAN
  BY SizesAssumption
<1>2. Alignment \in Nat \ {0}
  BY SizesAssumption DEF Alignment
<1>3. TotalNumIndices \in Nat \ {0}
  <2>1. payload.actual + BlockSize - 1 \in Nat /\ 1 * BlockSize <= payload.actual + BlockSize - 1
    BY <1>1, SizesAssumption
  <2>2. 1 <= TotalNumIndices
    BY <2>1, DivAtLeast, SizesAssumption DEF TotalNumIndices
  <2>3. TotalNumIndices \in Nat
    BY <2>1, DivBounds, SizesAssumption DEF TotalNumIndices
  <2>. QED BY <2>2, <2>3
<1>4. Duration \in Nat \ {0}
  <2>1. payload.actual * Second \in Nat /\ 1 <= payload.actual * Second
    BY <1>1, SizesAssumption
  <2>2. payload.actual * Second + SampleRate - 1 \in Nat /\ 1 * SampleRate <= payload.actual * Second + SampleRate - 1
    BY <2>1, SizesAssumption
  <2>3. 1 <= Duration
    BY <2>2, DivAtLeast, SizesAssumption DEF Duration
  <2>4. Duration \in Nat
    BY <2>2, DivBounds, SizesAssumption DEF Duration
  <2>. QED BY <2>3, <2>4
<1>5. payload.size \div Alignment \in Nat
  BY <1>1, <1>2, DivBounds
<1>6. payload.size \div Alignment <= TotalNumIndices
  BY PayloadsAssumption DEF Alignment, TotalNumIndices
<1>. QED BY <1>1, <1>2, <1>3, <1>4, <1>5, <1>6, SizesAssumption DEF EndOfPayload, WholeGroups, Least

LEMMA TimeOfTyped ==
  ASSUME payload \in Payloads, NEW i \in Nat
  PROVE  TimeOf(i) \in 0 .. Duration
<1>1. i * Duration \in Nat
  BY PayloadSizes
<1>2. (i * Duration) \div TotalNumIndices \in Nat
  BY <1>1, PayloadSizes, DivBounds
<1>. QED BY <1>2, PayloadSizes DEF TimeOf, Least

LEMMA TimeOfZero == ASSUME payload \in Payloads PROVE TimeOf(0) = 0
<1>1. 0 * Duration = 0
  BY PayloadSizes
<1>2. 0 \div TotalNumIndices = 0
  BY PayloadSizes
<1>. QED BY <1>1, <1>2, PayloadSizes DEF TimeOf, Least

LEMMA TimeOfMonotone ==
  ASSUME payload \in Payloads, NEW i \in Nat, NEW j \in Nat, i <= j
  PROVE  TimeOf(i) <= TimeOf(j)
<1>1. i * Duration \in Nat /\ j * Duration \in Nat /\ i * Duration <= j * Duration
  BY PayloadSizes, ProductMonotone
<1>2. (i * Duration) \div TotalNumIndices <= (j * Duration) \div TotalNumIndices
  BY <1>1, PayloadSizes, DivMonotone
<1>3. (i * Duration) \div TotalNumIndices \in Nat /\ (j * Duration) \div TotalNumIndices \in Nat
  BY <1>1, PayloadSizes, DivBounds
<1>. QED BY <1>2, <1>3, PayloadSizes DEF TimeOf, Least

\* The time that a seek asks for lies in the block group that it is taken to.
LEMMA TimeInItsIndex ==
  ASSUME payload \in Payloads, NEW time \in 0 .. Duration
  PROVE  /\ ToIndex("TIME", time) \in 0 .. TotalNumIndices
         /\ TimeOf(ToIndex("TIME", time)) <= time
         /\ time <= TimeOf(ToIndex("TIME", time) + 1)
<1>. DEFINE total == TotalNumIndices
            index == (time * total) \div Duration
<1>0. total \in Nat \ {0} /\ Duration \in Nat \ {0} /\ time \in Nat /\ time <= Duration
  BY PayloadSizes
<1>1. time * total \in Nat /\ time * total <= total * Duration
  BY <1>0
<1>2. index \in Nat /\ index * Duration <= time * total /\ time * total < (index + 1) * Duration
  <2>1. index \in Nat
    BY <1>0, <1>1, DivBounds
  <2>2. index * Duration <= time * total
    BY <2>1, <1>0, <1>1, DivAtLeast
  <2>3. ~((index + 1) * Duration <= time * total)
    BY <2>1, <1>0, <1>1, DivAtLeast
  <2>4. (index + 1) * Duration \in Nat
    BY <2>1, <1>0
  <2>. QED BY <2>1, <2>2, <2>3, <2>4, <1>1
<1>3. index <= total
  <2>1. ~(total + 1 <= index)
    <3>1. (total + 1) * Duration > total * Duration
      BY <1>0
    <3>2. ~((total + 1) * Duration <= time * total)
      BY <3>1, <1>0, <1>1
    <3>. QED BY <3>2, <1>0, <1>1, DivAtLeast
  <2>. QED BY <2>1, <1>0, <1>2
<1>4. ToIndex("TIME", time) = index
  BY <1>0, <1>2, <1>3 DEF ToIndex, Least
<1>. HIDE DEF index, total
<1>5. TimeOf(index) <= time
  <2>1. index * Duration \in Nat /\ (index * Duration) \div total <= (time * total) \div total
    BY <1>0, <1>1, <1>2, DivMonotone
  <2>2. (time * total) \div total <= time
    <3>1. ~((time + 1) * total <= time * total)
      BY <1>0
    <3>2. (time * total) \div total \in Nat
      BY <1>0, <1>1, DivBounds
    <3>. QED BY <3>1, <3>2, <1>0, <1>1, DivAtLeast
  <2>3. (index * Duration) \div total \in Nat /\ (time * total) \div total \in Nat
    BY <2>1, <1>0, <1>1, DivBounds
  <2>. QED BY <2>1, <2>2, <2>3, <1>0 DEF TimeOf, Least, total
<1>6. time <= TimeOf(index + 1)
  <2>1. (index + 1) * Duration \in Nat
    BY <1>0, <1>2
  <2>2. time <= ((index + 1) * Duration) \div total
    BY <2>1, <1>0, <1>1, <1>2, DivAtLeast
  <2>3. ((index + 1) * Duration) \div total \in Nat
    BY <2>1, <1>0, DivBounds
  <2>. QED BY <2>2, <2>3, <1>0 DEF TimeOf, Least, total
<1>. QED BY <1>0, <1>2, <1>3, <1>4, <1>5, <1>6 DEF total

LEMMA BytesToIndex ==
  ASSUME payload \in Payloads, NEW bytes \in Nat
  PROVE  /\ ToIndex("BYTES", bytes) \in 0 .. TotalNumIndices
         /\ ToIndexRoundingUp(bytes) \in 0 .. TotalNumIndices
         /\ \A group \in Nat : bytes < (group + 1) * Alignment => ToIndex("BYTES", bytes) <= group
         /\ \A group \in 0 .. WholeGroups - 1 :
              group * Alignment < bytes => group + 1 <= ToIndexRoundingUp(bytes)
<1>1. Alignment \in Nat \ {0} /\ TotalNumIndices \in Nat /\ WholeGroups \in Nat /\ WholeGroups <= TotalNumIndices
  BY PayloadSizes
<1>2. bytes \div Alignment \in Nat
  BY <1>1, DivBounds
<1>3. bytes + Alignment - 1 \in Nat
  BY <1>1
<1>4. (bytes + Alignment - 1) \div Alignment \in Nat
  BY <1>1, <1>3, DivBounds
<1>5. ASSUME NEW group \in Nat, bytes < (group + 1) * Alignment
      PROVE  ToIndex("BYTES", bytes) <= group
  <2>1. ~(group + 1 <= bytes \div Alignment)
    BY <1>1, <1>5, DivAtLeast
  <2>. QED BY <2>1, <1>1, <1>2 DEF ToIndex, Least
<1>6. ASSUME NEW group \in 0 .. WholeGroups - 1, group * Alignment < bytes
      PROVE  group + 1 <= ToIndexRoundingUp(bytes)
  <2>1. group \in Nat /\ group + 1 \in Nat /\ group + 1 <= TotalNumIndices
    BY <1>1
  <2>2. (group + 1) * Alignment <= bytes + Alignment - 1
    BY <1>1, <1>6, <2>1
  <2>3. group + 1 <= (bytes + Alignment - 1) \div Alignment
    BY <1>1, <1>3, <2>1, <2>2, DivAtLeast
  <2>. QED BY <2>1, <2>3, <1>1, <1>4 DEF ToIndexRoundingUp, Least
<1>7. ToIndex("BYTES", bytes) \in 0 .. TotalNumIndices
  BY <1>1, <1>2 DEF ToIndex, Least
<1>8. ToIndexRoundingUp(bytes) \in 0 .. TotalNumIndices
  BY <1>1, <1>4 DEF ToIndexRoundingUp, Least
<1>. QED BY <1>5, <1>6, <1>7, <1>8

\* A position of the payload and its index.
LEMMA BytesOfIndex ==
  ASSUME payload \in Payloads, NEW i \in Nat
  PROVE  /\ BytesOf(i) \in 0 .. payload.size
         /\ payload.size - BytesOf(i) >= Alignment =>
              /\ BytesOf(i) = i * Alignment
              /\ BytesOf(i + 1) = BytesOf(i) + Alignment
              /\ i + 1 <= WholeGroups
         /\ payload.size - BytesOf(i) < Alignment => WholeGroups <= i
<1>1. Alignment \in Nat \ {0} /\ payload.size \in Nat /\ WholeGroups = payload.size \div Alignment /\ WholeGroups \in Nat
  BY PayloadSizes
<1>2. i * Alignment \in Nat /\ (i + 1) * Alignment = i * Alignment + Alignment
  BY <1>1
<1>3. BytesOf(i) \in 0 .. payload.size
  BY <1>1, <1>2 DEF BytesOf, Least
<1>4. ASSUME payload.size - BytesOf(i) >= Alignment
      PROVE  /\ BytesOf(i) = i * Alignment
             /\ BytesOf(i + 1) = BytesOf(i) + Alignment
             /\ i + 1 <= WholeGroups
  <2>1. BytesOf(i) = i * Alignment
    BY <1>1, <1>2, <1>4 DEF BytesOf, Least
  <2>2. (i + 1) * Alignment <= payload.size
    BY <1>1, <1>2, <1>4, <2>1
  <2>3. BytesOf(i + 1) = (i + 1) * Alignment
    BY <1>1, <1>2, <2>2 DEF BytesOf, Least
  <2>4. i + 1 <= WholeGroups
    BY <1>1, <2>2, DivAtLeast
  <2>. QED BY <1>2, <2>1, <2>3, <2>4
<1>5. ASSUME payload.size - BytesOf(i) < Alignment PROVE WholeGroups <= i
  <2>1. ~((i + 1) * Alignment <= payload.size)
    BY <1>1, <1>2, <1>5 DEF BytesOf, Least
  <2>2. ~(i + 1 <= WholeGroups)
    BY <1>1, <2>1, DivAtLeast
  <2>. QED BY <1>1, <2>2
<1>. QED BY <1>3, <1>4, <1>5

\* What common_seek_procedures() makes of a request.
LEMMA SeekTarget ==
  ASSUME FieldsTyped, PositionInv, pc # "scan", NEW request \in Requests
  PROVE  /\ SeekIndex(request) \in 0 .. TotalNumIndices
         /\ SegmentStart(request) \in 0 .. Duration
         /\ SegmentStop(request) \in NoStop .. Duration
         /\ TimeOf(SeekIndex(request)) <= SegmentStart(request)
         /\ SegmentStart(request) <= TimeOf(SeekIndex(request) + 1)
<1>1. payload \in Payloads /\ segment.position \in 0 .. Duration /\ segment.stop \in NoStop .. Duration
  BY DEF FieldsTyped, PositionInv
<1>2. Duration \in Nat \ {0} /\ TotalNumIndices \in Nat \ {0} /\ payload.size \in Nat
  BY <1>1, PayloadSizes
<1>3. /\ request.format \in {"BYTES", "TIME"} /\ request.accurate \in BOOLEAN
      /\ request.start = Here \/ request.start \in Nat
      /\ request.stop = KeepStop \/ request.stop = NoStop \/ request.stop \in Nat
  BY SizesAssumption DEF Requests
<1>4. \A value \in Nat : /\ Clamped("TIME", value) \in 0 .. Duration
                         /\ Clamped("BYTES", value) \in Nat
  BY <1>2 DEF Clamped, Least
<1>5. /\ SeekIndex(request) \in 0 .. TotalNumIndices
      /\ SegmentStart(request) \in 0 .. Duration
      /\ TimeOf(SeekIndex(request)) <= SegmentStart(request)
      /\ SegmentStart(request) <= TimeOf(SeekIndex(request) + 1)
  <2>1. CASE StartFormat(request) = "TIME"
    <3>1. NormalizedStart(request) \in 0 .. Duration
      BY <1>1, <1>3, <1>4, <2>1 DEF NormalizedStart, StartFormat, Here
    <3>2. SeekIndex(request) = ToIndex("TIME", NormalizedStart(request))
      BY <2>1 DEF SeekIndex
    <3>3. /\ SeekIndex(request) \in 0 .. TotalNumIndices
          /\ TimeOf(SeekIndex(request)) <= NormalizedStart(request)
          /\ NormalizedStart(request) <= TimeOf(SeekIndex(request) + 1)
      BY <1>1, <3>1, <3>2, TimeInItsIndex
    <3>4. TimeOf(SeekIndex(request)) \in 0 .. Duration
      BY <1>1, <3>3, TimeOfTyped
    <3>5. TimeOf(SeekIndex(request)) <= TimeOf(SeekIndex(request) + 1)
      BY <1>1, <1>2, <3>3, TimeOfMonotone
    <3>. QED BY <1>2, <3>1, <3>3, <3>4, <3>5 DEF SegmentStart
  <2>2. CASE StartFormat(request) # "TIME"
    <3>1. request.start \in Nat /\ request.format = "BYTES" /\ StartFormat(request) = "BYTES"
      BY <1>3, <2>2 DEF StartFormat
    <3>2. request.start # Here
      BY <3>1 DEF Here
    <3>3. NormalizedStart(request) \in Nat
      BY <1>4, <3>1, <3>2 DEF NormalizedStart
    <3>4. SeekIndex(request) \in 0 .. TotalNumIndices
      BY <1>1, <3>1, <3>3, BytesToIndex DEF SeekIndex
    <3>5. SegmentStart(request) = TimeOf(SeekIndex(request))
      BY <2>2 DEF SegmentStart
    <3>6. TimeOf(SeekIndex(request)) \in 0 .. Duration
      BY <1>1, <3>4, TimeOfTyped
    <3>7. TimeOf(SeekIndex(request)) <= TimeOf(SeekIndex(request) + 1)
      BY <1>1, <1>2, <3>4, TimeOfMonotone
    <3>. QED BY <1>2, <3>4, <3>5, <3>6, <3>7
  <2>. QED BY <2>1, <2>2
<1>6. SegmentStop(request) \in NoStop .. Duration
  <2>1. CASE request.stop = KeepStop
    <3>1. SegmentStop(request) = segment.stop
      BY <2>1 DEF SegmentStop, KeepStop, NoStop
    <3>. QED BY <1>1, <3>1
  <2>4. CASE request.stop = NoStop
    <3>1. SegmentStop(request) = NoStop
      BY <2>4 DEF SegmentStop, KeepStop, NoStop
    <3>. QED BY <1>2, <3>1 DEF NoStop
  <2>2. CASE request.stop \in Nat /\ request.format = "TIME"
    BY <1>2, <1>4, <2>2 DEF SegmentStop, KeepStop, NoStop
  <2>3. CASE request.stop \in Nat /\ request.format # "TIME"
    <3>1. Clamped("BYTES", request.stop) \in Nat
      BY <1>4, <2>3
    <3>2. ToIndexRoundingUp(Clamped("BYTES", request.stop)) \in 0 .. TotalNumIndices
      BY <1>1, <3>1, BytesToIndex
    <3>3. TimeOf(ToIndexRoundingUp(Clamped("BYTES", request.stop))) \in 0 .. Duration
      BY <1>1, <3>2, TimeOfTyped
    <3>. QED BY <1>2, <1>3, <2>3, <3>3 DEF SegmentStop, KeepStop, NoStop
  <2>. QED BY <1>3, <2>1, <2>2, <2>3, <2>4
<1>. QED BY <1>5, <1>6

-------------------------------------------------------------------------------
(***************************************************************************)
(* The task.                                                               *)
(***************************************************************************)

LEMMA ShowSegmentEffect ==
  ASSUME PartiesTyped, NEW seqnum, ShowSegment(seqnum)
  PROVE  /\ downstream'.seqnum = seqnum
         /\ downstream'.start = segment.start /\ downstream'.stop = segment.stop
         /\ downstream'.first = NoIndex /\ downstream'.next = NoIndex
         /\ downstream'.flushing = downstream.flushing /\ downstream'.eos = downstream.eos
BY DEF ShowSegment, PartiesTyped, Silent

LEMMA SamePayload ==
  ASSUME payload' = payload
  PROVE  /\ \A i : TimeOf(i)' = TimeOf(i) /\ BytesOf(i)' = BytesOf(i)
         /\ TotalNumIndices' = TotalNumIndices /\ Duration' = Duration
         /\ WholeGroups' = WholeGroups /\ EndOfPayload' = EndOfPayload
BY DEF TimeOf, BytesOf, TotalNumIndices, Duration, WholeGroups, EndOfPayload, Least

\* Each byte of a buffer is the sample that the index stands for.
LEMMA OutputDataInPlace ==
  ASSUME payload \in Payloads, current_index \in Nat,
         byte_position = PayloadPosition + current_index * Alignment,
         NEW channel \in 0 .. NumChannels - 1, NEW k \in 0 .. BlockSize - 1
  PROVE  OutputData[channel * BlockSize + k] =
           LET sample == current_index * BlockSize + k
           IN  IF sample < payload.actual
               THEN PayloadPosition + current_index * Alignment + channel * BlockSize + k
               ELSE Silence
<1>1. /\ NumChannels \in Nat \ {0} /\ BlockSize \in Nat \ {0} /\ PayloadPosition \in Nat
      /\ payload.actual \in Nat /\ channel \in Nat /\ k \in Nat
  BY SizesAssumption, PayloadSizes
<1>2. (channel + 1) * BlockSize <= NumChannels * BlockSize
  BY <1>1, ProductMonotone
<1>3. channel * BlockSize + k \in 0 .. Alignment - 1
  BY <1>1, <1>2 DEF Alignment
<1>4. (channel * BlockSize + k) % BlockSize = k
  BY <1>1, BlockOffset
<1>5. current_index * BlockSize \in Nat
  BY <1>1
<1>6. k < NumValidBlockBytes <=> current_index * BlockSize + k < payload.actual
  BY <1>1, <1>5 DEF NumValidBlockBytes, Least
<1>7. byte_position + (channel * BlockSize + k)
        = PayloadPosition + current_index * Alignment + channel * BlockSize + k
  <2>1. channel * BlockSize \in Nat /\ current_index * Alignment \in Nat
    BY <1>1, PayloadSizes
  <2>. QED BY <1>1, <2>1
<1>. QED BY <1>3, <1>4, <1>6, <1>7 DEF OutputData

\* The task has the stream lock, or takes it from nobody: no thread moves the fields meanwhile.
LEMMA TaskMovesAlone ==
  ASSUME PlaybackInv, Task \/ PushAccepted \/ PushEnded
  PROVE  /\ UNCHANGED <<payload, seek_vars, flush_vars, flushing>>
         /\ stream_lock' \in {"task", Nobody}
         /\ \A t \in Seekers : ~(/\ seeker[t].moved
                                 /\ seeker[t].place \in {"stop_up", "stop_down", "segment", "restart"})
         /\ MovingInv' /\ SeqnumInv'
<1>1. UNCHANGED <<payload, seek_vars, flush_vars, flushing>>
  BY DEF Task, ScanningFinished, StartStreaming, ResumeTask, YieldLock, StartIteration, ProduceOutput,
         PullFlushed, ReachEos, PushFlushed, PushAccepted, PushEnded, seek_vars, flush_vars
<1>2. stream_lock \in {"task", Nobody} /\ stream_lock' \in {"task", Nobody}
  BY DEF Task, ScanningFinished, StartStreaming, ResumeTask, YieldLock, StartIteration, ProduceOutput,
         PullFlushed, ReachEos, PushFlushed, PushAccepted, PushEnded, PauseLoop, TaskUnchanged,
         PlaybackInv, PullInv, LockOwned
<1>3. \A t \in Seekers : ~(/\ seeker[t].moved
                           /\ seeker[t].place \in {"stop_up", "stop_down", "segment", "restart"})
  BY <1>2, SeekersAssumption DEF PlaybackInv, MovingInv, Nobody
<1>4. MovingInv'
  BY <1>1, <1>3 DEF PlaybackInv, MovingInv, Moving, At, seek_vars
<1>5. SeqnumInv'
  BY <1>1 DEF PlaybackInv, SeqnumInv, At, seek_vars
<1>. QED BY <1>1, <1>2, <1>3, <1>4, <1>5

LEMMA ScanningFinishedKeepsPlaybackInv == ASSUME PlaybackInv, ScanningFinished PROVE PlaybackInv'
<1>. USE DEF PlaybackInv
<1>0. PullInv' /\ MovingInv' /\ SeqnumInv'
  BY TaskKeepsInv, TaskMovesAlone DEF Task
<1>1. /\ UNCHANGED <<payload, seeker, flusher, num_seeks, num_flushes, accepted, flushing>>
      /\ payload \in Payloads
      /\ stream_lock' \in {"task", Nobody}
      /\ \A t \in Seekers : ~Moving(t)
  BY TaskMovesAlone DEF Task, seek_vars, flush_vars, Moving, FieldsTyped
<1>2. /\ Duration \in Nat \ {0} /\ WholeGroups \in Nat /\ WholeGroups <= TotalNumIndices
      /\ TotalNumIndices \in Nat /\ current_index \in Nat
  BY <1>1, PayloadSizes DEF PositionInv
<1>3. FieldsTyped'
  <2>1. segment' \in [start : -1 .. Duration, position : -1 .. Duration, stop : NoStop .. Duration]
    BY <1>2 DEF ScanningFinished, NoStop
  <2>. QED BY <1>1, <2>1, SamePayload DEF ScanningFinished, TaskUnchanged, FieldsTyped
<1>4. HeardTyped'
  BY <1>1, SamePayload DEF ScanningFinished, TaskUnchanged, stream_vars, peer_vars, HeardTyped, PartiesTyped, Silent, FieldsTyped
<1>5. PositionInv'
  <2>1. current_index = 0 /\ accepted = FirstSeqnum
    BY DEF ScanningFinished, StartInv
  <2>2. BytesOf(0) = 0
    BY <1>1, PayloadSizes DEF BytesOf, Least
  <2>3. TimeOf(1) \in 0 .. Duration
    BY <1>1, TimeOfTyped
  <2>4. 0 <= TimeOf(current_index + 1)
    BY <2>1, <2>3, <1>2
  <2>5. PayloadPosition \in PayloadPosition .. EndOfPayload
    BY <1>1, PayloadSizes
  <2>. QED BY <1>1, <1>2, <2>1, <2>2, <2>4, <2>5, SizesAssumption, SamePayload DEF ScanningFinished, PositionInv
<1>6. StartInv'
  BY <1>1, SamePayload DEF ScanningFinished, TaskUnchanged, stream_vars, peer_vars, StartInv, PartiesTyped, Silent
<1>7. OutputInv'
  BY <1>1, SamePayload DEF ScanningFinished, TaskUnchanged, stream_vars, peer_vars, OutputInv, SamplesInPlace
<1>8. HeardInv'
  BY <1>1 DEF ScanningFinished, peer_vars, HeardInv, StartInv
<1>9. SegmentInv'
  BY <1>1, SamePayload DEF ScanningFinished, TaskUnchanged, stream_vars, peer_vars, SegmentInv, Moving, At, PartiesTyped, Silent
<1>. QED BY <1>0, <1>3, <1>4, <1>5, <1>6, <1>7, <1>8, <1>9

LEMMA StartStreamingKeepsPlaybackInv == ASSUME PlaybackInv, StartStreaming PROVE PlaybackInv'
<1>. USE DEF PlaybackInv
<1>0. PullInv' /\ MovingInv' /\ SeqnumInv'
  BY TaskKeepsInv, TaskMovesAlone DEF Task
<1>1. /\ UNCHANGED <<payload, seeker, flusher, num_seeks, num_flushes, accepted, flushing>>
      /\ payload \in Payloads
      /\ stream_lock' \in {"task", Nobody}
      /\ \A t \in Seekers : ~Moving(t)
  BY TaskMovesAlone DEF Task, seek_vars, flush_vars, Moving, FieldsTyped
<1>2. /\ Duration \in Nat \ {0} /\ WholeGroups \in Nat /\ WholeGroups <= TotalNumIndices
      /\ TotalNumIndices \in Nat /\ current_index \in Nat
  BY <1>1, PayloadSizes DEF PositionInv
<1>3. FieldsTyped'
  BY <1>1, SamePayload DEF StartStreaming, ShowSegment, PauseLoop, TaskUnchanged, stream_vars, peer_vars, FieldsTyped
<1>4. HeardTyped'
  <2>1. CASE ShowSegment(current_seqnum)
    <3>1. current_seqnum \in Int /\ segment.start \in Int /\ segment.stop \in NoStop .. Duration
      BY DEF StartStreaming, PositionInv, SeqnumInv, FieldsTyped
    <3>. QED BY <1>1, <2>1, <3>1, ShowSegmentEffect, SamePayload DEF PullInv, HeardTyped
  <2>2. CASE downstream' = downstream
    BY <1>1, <2>2, SamePayload DEF HeardTyped
  <2>. QED BY <2>1, <2>2 DEF StartStreaming
<1>5. PositionInv'
  BY <1>1, SamePayload DEF StartStreaming, ShowSegment, PauseLoop, TaskUnchanged, stream_vars, peer_vars, PositionInv, FieldsTyped
<1>6. StartInv'
  BY <1>1, SamePayload DEF StartStreaming, ShowSegment, PauseLoop, TaskUnchanged, stream_vars, peer_vars, StartInv, PartiesTyped, Silent
<1>7. OutputInv'
  BY <1>1, SamePayload DEF StartStreaming, ShowSegment, PauseLoop, TaskUnchanged, stream_vars, peer_vars, OutputInv, SamplesInPlace
<1>8. HeardInv'
  <2>1. CASE ShowSegment(current_seqnum) /\ pc' = "top"
    <3>1. current_index' = 0 /\ segment' = segment /\ segment.start = 0 /\ next_buffer_is_discont'
      BY DEF StartStreaming, StartInv, stream_vars
    <3>2. TimeOf(0) = 0 /\ 0 <= TimeOf(0 + 1)
      BY <1>1, <1>2, TimeOfZero, TimeOfTyped
    <3>3. Begins(current_index)'
      BY <1>1, <2>1, <3>1, <3>2, ShowSegmentEffect, SamePayload DEF Begins, PullInv
    <3>. QED BY <1>1, <2>1, <3>1, <3>3, ShowSegmentEffect DEF PullInv, HeardInv, InStep
  <2>2. CASE downstream' = downstream /\ downstream.flushing
    BY <2>2 DEF HeardInv
  <2>. QED BY <2>1, <2>2 DEF StartStreaming
<1>9. SegmentInv'
  <2>1. CASE ShowSegment(current_seqnum)
    <3>1. current_seqnum # NoSeqnum
      BY DEF StartStreaming, PositionInv, SeqnumInv, NoSeqnum
    <3>. QED BY <1>1, <2>1, <3>1, ShowSegmentEffect DEF PullInv, SegmentInv, At
  <2>2. CASE downstream' = downstream /\ downstream.flushing
    BY <1>1, <2>2 DEF SegmentInv, At
  <2>. QED BY <2>1, <2>2 DEF StartStreaming
<1>. QED BY <1>0, <1>3, <1>4, <1>5, <1>6, <1>7, <1>8, <1>9

LEMMA ResumeTaskKeepsPlaybackInv == ASSUME PlaybackInv, ResumeTask PROVE PlaybackInv'
<1>. USE DEF PlaybackInv
<1>0. PullInv' /\ MovingInv' /\ SeqnumInv'
  BY TaskKeepsInv, TaskMovesAlone DEF Task
<1>1. /\ UNCHANGED <<payload, seeker, flusher, num_seeks, num_flushes, accepted, flushing>>
      /\ payload \in Payloads
      /\ stream_lock' \in {"task", Nobody}
      /\ \A t \in Seekers : ~Moving(t)
  BY TaskMovesAlone DEF Task, seek_vars, flush_vars, Moving, FieldsTyped
<1>2. /\ Duration \in Nat \ {0} /\ WholeGroups \in Nat /\ WholeGroups <= TotalNumIndices
      /\ TotalNumIndices \in Nat /\ current_index \in Nat
  BY <1>1, PayloadSizes DEF PositionInv
<1>3. FieldsTyped'
  BY <1>1, SamePayload DEF ResumeTask, stream_vars, peer_vars, FieldsTyped
<1>4. HeardTyped'
  BY <1>1, SamePayload DEF ResumeTask, stream_vars, peer_vars, HeardTyped, PartiesTyped, Silent, FieldsTyped
<1>5. PositionInv'
  BY <1>1, SamePayload DEF ResumeTask, stream_vars, peer_vars, PositionInv, FieldsTyped
<1>6. StartInv'
  BY <1>1, SamePayload DEF ResumeTask, stream_vars, peer_vars, StartInv, PartiesTyped, Silent
<1>7. OutputInv'
  BY <1>1, SamePayload DEF ResumeTask, stream_vars, peer_vars, OutputInv, SamplesInPlace
<1>8. HeardInv'
  BY <1>1, SamePayload DEF ResumeTask, stream_vars, peer_vars, HeardInv, InStep, Begins, Moving, PartiesTyped, Silent
<1>9. SegmentInv'
  BY <1>1, SamePayload DEF ResumeTask, stream_vars, peer_vars, SegmentInv, Moving, At, PartiesTyped, Silent
<1>. QED BY <1>0, <1>3, <1>4, <1>5, <1>6, <1>7, <1>8, <1>9

LEMMA YieldLockKeepsPlaybackInv == ASSUME PlaybackInv, YieldLock PROVE PlaybackInv'
<1>. USE DEF PlaybackInv
<1>0. PullInv' /\ MovingInv' /\ SeqnumInv'
  BY TaskKeepsInv, TaskMovesAlone DEF Task
<1>1. /\ UNCHANGED <<payload, seeker, flusher, num_seeks, num_flushes, accepted, flushing>>
      /\ payload \in Payloads
      /\ stream_lock' \in {"task", Nobody}
      /\ \A t \in Seekers : ~Moving(t)
  BY TaskMovesAlone DEF Task, seek_vars, flush_vars, Moving, FieldsTyped
<1>2. /\ Duration \in Nat \ {0} /\ WholeGroups \in Nat /\ WholeGroups <= TotalNumIndices
      /\ TotalNumIndices \in Nat /\ current_index \in Nat
  BY <1>1, PayloadSizes DEF PositionInv
<1>3. FieldsTyped'
  BY <1>1, SamePayload DEF YieldLock, stream_vars, peer_vars, FieldsTyped
<1>4. HeardTyped'
  BY <1>1, SamePayload DEF YieldLock, stream_vars, peer_vars, HeardTyped, PartiesTyped, Silent, FieldsTyped
<1>5. PositionInv'
  BY <1>1, SamePayload DEF YieldLock, stream_vars, peer_vars, PositionInv, FieldsTyped
<1>6. StartInv'
  BY <1>1, SamePayload DEF YieldLock, stream_vars, peer_vars, StartInv, PartiesTyped, Silent
<1>7. OutputInv'
  BY <1>1, SamePayload DEF YieldLock, stream_vars, peer_vars, OutputInv, SamplesInPlace
<1>8. HeardInv'
  BY <1>1, SamePayload DEF YieldLock, stream_vars, peer_vars, HeardInv, InStep, Begins, Moving, PartiesTyped, Silent
<1>9. SegmentInv'
  BY <1>1, SamePayload DEF YieldLock, stream_vars, peer_vars, SegmentInv, Moving, At, PartiesTyped, Silent
<1>. QED BY <1>0, <1>3, <1>4, <1>5, <1>6, <1>7, <1>8, <1>9

LEMMA StartIterationKeepsPlaybackInv == ASSUME PlaybackInv, StartIteration PROVE PlaybackInv'
<1>. USE DEF PlaybackInv
<1>0. PullInv' /\ MovingInv' /\ SeqnumInv'
  BY TaskKeepsInv, TaskMovesAlone DEF Task
<1>1. /\ UNCHANGED <<payload, seeker, flusher, num_seeks, num_flushes, accepted, flushing>>
      /\ payload \in Payloads
      /\ stream_lock' \in {"task", Nobody}
      /\ \A t \in Seekers : ~Moving(t)
  BY TaskMovesAlone DEF Task, seek_vars, flush_vars, Moving, FieldsTyped
<1>2. /\ Duration \in Nat \ {0} /\ WholeGroups \in Nat /\ WholeGroups <= TotalNumIndices
      /\ TotalNumIndices \in Nat /\ current_index \in Nat
  BY <1>1, PayloadSizes DEF PositionInv
<1>3. FieldsTyped'
  BY <1>1, SamePayload DEF StartIteration, PauseLoop, TaskUnchanged, stream_vars, peer_vars, FieldsTyped
<1>4. HeardTyped'
  BY <1>1, SamePayload DEF StartIteration, PauseLoop, TaskUnchanged, stream_vars, peer_vars, HeardTyped, PartiesTyped, Silent, FieldsTyped
<1>5. PositionInv'
  BY <1>1, SamePayload DEF StartIteration, PauseLoop, TaskUnchanged, stream_vars, peer_vars, PositionInv, FieldsTyped
<1>6. StartInv'
  BY <1>1, SamePayload DEF StartIteration, PauseLoop, TaskUnchanged, stream_vars, peer_vars, StartInv, PartiesTyped, Silent
<1>7. OutputInv'
  BY <1>1, SamePayload DEF StartIteration, PauseLoop, TaskUnchanged, stream_vars, peer_vars, OutputInv, SamplesInPlace
<1>8. HeardInv'
  BY <1>1, SamePayload DEF StartIteration, PauseLoop, TaskUnchanged, stream_vars, peer_vars, HeardInv, InStep, Begins, Moving, PartiesTyped, Silent
<1>9. SegmentInv'
  BY <1>1, SamePayload DEF StartIteration, PauseLoop, TaskUnchanged, stream_vars, peer_vars, SegmentInv, Moving, At, PartiesTyped, Silent
<1>. QED BY <1>0, <1>3, <1>4, <1>5, <1>6, <1>7, <1>8, <1>9

LEMMA ProduceOutputKeepsPlaybackInv == ASSUME PlaybackInv, ProduceOutput PROVE PlaybackInv'
<1>. USE DEF PlaybackInv
<1>0. PullInv' /\ MovingInv' /\ SeqnumInv'
  BY TaskKeepsInv, TaskMovesAlone DEF Task
<1>1. /\ UNCHANGED <<payload, seeker, flusher, num_seeks, num_flushes, accepted, flushing>>
      /\ payload \in Payloads
      /\ stream_lock' \in {"task", Nobody}
      /\ \A t \in Seekers : ~Moving(t)
  BY TaskMovesAlone DEF Task, seek_vars, flush_vars, Moving, FieldsTyped
<1>2. /\ Duration \in Nat \ {0} /\ WholeGroups \in Nat /\ WholeGroups <= TotalNumIndices
      /\ TotalNumIndices \in Nat /\ current_index \in Nat
  BY <1>1, PayloadSizes DEF PositionInv
<1>3. FieldsTyped'
  <2>1. TimeOf(current_index + 1) \in 0 .. Duration
    BY <1>1, <1>2, TimeOfTyped
  <2>2. segment' \in [start : -1 .. Duration, position : -1 .. Duration, stop : NoStop .. Duration]
    BY <1>2, <2>1 DEF ProduceOutput, FieldsTyped
  <2>. QED BY <1>1, <2>2, SamePayload DEF ProduceOutput, TaskUnchanged, FieldsTyped
<1>4. HeardTyped'
  BY <1>1, SamePayload DEF ProduceOutput, TaskUnchanged, stream_vars, peer_vars, HeardTyped, PartiesTyped, Silent, FieldsTyped
<1>5. PositionInv'
  <2>1. /\ pc = "produce" /\ byte_position = PayloadPosition + BytesOf(current_index)
        /\ EndOfPayload - byte_position >= Alignment
    BY DEF ProduceOutput, PositionInv, NumAvailablePayloadBytes
  <2>2. BytesOf(current_index) \in Nat /\ payload.size - BytesOf(current_index) >= Alignment
    BY <1>1, <1>2, <2>1, BytesOfIndex, PayloadSizes DEF EndOfPayload
  <2>3. /\ byte_position' = PayloadPosition + BytesOf(current_index + 1)
        /\ current_index + 1 <= TotalNumIndices
        /\ byte_position' \in PayloadPosition .. EndOfPayload
    BY <1>1, <1>2, <2>1, <2>2, BytesOfIndex, PayloadSizes DEF ProduceOutput, EndOfPayload
  <2>4. /\ TimeOf(current_index + 1) \in 0 .. Duration
        /\ TimeOf(current_index + 1) <= TimeOf(current_index + 1 + 1)
        /\ TimeOf(current_index + 1 + 1) \in 0 .. Duration
    BY <1>1, <1>2, TimeOfTyped, TimeOfMonotone
  <2>5. /\ segment.start \in 0 .. Duration /\ segment.start <= TimeOf(current_index + 1)
        /\ segment'.start = segment.start /\ segment'.position = TimeOf(current_index + 1)
    BY <2>1 DEF ProduceOutput, PositionInv, FieldsTyped
  <2>6. segment.start <= TimeOf(current_index + 1 + 1)
    BY <1>2, <2>4, <2>5
  <2>. QED BY <1>1, <1>2, <2>1, <2>3, <2>4, <2>5, <2>6, SamePayload DEF ProduceOutput, PositionInv
<1>6. StartInv'
  BY <1>1, SamePayload DEF ProduceOutput, TaskUnchanged, stream_vars, peer_vars, StartInv, PartiesTyped, Silent
<1>7. OutputInv'
  <2>1. /\ pc = "produce" /\ byte_position = PayloadPosition + BytesOf(current_index)
        /\ EndOfPayload - byte_position >= Alignment
    BY DEF ProduceOutput, PositionInv, NumAvailablePayloadBytes
  <2>2. BytesOf(current_index) = current_index * Alignment /\ current_index + 1 <= WholeGroups
    BY <1>1, <1>2, <2>1, BytesOfIndex, PayloadSizes DEF EndOfPayload
  <2>3. SamplesInPlace'
    BY <1>1, <1>2, <2>1, <2>2, OutputDataInPlace DEF ProduceOutput, SamplesInPlace
  <2>. QED BY <1>1, <1>2, <2>2, <2>3, SamePayload DEF ProduceOutput, OutputInv, FieldsTyped
<1>8. HeardInv'
  BY <1>1, SamePayload DEF ProduceOutput, TaskUnchanged, stream_vars, peer_vars, HeardInv, InStep, Begins, Moving, PartiesTyped, Silent
<1>9. SegmentInv'
  BY <1>1, SamePayload DEF ProduceOutput, TaskUnchanged, stream_vars, peer_vars, SegmentInv, Moving, At, PartiesTyped, Silent
<1>. QED BY <1>0, <1>3, <1>4, <1>5, <1>6, <1>7, <1>8, <1>9

LEMMA PullFlushedKeepsPlaybackInv == ASSUME PlaybackInv, PullFlushed PROVE PlaybackInv'
<1>. USE DEF PlaybackInv
<1>0. PullInv' /\ MovingInv' /\ SeqnumInv'
  BY TaskKeepsInv, TaskMovesAlone DEF Task
<1>1. /\ UNCHANGED <<payload, seeker, flusher, num_seeks, num_flushes, accepted, flushing>>
      /\ payload \in Payloads
      /\ stream_lock' \in {"task", Nobody}
      /\ \A t \in Seekers : ~Moving(t)
  BY TaskMovesAlone DEF Task, seek_vars, flush_vars, Moving, FieldsTyped
<1>2. /\ Duration \in Nat \ {0} /\ WholeGroups \in Nat /\ WholeGroups <= TotalNumIndices
      /\ TotalNumIndices \in Nat /\ current_index \in Nat
  BY <1>1, PayloadSizes DEF PositionInv
<1>3. FieldsTyped'
  BY <1>1, SamePayload DEF PullFlushed, PauseLoop, stream_vars, peer_vars, FieldsTyped
<1>4. HeardTyped'
  BY <1>1, SamePayload DEF PullFlushed, PauseLoop, stream_vars, peer_vars, HeardTyped, PartiesTyped, Silent, FieldsTyped
<1>5. PositionInv'
  BY <1>1, SamePayload DEF PullFlushed, PauseLoop, stream_vars, peer_vars, PositionInv, FieldsTyped
<1>6. StartInv'
  BY <1>1, SamePayload DEF PullFlushed, PauseLoop, stream_vars, peer_vars, StartInv, PartiesTyped, Silent
<1>7. OutputInv'
  BY <1>1, SamePayload DEF PullFlushed, PauseLoop, stream_vars, peer_vars, OutputInv, SamplesInPlace
<1>8. HeardInv'
  BY <1>1, SamePayload DEF PullFlushed, PauseLoop, stream_vars, peer_vars, HeardInv, InStep, Begins, Moving, PartiesTyped, Silent
<1>9. SegmentInv'
  BY <1>1, SamePayload DEF PullFlushed, PauseLoop, stream_vars, peer_vars, SegmentInv, Moving, At, PartiesTyped, Silent
<1>. QED BY <1>0, <1>3, <1>4, <1>5, <1>6, <1>7, <1>8, <1>9

LEMMA ReachEosKeepsPlaybackInv == ASSUME PlaybackInv, ReachEos PROVE PlaybackInv'
<1>. USE DEF PlaybackInv
<1>0. PullInv' /\ MovingInv' /\ SeqnumInv'
  BY TaskKeepsInv, TaskMovesAlone DEF Task
<1>1. /\ UNCHANGED <<payload, seeker, flusher, num_seeks, num_flushes, accepted, flushing>>
      /\ payload \in Payloads
      /\ stream_lock' \in {"task", Nobody}
      /\ \A t \in Seekers : ~Moving(t)
  BY TaskMovesAlone DEF Task, seek_vars, flush_vars, Moving, FieldsTyped
<1>2. /\ Duration \in Nat \ {0} /\ WholeGroups \in Nat /\ WholeGroups <= TotalNumIndices
      /\ TotalNumIndices \in Nat /\ current_index \in Nat
  BY <1>1, PayloadSizes DEF PositionInv
<1>3. FieldsTyped'
  BY <1>1, SamePayload DEF ReachEos, PauseLoop, stream_vars, peer_vars, FieldsTyped
<1>4. HeardTyped'
  BY <1>1, SamePayload DEF ReachEos, PauseLoop, stream_vars, peer_vars, HeardTyped, PartiesTyped, Silent, FieldsTyped
<1>5. PositionInv'
  BY <1>1, SamePayload DEF ReachEos, PauseLoop, stream_vars, peer_vars, PositionInv, FieldsTyped
<1>6. StartInv'
  BY <1>1, SamePayload DEF ReachEos, PauseLoop, stream_vars, peer_vars, StartInv, PartiesTyped, Silent
<1>7. OutputInv'
  BY <1>1, SamePayload DEF ReachEos, PauseLoop, stream_vars, peer_vars, OutputInv, SamplesInPlace
<1>8. HeardInv'
  <2>1. downstream'.eos = (downstream.eos \/ ~downstream.flushing) /\ downstream'.flushing = downstream.flushing
    BY DEF ReachEos, PullInv, PartiesTyped, Silent
  <2>. QED BY <2>1 DEF HeardInv
<1>9. SegmentInv'
  BY <1>1, SamePayload DEF ReachEos, PauseLoop, stream_vars, peer_vars, SegmentInv, Moving, At, PartiesTyped, Silent
<1>. QED BY <1>0, <1>3, <1>4, <1>5, <1>6, <1>7, <1>8, <1>9

LEMMA PushFlushedKeepsPlaybackInv == ASSUME PlaybackInv, PushFlushed PROVE PlaybackInv'
<1>. USE DEF PlaybackInv
<1>0. PullInv' /\ MovingInv' /\ SeqnumInv'
  BY TaskKeepsInv, TaskMovesAlone DEF Task
<1>1. /\ UNCHANGED <<payload, seeker, flusher, num_seeks, num_flushes, accepted, flushing>>
      /\ payload \in Payloads
      /\ stream_lock' \in {"task", Nobody}
      /\ \A t \in Seekers : ~Moving(t)
  BY TaskMovesAlone DEF Task, seek_vars, flush_vars, Moving, FieldsTyped
<1>2. /\ Duration \in Nat \ {0} /\ WholeGroups \in Nat /\ WholeGroups <= TotalNumIndices
      /\ TotalNumIndices \in Nat /\ current_index \in Nat
  BY <1>1, PayloadSizes DEF PositionInv
<1>3. FieldsTyped'
  BY <1>1, SamePayload DEF PushFlushed, PauseLoop, stream_vars, peer_vars, FieldsTyped
<1>4. HeardTyped'
  BY <1>1, SamePayload DEF PushFlushed, PauseLoop, stream_vars, peer_vars, HeardTyped, PartiesTyped, Silent, FieldsTyped
<1>5. PositionInv'
  BY <1>1, SamePayload DEF PushFlushed, PauseLoop, stream_vars, peer_vars, PositionInv, FieldsTyped
<1>6. StartInv'
  BY <1>1, SamePayload DEF PushFlushed, PauseLoop, stream_vars, peer_vars, StartInv, PartiesTyped, Silent
<1>7. OutputInv'
  BY <1>1, SamePayload DEF PushFlushed, PauseLoop, stream_vars, peer_vars, OutputInv, SamplesInPlace
<1>8. HeardInv'
  BY <1>1, SamePayload DEF PushFlushed, PauseLoop, stream_vars, peer_vars, HeardInv, InStep, Begins, Moving, PartiesTyped, Silent
<1>9. SegmentInv'
  BY <1>1, SamePayload DEF PushFlushed, PauseLoop, stream_vars, peer_vars, SegmentInv, Moving, At, PartiesTyped, Silent
<1>. QED BY <1>0, <1>3, <1>4, <1>5, <1>6, <1>7, <1>8, <1>9

LEMMA PushAcceptedKeepsPlaybackInv == ASSUME PlaybackInv, PushAccepted PROVE PlaybackInv'
<1>. USE DEF PlaybackInv
<1>0. PullInv' /\ MovingInv' /\ SeqnumInv'
  BY TaskKeepsInv, TaskMovesAlone
<1>1. /\ UNCHANGED <<payload, seeker, flusher, num_seeks, num_flushes, accepted, flushing>>
      /\ payload \in Payloads
      /\ stream_lock' \in {"task", Nobody}
      /\ \A t \in Seekers : ~Moving(t)
  BY TaskMovesAlone DEF seek_vars, flush_vars, Moving, FieldsTyped
<1>2. /\ Duration \in Nat \ {0} /\ WholeGroups \in Nat /\ WholeGroups <= TotalNumIndices
      /\ TotalNumIndices \in Nat /\ current_index \in Nat
  BY <1>1, PayloadSizes DEF PositionInv
<1>3. FieldsTyped'
  BY <1>1, SamePayload DEF PushAccepted, TaskUnchanged, stream_vars, peer_vars, FieldsTyped
<1>4. HeardTyped'
  <2>1. output_buffer.index \in Nat /\ output_buffer.index + 1 <= WholeGroups
    BY DEF PushAccepted, OutputInv
  <2>2. /\ downstream'.first = output_buffer.index /\ downstream'.next = output_buffer.index + 1
        /\ UNCHANGED <<downstream.seqnum, downstream.start, downstream.stop>>
    BY DEF PushAccepted, PullInv, PartiesTyped, Silent
  <2>. QED BY <1>1, <1>2, <2>1, <2>2, SamePayload DEF HeardTyped
<1>5. PositionInv'
  BY <1>1, SamePayload DEF PushAccepted, TaskUnchanged, stream_vars, peer_vars, PositionInv, FieldsTyped
<1>6. StartInv'
  BY <1>1, SamePayload DEF PushAccepted, TaskUnchanged, stream_vars, peer_vars, StartInv, PartiesTyped, Silent
<1>7. OutputInv'
  BY <1>1, SamePayload DEF PushAccepted, TaskUnchanged, stream_vars, peer_vars, OutputInv, SamplesInPlace
<1>8. HeardInv'
  <2>1. /\ output_buffer.index \in Nat /\ current_index = output_buffer.index + 1 /\ ~next_buffer_is_discont
    BY DEF PushAccepted, OutputInv
  <2>2. /\ downstream'.next = output_buffer.index + 1 /\ pc' = "top"
        /\ UNCHANGED <<downstream.seqnum, downstream.start, downstream.stop, downstream.flushing, downstream.eos>>
        /\ UNCHANGED <<segment, next_buffer_is_discont, current_index>>
    BY DEF PushAccepted, PullInv, PartiesTyped, Silent, stream_vars
  <2>3. downstream'.next # NoIndex
    BY <2>1, <2>2 DEF NoIndex
  <2>. QED BY <1>1, <2>1, <2>2, <2>3 DEF PushAccepted, HeardInv, InStep
<1>9. SegmentInv'
  BY <1>1, SamePayload DEF PushAccepted, TaskUnchanged, stream_vars, peer_vars, SegmentInv, Moving, At, PartiesTyped, Silent
<1>. QED BY <1>0, <1>3, <1>4, <1>5, <1>6, <1>7, <1>8, <1>9

LEMMA PushEndedKeepsPlaybackInv == ASSUME PlaybackInv, PushEnded PROVE PlaybackInv'
<1>. USE DEF PlaybackInv
<1>0. PullInv' /\ MovingInv' /\ SeqnumInv'
  BY TaskKeepsInv, TaskMovesAlone
<1>1. /\ UNCHANGED <<payload, seeker, flusher, num_seeks, num_flushes, accepted, flushing>>
      /\ payload \in Payloads
      /\ stream_lock' \in {"task", Nobody}
      /\ \A t \in Seekers : ~Moving(t)
  BY TaskMovesAlone DEF seek_vars, flush_vars, Moving, FieldsTyped
<1>2. /\ Duration \in Nat \ {0} /\ WholeGroups \in Nat /\ WholeGroups <= TotalNumIndices
      /\ TotalNumIndices \in Nat /\ current_index \in Nat
  BY <1>1, PayloadSizes DEF PositionInv
<1>3. FieldsTyped'
  BY <1>1, SamePayload DEF PushEnded, PauseLoop, stream_vars, peer_vars, FieldsTyped
<1>4. HeardTyped'
  BY <1>1, SamePayload DEF PushEnded, PauseLoop, stream_vars, peer_vars, HeardTyped, PartiesTyped, Silent, FieldsTyped
<1>5. PositionInv'
  BY <1>1, SamePayload DEF PushEnded, PauseLoop, stream_vars, peer_vars, PositionInv, FieldsTyped
<1>6. StartInv'
  BY <1>1, SamePayload DEF PushEnded, PauseLoop, stream_vars, peer_vars, StartInv, PartiesTyped, Silent
<1>7. OutputInv'
  BY <1>1, SamePayload DEF PushEnded, PauseLoop, stream_vars, peer_vars, OutputInv, SamplesInPlace
<1>8. HeardInv'
  BY <1>1, SamePayload DEF PushEnded, PauseLoop, stream_vars, peer_vars, HeardInv, InStep, Begins, Moving, PartiesTyped, Silent
<1>9. SegmentInv'
  BY <1>1, SamePayload DEF PushEnded, PauseLoop, stream_vars, peer_vars, SegmentInv, Moving, At, PartiesTyped, Silent
<1>. QED BY <1>0, <1>3, <1>4, <1>5, <1>6, <1>7, <1>8, <1>9

-------------------------------------------------------------------------------
(***************************************************************************)
(* The seeking threads.                                                    *)
(***************************************************************************)

LEMMA CheckSeekKeepsPlaybackInv == ASSUME PlaybackInv, NEW t \in Seekers, CheckSeek(t) PROVE PlaybackInv'
<1>. USE DEF PlaybackInv
<1>0. PullInv'
  BY SeekKeepsInv
<1>1. /\ UNCHANGED <<payload, parse_stage, flushing, segment, current_seqnum, next_buffer_is_discont,
                      byte_position, current_index, pc, output_buffer, flusher, num_flushes>>
      /\ UNCHANGED <<accepted, downstream, task, stream_lock>>
      /\ payload \in Payloads
  BY DEF CheckSeek, stream_vars, loop_vars, peer_vars, flush_vars, FieldsTyped
<1>2. /\ \A other \in Seekers \ {t} : seeker'[other] = seeker[other]
      /\ seeker[t].place = "idle"
      /\ seeker'[t].place = "flush_up"
      /\ seeker'[t].seqnum = num_seeks + 1
      /\ ~seeker'[t].moved
  BY DEF CheckSeek, At, PullInv, PartiesTyped, SeekState, NotSeeking
<1>3. FieldsTyped'
  <2>1. num_seeks' \in 0 .. MaxSeeks
    BY SizesAssumption DEF CheckSeek, FieldsTyped
  <2>. QED BY <1>1, <2>1, SamePayload DEF FieldsTyped
<1>4. HeardTyped'
  BY <1>1, <1>2, SamePayload DEF HeardTyped
<1>5. PositionInv'
  BY <1>1, <1>2, SamePayload DEF PositionInv, FieldsTyped
<1>6. StartInv'
  BY <1>1, <1>2, SamePayload DEF StartInv
<1>7. OutputInv'
  BY <1>1, <1>2, SamePayload DEF OutputInv, SamplesInPlace
<1>8. MovingInv'
  BY <1>1, <1>2, SamePayload DEF MovingInv, Moving, At
<1>9. HeardInv'
  BY <1>1, <1>2, SamePayload DEF HeardInv, InStep, Begins, Moving
<1>10. SeqnumInv'
  <2>1. num_seeks \in Nat /\ num_seeks' = num_seeks + 1 /\ accepted \in 0 .. num_seeks
    BY DEF CheckSeek, FieldsTyped, SeqnumInv
  <2>2. \A other \in Seekers \ {t} :
          seeker[other].place # "idle" => seeker[other].seqnum \in 1 .. num_seeks
    BY DEF SeqnumInv, At
  <2>. QED BY <1>1, <1>2, <2>1, <2>2 DEF SeqnumInv, At
<1>11. SegmentInv'
  BY <1>1, <1>2, SamePayload DEF SegmentInv, Moving, At, NoFaults
<1>. QED BY <1>0, <1>3, <1>4, <1>5, <1>6, <1>7, <1>8, <1>9, <1>10, <1>11

LEMMA FlushStartUpstreamKeepsPlaybackInv == ASSUME PlaybackInv, NEW t \in Seekers, FlushStartUpstream(t) PROVE PlaybackInv'
<1>. USE DEF PlaybackInv
<1>0. PullInv'
  BY SeekKeepsInv DEF Seek
<1>1. /\ UNCHANGED <<payload, parse_stage, flushing, segment, current_seqnum, next_buffer_is_discont,
                      byte_position, current_index, pc, output_buffer, flusher, num_flushes>>
      /\ UNCHANGED <<num_seeks, accepted, downstream, task, stream_lock>>
      /\ payload \in Payloads
  BY DEF FlushStartUpstream, stream_vars, loop_vars, peer_vars, flush_vars, FieldsTyped
<1>2. /\ \A other \in Seekers \ {t} : seeker'[other] = seeker[other]
      /\ seeker[t].place = "flush_up"
      /\ seeker'[t].place = "flush_down"
      /\ seeker'[t].seqnum = seeker[t].seqnum
      /\ seeker'[t].moved = seeker[t].moved
      /\ ~FlushesMayFail => seeker'[t].up
  <2>1. PICK taken \in Outcomes :
          seeker' = [seeker EXCEPT ![t].place = "flush_down", ![t].up = taken]
    BY DEF FlushStartUpstream
  <2>2. taken \in BOOLEAN /\ (~FlushesMayFail => taken)
    BY DEF Outcomes
  <2>3. /\ \A other \in Seekers \ {t} : seeker'[other] = seeker[other]
        /\ seeker'[t].place = "flush_down" /\ seeker'[t].up = taken
        /\ UNCHANGED <<seeker[t].seqnum, seeker[t].moved>>
    BY <2>1, <2>2 DEF PullInv, PartiesTyped, SeekState
  <2>. QED BY <2>2, <2>3 DEF FlushStartUpstream, At
<1>3. FieldsTyped'
  BY <1>1, <1>2, SamePayload DEF FieldsTyped
<1>4. HeardTyped'
  BY <1>1, <1>2, SamePayload DEF HeardTyped
<1>5. PositionInv'
  BY <1>1, <1>2, SamePayload DEF PositionInv, FieldsTyped
<1>6. StartInv'
  BY <1>1, <1>2, SamePayload DEF StartInv
<1>7. OutputInv'
  BY <1>1, <1>2, SamePayload DEF OutputInv, SamplesInPlace
<1>8. MovingInv'
  BY <1>1, <1>2, SamePayload DEF MovingInv, Moving, At
<1>9. HeardInv'
  BY <1>1, <1>2, SamePayload DEF HeardInv, InStep, Begins, Moving
<1>10. SeqnumInv'
  BY <1>1, <1>2, SamePayload DEF SeqnumInv, At
<1>11. SegmentInv'
  BY <1>1, <1>2, SamePayload DEF SegmentInv, Moving, At, NoFaults
<1>. QED BY <1>0, <1>3, <1>4, <1>5, <1>6, <1>7, <1>8, <1>9, <1>10, <1>11

LEMMA FlushStartDownstreamKeepsPlaybackInv == ASSUME PlaybackInv, NEW t \in Seekers, FlushStartDownstream(t) PROVE PlaybackInv'
<1>. USE DEF PlaybackInv
<1>0. PullInv'
  BY SeekKeepsInv DEF Seek
<1>1. /\ UNCHANGED <<payload, parse_stage, flushing, segment, current_seqnum, next_buffer_is_discont,
                      byte_position, current_index, pc, output_buffer, flusher, num_flushes>>
      /\ UNCHANGED <<num_seeks, accepted, task, stream_lock>>
      /\ payload \in Payloads
  BY DEF FlushStartDownstream, stream_vars, loop_vars, peer_vars, flush_vars, FieldsTyped
<1>2. /\ \A other \in Seekers \ {t} : seeker'[other] = seeker[other]
      /\ seeker[t].place = "flush_down"
      /\ seeker'[t].place \in {"pause", "stop_up"}
      /\ seeker'[t].place = "pause" => seeker'[t].up /\ seeker'[t].down
      /\ seeker'[t].seqnum = seeker[t].seqnum
      /\ seeker'[t].moved = seeker[t].moved
      /\ ~FlushesMayFail /\ seeker[t].up => seeker'[t].place = "pause"
      /\ downstream.flushing => downstream'.flushing
      /\ UNCHANGED <<downstream.seqnum, downstream.start, downstream.stop, downstream.first, downstream.next, downstream.eos>>
  <2>1. PICK taken \in Outcomes :
          /\ seeker' = [seeker EXCEPT ![t].place = IF seeker[t].up /\ taken THEN "pause" ELSE "stop_up",
                                      ![t].down = taken]
          /\ downstream' = [downstream EXCEPT !.flushing = @ \/ taken]
    BY DEF FlushStartDownstream
  <2>2. taken \in BOOLEAN /\ (~FlushesMayFail => taken)
    BY DEF Outcomes
  <2>3. /\ downstream.flushing => downstream'.flushing
        /\ UNCHANGED <<downstream.seqnum, downstream.start, downstream.stop, downstream.first,
                       downstream.next, downstream.eos>>
    BY <2>1, <2>2 DEF PullInv, PartiesTyped, Silent
  <2>4. /\ \A other \in Seekers \ {t} : seeker'[other] = seeker[other]
        /\ seeker'[t].place = IF seeker[t].up /\ taken THEN "pause" ELSE "stop_up"
        /\ seeker'[t].down = taken
        /\ UNCHANGED <<seeker[t].seqnum, seeker[t].up, seeker[t].moved>>
    BY <2>1, <2>2 DEF PullInv, PartiesTyped, SeekState
  <2>. QED BY <2>2, <2>3, <2>4 DEF FlushStartDownstream, At
<1>3. FieldsTyped'
  BY <1>1, <1>2, SamePayload DEF FieldsTyped
<1>4. HeardTyped'
  BY <1>1, <1>2, SamePayload DEF HeardTyped
<1>5. PositionInv'
  BY <1>1, <1>2, SamePayload DEF PositionInv, FieldsTyped
<1>6. StartInv'
  BY <1>1, <1>2, SamePayload DEF StartInv
<1>7. OutputInv'
  BY <1>1, <1>2, SamePayload DEF OutputInv, SamplesInPlace
<1>8. MovingInv'
  BY <1>1, <1>2, SamePayload DEF MovingInv, Moving, At
<1>9. HeardInv'
  BY <1>1, <1>2, SamePayload DEF HeardInv, InStep, Begins, Moving
<1>10. SeqnumInv'
  BY <1>1, <1>2, SamePayload DEF SeqnumInv, At
<1>11. SegmentInv'
  BY <1>1, <1>2, SamePayload DEF SegmentInv, Moving, At, NoFaults
<1>. QED BY <1>0, <1>3, <1>4, <1>5, <1>6, <1>7, <1>8, <1>9, <1>10, <1>11

LEMMA StopLoopKeepsPlaybackInv == ASSUME PlaybackInv, NEW t \in Seekers, StopLoop(t) PROVE PlaybackInv'
<1>. USE DEF PlaybackInv
<1>0. PullInv'
  BY SeekKeepsInv DEF Seek
<1>1. /\ UNCHANGED <<payload, parse_stage, flushing, segment, current_seqnum, next_buffer_is_discont,
                      byte_position, current_index, pc, output_buffer, flusher, num_flushes>>
      /\ UNCHANGED <<num_seeks, accepted, downstream, stream_lock>>
      /\ payload \in Payloads
  BY DEF StopLoop, stream_vars, loop_vars, peer_vars, flush_vars, FieldsTyped
<1>2. /\ \A other \in Seekers \ {t} : seeker'[other] = seeker[other]
      /\ seeker[t].place = "pause"
      /\ seeker'[t].place = "lock"
      /\ UNCHANGED <<seeker[t].seqnum, seeker[t].up, seeker[t].down, seeker[t].moved>>
  BY DEF StopLoop, At, PullInv, PartiesTyped, SeekState, Go
<1>3. FieldsTyped'
  BY <1>1, SamePayload DEF StopLoop, FieldsTyped
<1>4. HeardTyped'
  BY <1>1, <1>2, SamePayload DEF HeardTyped
<1>5. PositionInv'
  BY <1>1, <1>2, SamePayload DEF PositionInv, FieldsTyped
<1>6. StartInv'
  BY <1>1, <1>2, SamePayload DEF StartInv
<1>7. OutputInv'
  BY <1>1, <1>2, SamePayload DEF OutputInv, SamplesInPlace
<1>8. MovingInv'
  BY <1>1, <1>2, SamePayload DEF MovingInv, Moving, At
<1>9. HeardInv'
  BY <1>1, <1>2, SamePayload DEF HeardInv, InStep, Begins, Moving
<1>10. SeqnumInv'
  BY <1>1, <1>2, SamePayload DEF SeqnumInv, At
<1>11. SegmentInv'
  BY <1>1, <1>2, SamePayload DEF SegmentInv, Moving, At, NoFaults
<1>. QED BY <1>0, <1>3, <1>4, <1>5, <1>6, <1>7, <1>8, <1>9, <1>10, <1>11

LEMMA TakeStreamLockKeepsPlaybackInv == ASSUME PlaybackInv, NEW t \in Seekers, TakeStreamLock(t) PROVE PlaybackInv'
<1>. USE DEF PlaybackInv
<1>0. PullInv'
  BY SeekKeepsInv DEF Seek
<1>1. /\ UNCHANGED <<payload, parse_stage, flushing, segment, current_seqnum, next_buffer_is_discont,
                      byte_position, current_index, pc, output_buffer, flusher, num_flushes>>
      /\ UNCHANGED <<num_seeks, accepted, downstream, task>>
      /\ payload \in Payloads
  BY DEF TakeStreamLock, stream_vars, loop_vars, peer_vars, flush_vars, FieldsTyped
<1>2. /\ \A other \in Seekers \ {t} : seeker'[other] = seeker[other]
      /\ seeker[t].place = "lock"
      /\ seeker'[t].place = "locked"
      /\ UNCHANGED <<seeker[t].seqnum, seeker[t].up, seeker[t].down, seeker[t].moved>>
  BY DEF TakeStreamLock, At, PullInv, PartiesTyped, SeekState, Go
<1>3. FieldsTyped'
  BY <1>1, SamePayload DEF TakeStreamLock, FieldsTyped
<1>4. HeardTyped'
  BY <1>1, <1>2, SamePayload DEF HeardTyped
<1>5. PositionInv'
  BY <1>1, <1>2, SamePayload DEF PositionInv, FieldsTyped
<1>6. StartInv'
  BY <1>1, <1>2, SamePayload DEF StartInv
<1>7. OutputInv'
  BY <1>1, <1>2, SamePayload DEF OutputInv, SamplesInPlace
<1>8. MovingInv'
  <2>1. stream_lock \notin Seekers
    BY SeekersAssumption DEF TakeStreamLock, Nobody
  <2>. QED BY <1>1, <1>2, <2>1, SamePayload DEF MovingInv, Moving, At
<1>9. HeardInv'
  BY <1>1, <1>2, SamePayload DEF HeardInv, InStep, Begins, Moving
<1>10. SeqnumInv'
  BY <1>1, <1>2, SamePayload DEF SeqnumInv, At
<1>11. SegmentInv'
  BY <1>1, <1>2, SamePayload DEF SegmentInv, Moving, At, NoFaults
<1>. QED BY <1>0, <1>3, <1>4, <1>5, <1>6, <1>7, <1>8, <1>9, <1>10, <1>11

LEMMA RefuseSeekKeepsPlaybackInv == ASSUME PlaybackInv, NEW t \in Seekers, RefuseSeek(t) PROVE PlaybackInv'
<1>. USE DEF PlaybackInv
<1>0. PullInv'
  BY SeekKeepsInv DEF Seek
<1>1. /\ UNCHANGED <<payload, parse_stage, flushing, segment, current_seqnum, next_buffer_is_discont,
                      byte_position, current_index, pc, output_buffer, flusher, num_flushes>>
      /\ UNCHANGED <<num_seeks, accepted, downstream, task, stream_lock>>
      /\ payload \in Payloads
  BY DEF RefuseSeek, stream_vars, loop_vars, peer_vars, flush_vars, FieldsTyped
<1>2. /\ \A other \in Seekers \ {t} : seeker'[other] = seeker[other]
      /\ seeker[t].place = "locked"
      /\ seeker'[t].place = "stop_up"
      /\ UNCHANGED <<seeker[t].seqnum, seeker[t].up, seeker[t].down, seeker[t].moved>>
  BY DEF RefuseSeek, At, PullInv, PartiesTyped, SeekState, Go
<1>3. FieldsTyped'
  BY <1>1, <1>2, SamePayload DEF FieldsTyped
<1>4. HeardTyped'
  BY <1>1, <1>2, SamePayload DEF HeardTyped
<1>5. PositionInv'
  BY <1>1, <1>2, SamePayload DEF PositionInv, FieldsTyped
<1>6. StartInv'
  BY <1>1, <1>2, SamePayload DEF StartInv
<1>7. OutputInv'
  BY <1>1, <1>2, SamePayload DEF OutputInv, SamplesInPlace
<1>8. MovingInv'
  BY <1>1, <1>2, SamePayload DEF MovingInv, Moving, At
<1>9. HeardInv'
  BY <1>1, <1>2, SamePayload DEF HeardInv, InStep, Begins, Moving
<1>10. SeqnumInv'
  BY <1>1, <1>2, SamePayload DEF SeqnumInv, At
<1>11. SegmentInv'
  BY DEF RefuseSeek, SegmentInv, NoFaults
<1>. QED BY <1>0, <1>3, <1>4, <1>5, <1>6, <1>7, <1>8, <1>9, <1>10, <1>11

LEMMA FlushStopUpstreamKeepsPlaybackInv == ASSUME PlaybackInv, NEW t \in Seekers, FlushStopUpstream(t) PROVE PlaybackInv'
<1>. USE DEF PlaybackInv
<1>0. PullInv'
  BY SeekKeepsInv DEF Seek
<1>1. /\ UNCHANGED <<payload, parse_stage, flushing, segment, current_seqnum, next_buffer_is_discont,
                      byte_position, current_index, pc, output_buffer, flusher, num_flushes>>
      /\ UNCHANGED <<num_seeks, accepted, downstream, task, stream_lock>>
      /\ payload \in Payloads
  BY DEF FlushStopUpstream, stream_vars, loop_vars, peer_vars, flush_vars, FieldsTyped
<1>2. /\ \A other \in Seekers \ {t} : seeker'[other] = seeker[other]
      /\ seeker[t].place = "stop_up"
      /\ seeker'[t].place = "stop_down"
      /\ UNCHANGED <<seeker[t].seqnum, seeker[t].up, seeker[t].down, seeker[t].moved>>
  BY DEF FlushStopUpstream, At, PullInv, PartiesTyped, SeekState, Go
<1>3. FieldsTyped'
  BY <1>1, <1>2, SamePayload DEF FieldsTyped
<1>4. HeardTyped'
  BY <1>1, <1>2, SamePayload DEF HeardTyped
<1>5. PositionInv'
  BY <1>1, <1>2, SamePayload DEF PositionInv, FieldsTyped
<1>6. StartInv'
  BY <1>1, <1>2, SamePayload DEF StartInv
<1>7. OutputInv'
  BY <1>1, <1>2, SamePayload DEF OutputInv, SamplesInPlace
<1>8. MovingInv'
  BY <1>1, <1>2, SamePayload DEF MovingInv, Moving, At
<1>9. HeardInv'
  BY <1>1, <1>2, SamePayload DEF HeardInv, InStep, Begins, Moving
<1>10. SeqnumInv'
  BY <1>1, <1>2, SamePayload DEF SeqnumInv, At
<1>11. SegmentInv'
  BY <1>1, <1>2, SamePayload DEF SegmentInv, Moving, At, NoFaults
<1>. QED BY <1>0, <1>3, <1>4, <1>5, <1>6, <1>7, <1>8, <1>9, <1>10, <1>11

LEMMA FlushStopDownstreamKeepsPlaybackInv == ASSUME PlaybackInv, NEW t \in Seekers, FlushStopDownstream(t) PROVE PlaybackInv'
<1>. USE DEF PlaybackInv
<1>0. PullInv'
  BY SeekKeepsInv DEF Seek
<1>1. /\ UNCHANGED <<payload, parse_stage, flushing, segment, current_seqnum, next_buffer_is_discont,
                      byte_position, current_index, pc, output_buffer, flusher, num_flushes>>
      /\ UNCHANGED <<num_seeks, accepted, task, stream_lock>>
      /\ payload \in Payloads
  BY DEF FlushStopDownstream, stream_vars, loop_vars, peer_vars, flush_vars, FieldsTyped
<1>2. /\ \A other \in Seekers \ {t} : seeker'[other] = seeker[other]
      /\ seeker[t].place = "stop_down"
      /\ seeker'[t].place = "segment"
      /\ UNCHANGED <<seeker[t].seqnum, seeker[t].up, seeker[t].down, seeker[t].moved>>
  BY DEF FlushStopDownstream, At, PullInv, PartiesTyped, SeekState, Go
<1>3. FieldsTyped'
  BY <1>1, <1>2, SamePayload DEF FieldsTyped
<1>4. HeardTyped'
  <2>1. CASE downstream' = downstream
    BY <1>1, <2>1, SamePayload DEF HeardTyped
  <2>2. CASE downstream' = Silent
    <3>1. Duration \in Nat
      BY <1>1, PayloadSizes
    <3>. QED BY <1>1, <2>2, <3>1, SamePayload DEF HeardTyped, Silent, NoSeqnum, NoStop, NoIndex
  <2>. QED BY <2>1, <2>2 DEF FlushStopDownstream
<1>5. PositionInv'
  BY <1>1, <1>2, SamePayload DEF PositionInv, FieldsTyped
<1>6. StartInv'
  BY <1>1 DEF FlushStopDownstream, StartInv, Silent
<1>7. OutputInv'
  BY <1>1, <1>2, SamePayload DEF OutputInv, SamplesInPlace
<1>8. MovingInv'
  <2>1. seeker[t].moved => stream_lock = t /\ downstream' = Silent
    BY <1>2 DEF FlushStopDownstream, MovingInv
  <2>2. \A other \in Seekers \ {t} :
          seeker[other].moved /\ seeker[other].place \in {"stop_up", "stop_down", "segment", "restart"} =>
            ~seeker[t].moved
    BY <2>1 DEF MovingInv
  <2>3. downstream' = downstream \/ downstream' = Silent
    BY DEF FlushStopDownstream
  <2>. QED BY <1>1, <1>2, <2>1, <2>2, <2>3, SamePayload DEF MovingInv, Moving, At, Silent
<1>9. HeardInv'
  <2>1. CASE downstream' = downstream
    BY <1>1, <1>2, <2>1, SamePayload DEF HeardInv, InStep, Begins, Moving
  <2>2. CASE downstream' = Silent
    BY <2>2 DEF HeardInv, Silent
  <2>. QED BY <2>1, <2>2 DEF FlushStopDownstream
<1>10. SeqnumInv'
  BY <1>1, <1>2, SamePayload DEF SeqnumInv, At
<1>11. SegmentInv'
  BY <1>1, <1>2, SamePayload DEF SegmentInv, Moving, At, NoFaults
<1>. QED BY <1>0, <1>3, <1>4, <1>5, <1>6, <1>7, <1>8, <1>9, <1>10, <1>11

LEMMA PushSeekSegmentKeepsPlaybackInv == ASSUME PlaybackInv, NEW t \in Seekers, PushSeekSegment(t) PROVE PlaybackInv'
<1>. USE DEF PlaybackInv
<1>0. PullInv'
  BY SeekKeepsInv DEF Seek
<1>1. /\ UNCHANGED <<payload, parse_stage, flushing, segment, current_seqnum, next_buffer_is_discont,
                      byte_position, current_index, pc, output_buffer, flusher, num_flushes>>
      /\ UNCHANGED <<num_seeks, accepted, task, stream_lock>>
      /\ payload \in Payloads
  BY DEF PushSeekSegment, stream_vars, loop_vars, peer_vars, flush_vars, FieldsTyped
<1>2. /\ \A other \in Seekers \ {t} : seeker'[other] = seeker[other]
      /\ seeker[t].place = "segment"
      /\ seeker'[t].place = "restart"
      /\ UNCHANGED <<seeker[t].seqnum, seeker[t].up, seeker[t].down, seeker[t].moved>>
  BY DEF PushSeekSegment, At, PullInv, PartiesTyped, SeekState, Go
<1>3. FieldsTyped'
  BY <1>1, <1>2, SamePayload DEF FieldsTyped
<1>4. HeardTyped'
  <2>1. CASE ShowSegment(seeker[t].seqnum)
    <3>1. seeker[t].seqnum \in Int /\ segment.start \in Int /\ segment.stop \in NoStop .. Duration
      BY DEF PullInv, PartiesTyped, SeekState, FieldsTyped
    <3>. QED BY <1>1, <2>1, <3>1, ShowSegmentEffect, SamePayload DEF PullInv, HeardTyped
  <2>2. CASE downstream' = downstream
    BY <1>1, <2>2, SamePayload DEF HeardTyped
  <2>. QED BY <2>1, <2>2 DEF PushSeekSegment
<1>5. PositionInv'
  BY <1>1, <1>2, SamePayload DEF PositionInv, FieldsTyped
<1>6. StartInv'
  <2>1. CASE seeker[t].moved
    <3>1. stream_lock = t
      BY <1>2, <2>1 DEF MovingInv
    <3>2. pc = "top"
      BY <3>1, SeekersAssumption DEF PullInv, LockOwned
    <3>. QED BY <1>1, <3>2 DEF StartInv
  <2>2. CASE downstream' = downstream
    BY <1>1, <2>2 DEF StartInv
  <2>. QED BY <2>1, <2>2 DEF PushSeekSegment
<1>7. OutputInv'
  BY <1>1, <1>2, SamePayload DEF OutputInv, SamplesInPlace
<1>8. MovingInv'
  <2>1. CASE seeker[t].moved
    <3>1. stream_lock = t
      BY <1>2, <2>1 DEF MovingInv
    <3>. QED BY <1>1, <1>2, <3>1, SamePayload DEF MovingInv, Moving, At
  <2>2. CASE downstream' = downstream
    BY <1>1, <1>2, <2>2, SamePayload DEF MovingInv, Moving, At
  <2>. QED BY <2>1, <2>2 DEF PushSeekSegment
<1>9. HeardInv'
  <2>1. CASE seeker[t].moved /\ ShowSegment(seeker[t].seqnum)
    <3>1. /\ stream_lock = t /\ next_buffer_is_discont /\ TimeOf(current_index) <= segment.start
      BY <1>2, <2>1 DEF MovingInv, Moving
    <3>2. pc = "top"
      BY <3>1, SeekersAssumption DEF PullInv, LockOwned
    <3>3. segment.start <= TimeOf(current_index + 1)
      BY <3>2 DEF PositionInv
    <3>4. Begins(current_index)'
      BY <1>1, <2>1, <3>1, <3>3, ShowSegmentEffect, SamePayload DEF Begins, PullInv
    <3>. QED BY <1>1, <2>1, <3>1, <3>2, <3>4, ShowSegmentEffect DEF PullInv, HeardInv, InStep
  <2>2. CASE ~seeker[t].moved /\ downstream' = downstream
    BY <1>1, <1>2, <2>2, SamePayload DEF HeardInv, InStep, Begins, Moving
  <2>3. CASE downstream.flushing /\ downstream' = downstream
    BY <2>3 DEF HeardInv
  <2>. QED BY <2>1, <2>2, <2>3 DEF PushSeekSegment
<1>10. SeqnumInv'
  BY <1>1, <1>2, SamePayload DEF SeqnumInv, At
<1>11. SegmentInv'
  <2>1. CASE seeker[t].moved /\ ShowSegment(seeker[t].seqnum)
    <3>1. seeker[t].seqnum # NoSeqnum
      BY <1>2 DEF SeqnumInv, FieldsTyped, At, NoSeqnum
    <3>. QED BY <1>1, <1>2, <2>1, <3>1, ShowSegmentEffect DEF PullInv, SegmentInv, Moving, At, NoFaults
  <2>2. CASE ~seeker[t].moved /\ downstream' = downstream
    BY <1>1, <1>2, <2>2 DEF SegmentInv, Moving, At, NoFaults
  <2>3. CASE downstream.flushing /\ downstream' = downstream
    BY <1>1, <1>2, <2>3 DEF SegmentInv, Moving, At, NoFaults
  <2>. QED BY <2>1, <2>2, <2>3 DEF PushSeekSegment
<1>. QED BY <1>0, <1>3, <1>4, <1>5, <1>6, <1>7, <1>8, <1>9, <1>10, <1>11

LEMMA RestartLoopKeepsPlaybackInv == ASSUME PlaybackInv, NEW t \in Seekers, RestartLoop(t) PROVE PlaybackInv'
<1>. USE DEF PlaybackInv
<1>0. PullInv'
  BY SeekKeepsInv DEF Seek
<1>1. /\ UNCHANGED <<payload, parse_stage, flushing, segment, current_seqnum, next_buffer_is_discont,
                      byte_position, current_index, pc, output_buffer, flusher, num_flushes>>
      /\ UNCHANGED <<num_seeks, accepted, downstream>>
      /\ payload \in Payloads
  BY DEF RestartLoop, stream_vars, loop_vars, peer_vars, flush_vars, FieldsTyped
<1>2. /\ \A other \in Seekers \ {t} : seeker'[other] = seeker[other]
      /\ seeker[t].place = "restart"
      /\ seeker'[t].place = "idle"
      /\ UNCHANGED <<seeker[t].seqnum, seeker[t].up, seeker[t].down, seeker[t].moved>>
  BY DEF RestartLoop, At, PullInv, PartiesTyped, SeekState, Go
<1>3. FieldsTyped'
  BY <1>1, SamePayload DEF RestartLoop, FieldsTyped
<1>4. HeardTyped'
  BY <1>1, <1>2, SamePayload DEF HeardTyped
<1>5. PositionInv'
  BY <1>1, <1>2, SamePayload DEF PositionInv, FieldsTyped
<1>6. StartInv'
  BY <1>1, <1>2, SamePayload DEF StartInv
<1>7. OutputInv'
  BY <1>1, <1>2, SamePayload DEF OutputInv, SamplesInPlace
<1>8. MovingInv'
  <2>1. \A other \in Seekers \ {t} : stream_lock = other => stream_lock' = other
    BY DEF RestartLoop
  <2>. QED BY <1>1, <1>2, <2>1, SamePayload DEF MovingInv, Moving, At
<1>9. HeardInv'
  BY <1>1, <1>2, SamePayload DEF HeardInv, InStep, Begins, Moving
<1>10. SeqnumInv'
  BY <1>1, <1>2, SamePayload DEF SeqnumInv, At
<1>11. SegmentInv'
  BY <1>1, <1>2, SamePayload DEF SegmentInv, Moving, At, NoFaults
<1>. QED BY <1>0, <1>3, <1>4, <1>5, <1>6, <1>7, <1>8, <1>9, <1>10, <1>11

\* The second critical section: the fields are set for the position that the seek asks for.
LEMMA PerformSeekKeepsPlaybackInv ==
  ASSUME PlaybackInv, NEW t \in Seekers, NEW request \in Requests, PerformSeek(t, request)
  PROVE  PlaybackInv'
<1>. USE DEF PlaybackInv
<1>0. PullInv'
  <2>1. Seek(t)
    BY DEF Seek
  <2>. QED BY <2>1, SeekKeepsInv
<1>1. /\ UNCHANGED <<payload, parse_stage, flushing, pc, output_buffer, task, stream_lock, downstream,
                     num_seeks, flusher, num_flushes>>
      /\ payload \in Payloads
  BY DEF PerformSeek, loop_vars, peer_vars, flush_vars, FieldsTyped
<1>2. /\ \A other \in Seekers \ {t} : seeker'[other] = seeker[other]
      /\ seeker[t].place = "locked" /\ seeker'[t].place = "stop_up" /\ seeker'[t].moved
      /\ UNCHANGED <<seeker[t].seqnum, seeker[t].up, seeker[t].down>>
  BY DEF PerformSeek, At, PullInv, PartiesTyped, SeekState
<1>3. pc = "top" /\ stream_lock = t
  BY <1>2, SeekersAssumption DEF PullInv, LockOwned, At
<1>4. \A other \in Seekers \ {t} :
        ~(seeker[other].moved /\ seeker[other].place \in {"stop_up", "stop_down", "segment", "restart"})
  BY <1>3 DEF MovingInv
<1>5. /\ SeekIndex(request) \in 0 .. TotalNumIndices
      /\ SegmentStart(request) \in 0 .. Duration
      /\ SegmentStop(request) \in NoStop .. Duration
      /\ TimeOf(SeekIndex(request)) <= SegmentStart(request)
      /\ SegmentStart(request) <= TimeOf(SeekIndex(request) + 1)
  BY <1>3, SeekTarget
<1>6. /\ current_index' = SeekIndex(request) /\ byte_position' = BytesOf(SeekIndex(request)) + PayloadPosition
      /\ segment' = [start |-> SegmentStart(request), position |-> SegmentStart(request),
                     stop |-> SegmentStop(request)]
      /\ next_buffer_is_discont' = TRUE
      /\ current_seqnum' = seeker[t].seqnum /\ accepted' = seeker[t].seqnum
  BY DEF PerformSeek, CurrentIndexAfterSeek
<1>7. Duration \in Nat /\ TotalNumIndices \in Nat /\ PayloadPosition \in Nat /\ payload.size \in Nat
  BY <1>1, PayloadSizes
<1>8. BytesOf(SeekIndex(request)) \in 0 .. payload.size
  BY <1>1, <1>5, <1>7, BytesOfIndex
<1>11. FieldsTyped'
  <2>1. segment' \in [start : -1 .. Duration, position : -1 .. Duration, stop : NoStop .. Duration]
    BY <1>5, <1>6, <1>7
  <2>. QED BY <1>1, <1>6, <2>1, SamePayload DEF FieldsTyped
<1>12. HeardTyped'
  BY <1>1, SamePayload DEF HeardTyped
<1>13. PositionInv'
  <2>1. byte_position' \in PayloadPosition .. EndOfPayload
    BY <1>6, <1>7, <1>8 DEF EndOfPayload
  <2>2. byte_position' = PayloadPosition + BytesOf(current_index)'
    BY <1>1, <1>6, <1>7, <1>8, SamePayload
  <2>3. segment'.start >= 0 /\ segment'.position >= 0 /\ segment'.start <= TimeOf(current_index + 1)'
    BY <1>1, <1>5, <1>6, <1>7, SamePayload
  <2>4. current_index' \in 0 .. TotalNumIndices /\ current_seqnum' = accepted'
    BY <1>5, <1>6
  <2>. QED BY <1>1, <2>1, <2>2, <2>3, <2>4, SamePayload DEF PositionInv
<1>14. StartInv'
  BY <1>1, <1>3 DEF StartInv
<1>15. OutputInv'
  BY <1>1, <1>3 DEF OutputInv
<1>16. MovingInv'
  <2>1. seeker[t].up /\ seeker[t].down
    BY <1>2 DEF MovingInv
  <2>2. next_buffer_is_discont' /\ TimeOf(current_index)' <= segment'.start
    BY <1>1, <1>5, <1>6, SamePayload
  <2>. QED BY <1>1, <1>2, <1>3, <1>4, <1>6, <2>1, <2>2 DEF MovingInv, Moving, At
<1>17. HeardInv'
  BY <1>2 DEF HeardInv, Moving
<1>18. SeqnumInv'
  BY <1>1, <1>2, <1>6 DEF SeqnumInv, At, FieldsTyped
<1>19. SegmentInv'
  BY <1>1, <1>2 DEF SegmentInv, Moving, At, NoFaults
<1>. QED BY <1>0, <1>11, <1>12, <1>13, <1>14, <1>15, <1>16, <1>17, <1>18, <1>19

-------------------------------------------------------------------------------
(***************************************************************************)
(* Flushes from downstream.                                                *)
(***************************************************************************)

LEMMA FlushStartEventKeepsPlaybackInv == ASSUME PlaybackInv, FlushStartEvent PROVE PlaybackInv'
<1>. USE DEF PlaybackInv
<1>0. PullInv'
  BY FlushKeepsInv
<1>1. /\ UNCHANGED <<payload, segment, current_seqnum, byte_position, current_index, pc, output_buffer,
                      seeker, num_seeks, accepted>>
      /\ UNCHANGED <<parse_stage, next_buffer_is_discont, task, stream_lock>>
      /\ payload \in Payloads
  BY DEF FlushStartEvent, stream_vars, loop_vars, peer_vars, seek_vars, FieldsTyped
<1>2. FieldsTyped'
  BY <1>1, SamePayload DEF FlushStartEvent, FieldsTyped
<1>3. HeardTyped'
  <2>1. UNCHANGED <<downstream.seqnum, downstream.start, downstream.stop, downstream.first, downstream.next>>
    BY DEF FlushStartEvent, PullInv, PartiesTyped, Silent
  <2>. QED BY <1>1, <2>1, SamePayload DEF HeardTyped
<1>4. PositionInv'
  BY <1>1, SamePayload DEF PositionInv, FieldsTyped
<1>5. StartInv'
  <2>1. downstream'.seqnum = downstream.seqnum
    BY DEF FlushStartEvent, PullInv, PartiesTyped, Silent
  <2>. QED BY <1>1, <2>1 DEF StartInv
<1>6. OutputInv'
  BY <1>1, SamePayload DEF OutputInv, SamplesInPlace
<1>7. MovingInv'
  <2>1. UNCHANGED <<downstream.seqnum, downstream.eos>>
    BY DEF FlushStartEvent, PullInv, PartiesTyped, Silent
  <2>. QED BY <1>1, <2>1, SamePayload DEF MovingInv, Moving, At
<1>8. HeardInv'
  <2>1. downstream'.flushing
    BY DEF FlushStartEvent, PullInv, PartiesTyped, Silent
  <2>. QED BY <2>1 DEF HeardInv
<1>9. SeqnumInv'
  BY <1>1, SamePayload DEF SeqnumInv, At
<1>10. SegmentInv'
  BY DEF FlushStartEvent, FieldsTyped, SegmentInv, NoFaults
<1>. QED BY <1>0, <1>2, <1>3, <1>4, <1>5, <1>6, <1>7, <1>8, <1>9, <1>10

LEMMA ForwardFlushStartKeepsPlaybackInv == ASSUME PlaybackInv, ForwardFlushStart PROVE PlaybackInv'
<1>. USE DEF PlaybackInv
<1>0. PullInv'
  BY FlushKeepsInv DEF Flush
<1>1. /\ UNCHANGED <<payload, segment, current_seqnum, byte_position, current_index, pc, output_buffer,
                      seeker, num_seeks, accepted>>
      /\ UNCHANGED <<parse_stage, next_buffer_is_discont, task, stream_lock, downstream, num_flushes>>
      /\ payload \in Payloads
      /\ flusher # "idle"
  BY DEF ForwardFlushStart, stream_vars, loop_vars, peer_vars, seek_vars, FieldsTyped
<1>2. FieldsTyped'
  BY <1>1, SamePayload DEF ForwardFlushStart, FieldsTyped
<1>3. HeardTyped'
  BY <1>1, SamePayload DEF HeardTyped
<1>4. PositionInv'
  BY <1>1, SamePayload DEF PositionInv, FieldsTyped
<1>5. StartInv'
  BY <1>1, SamePayload DEF StartInv
<1>6. OutputInv'
  BY <1>1, SamePayload DEF OutputInv, SamplesInPlace
<1>7. MovingInv'
  BY <1>1, SamePayload DEF MovingInv, Moving, At
<1>8. HeardInv'
  BY <1>1, SamePayload DEF HeardInv, InStep, Begins, Moving
<1>9. SeqnumInv'
  BY <1>1, SamePayload DEF SeqnumInv, At
<1>10. SegmentInv'
  BY <1>1, SamePayload DEF SegmentInv, Moving, At, NoFaults
<1>. QED BY <1>0, <1>2, <1>3, <1>4, <1>5, <1>6, <1>7, <1>8, <1>9, <1>10

LEMMA FlushStopEventKeepsPlaybackInv == ASSUME PlaybackInv, FlushStopEvent PROVE PlaybackInv'
<1>. USE DEF PlaybackInv
<1>0. PullInv'
  BY FlushKeepsInv DEF Flush
<1>1. /\ UNCHANGED <<payload, segment, current_seqnum, byte_position, current_index, pc, output_buffer,
                      seeker, num_seeks, accepted>>
      /\ UNCHANGED <<parse_stage, next_buffer_is_discont, task, stream_lock, num_flushes>>
      /\ payload \in Payloads
      /\ flusher # "idle"
  BY DEF FlushStopEvent, stream_vars, loop_vars, peer_vars, seek_vars, FieldsTyped
<1>2. FieldsTyped'
  BY <1>1, SamePayload DEF FlushStopEvent, FieldsTyped
<1>3. HeardTyped'
  <2>1. Duration \in Nat
    BY <1>1, PayloadSizes
  <2>. QED BY <1>1, <2>1, SamePayload DEF FlushStopEvent, HeardTyped, Silent, NoSeqnum, NoStop, NoIndex
<1>4. PositionInv'
  BY <1>1, SamePayload DEF PositionInv, FieldsTyped
<1>5. StartInv'
  BY <1>1 DEF FlushStopEvent, StartInv, Silent
<1>6. OutputInv'
  BY <1>1, SamePayload DEF OutputInv, SamplesInPlace
<1>7. MovingInv'
  BY <1>1, SamePayload DEF FlushStopEvent, MovingInv, Moving, At, Silent
<1>8. HeardInv'
  BY DEF FlushStopEvent, HeardInv, Silent
<1>9. SeqnumInv'
  BY <1>1, SamePayload DEF SeqnumInv, At
<1>10. SegmentInv'
  BY <1>1, SamePayload DEF SegmentInv, Moving, At, NoFaults
<1>. QED BY <1>0, <1>2, <1>3, <1>4, <1>5, <1>6, <1>7, <1>8, <1>9, <1>10

LEMMA EndFlushingKeepsPlaybackInv == ASSUME PlaybackInv, EndFlushing PROVE PlaybackInv'
<1>. USE DEF PlaybackInv
<1>0. PullInv'
  BY FlushKeepsInv DEF Flush
<1>1. /\ UNCHANGED <<payload, segment, current_seqnum, byte_position, current_index, pc, output_buffer,
                      seeker, num_seeks, accepted>>
      /\ UNCHANGED <<parse_stage, next_buffer_is_discont, task, downstream, num_flushes>>
      /\ payload \in Payloads
      /\ flusher # "idle"
      /\ stream_lock = Nobody
  BY DEF EndFlushing, stream_vars, loop_vars, peer_vars, seek_vars, FieldsTyped
<1>2. FieldsTyped'
  BY <1>1, SamePayload DEF EndFlushing, FieldsTyped
<1>3. HeardTyped'
  BY <1>1, SamePayload DEF HeardTyped
<1>4. PositionInv'
  BY <1>1, SamePayload DEF PositionInv, FieldsTyped
<1>5. StartInv'
  BY <1>1, SamePayload DEF StartInv
<1>6. OutputInv'
  BY <1>1, SamePayload DEF OutputInv, SamplesInPlace
<1>7. MovingInv'
  <2>1. stream_lock \notin Seekers
    BY <1>1, SeekersAssumption DEF Nobody
  <2>. QED BY <1>1, <2>1, SamePayload DEF MovingInv, Moving, At
<1>8. HeardInv'
  BY <1>1, SamePayload DEF HeardInv, InStep, Begins, Moving
<1>9. SeqnumInv'
  BY <1>1, SamePayload DEF SeqnumInv, At
<1>10. SegmentInv'
  BY <1>1, SamePayload DEF SegmentInv, Moving, At, NoFaults
<1>. QED BY <1>0, <1>2, <1>3, <1>4, <1>5, <1>6, <1>7, <1>8, <1>9, <1>10

LEMMA RepeatSegmentKeepsPlaybackInv == ASSUME PlaybackInv, RepeatSegment PROVE PlaybackInv'
<1>. USE DEF PlaybackInv
<1>0. PullInv'
  BY FlushKeepsInv DEF Flush
<1>1. /\ UNCHANGED <<payload, segment, current_seqnum, byte_position, current_index, pc, output_buffer,
                      seeker, num_seeks, accepted>>
      /\ UNCHANGED <<stream_lock, num_flushes>>
      /\ payload \in Payloads
      /\ flusher # "idle"
      /\ stream_lock = "flusher"
      /\ flusher = "segment"
  BY DEF RepeatSegment, stream_vars, loop_vars, peer_vars, seek_vars, FieldsTyped, PullInv, LockOwned
<1>2. FieldsTyped'
  BY <1>1, SamePayload DEF RepeatSegment, FieldsTyped
<1>3. HeardTyped'
  <2>1. CASE ShowSegment(current_seqnum)
    <3>1. pc = "top"
      BY <1>1 DEF PullInv, LockOwned
    <3>2. current_seqnum \in Int /\ segment.start \in Int /\ segment.stop \in NoStop .. Duration
      BY <3>1 DEF PositionInv, SeqnumInv, FieldsTyped
    <3>. QED BY <1>1, <2>1, <3>2, ShowSegmentEffect, SamePayload DEF PullInv, HeardTyped
  <2>2. CASE downstream' = downstream
    BY <1>1, <2>2, SamePayload DEF HeardTyped
  <2>. QED BY <2>1, <2>2 DEF RepeatSegment
<1>4. PositionInv'
  <2>1. pc = "top"
    BY <1>1 DEF PullInv, LockOwned
  <2>2. parse_stage' # "ScanningInfo"
    BY <2>1 DEF RepeatSegment, PositionInv
  <2>. QED BY <1>1, <2>1, <2>2, SamePayload DEF PositionInv
<1>5. StartInv'
  <2>1. pc = "top"
    BY <1>1 DEF PullInv, LockOwned
  <2>. QED BY <1>1, <2>1 DEF StartInv
<1>6. OutputInv'
  <2>1. pc = "top"
    BY <1>1 DEF PullInv, LockOwned
  <2>. QED BY <1>1, <2>1 DEF OutputInv
<1>7. MovingInv'
  <2>1. stream_lock \notin Seekers
    BY <1>1, SeekersAssumption
  <2>. QED BY <1>1, <2>1, SamePayload DEF MovingInv, Moving, At
<1>8. HeardInv'
  <2>1. pc = "top"
    BY <1>1 DEF PullInv, LockOwned
  <2>2. segment.start >= 0 /\ segment.start <= TimeOf(current_index + 1)
    BY <2>1 DEF PositionInv
  <2>3. segment # NoSegment
    BY <2>2 DEF NoSegment
  <2>4. CASE downstream' = downstream /\ downstream.flushing
    BY <2>4 DEF HeardInv
  <2>5. CASE ShowSegment(current_seqnum) /\ next_buffer_is_discont' = TRUE
    <3>1. num_flushes # 0
      BY <1>1 DEF FieldsTyped
    <3>2. Begins(current_index)'
      BY <1>1, <2>2, <2>5, <3>1, ShowSegmentEffect, SamePayload DEF PullInv, Begins
    <3>. QED BY <1>1, <2>1, <2>5, <3>2, ShowSegmentEffect DEF PullInv, HeardInv, InStep
  <2>. QED BY <2>3, <2>4, <2>5 DEF RepeatSegment
<1>9. SeqnumInv'
  BY <1>1, SamePayload DEF SeqnumInv, At
<1>10. SegmentInv'
  BY <1>1, SamePayload DEF SegmentInv, Moving, At, NoFaults
<1>. QED BY <1>0, <1>2, <1>3, <1>4, <1>5, <1>6, <1>7, <1>8, <1>9, <1>10

LEMMA ForwardFlushStopKeepsPlaybackInv == ASSUME PlaybackInv, ForwardFlushStop PROVE PlaybackInv'
<1>. USE DEF PlaybackInv
<1>0. PullInv'
  BY FlushKeepsInv DEF Flush
<1>1. /\ UNCHANGED <<payload, segment, current_seqnum, byte_position, current_index, pc, output_buffer,
                      seeker, num_seeks, accepted>>
      /\ UNCHANGED <<parse_stage, next_buffer_is_discont, task, downstream, num_flushes>>
      /\ payload \in Payloads
      /\ flusher # "idle"
      /\ stream_lock = "flusher"
  BY DEF ForwardFlushStop, stream_vars, loop_vars, peer_vars, seek_vars, FieldsTyped, PullInv, LockOwned
<1>2. FieldsTyped'
  BY <1>1, SamePayload DEF ForwardFlushStop, FieldsTyped
<1>3. HeardTyped'
  BY <1>1, SamePayload DEF HeardTyped
<1>4. PositionInv'
  BY <1>1, SamePayload DEF PositionInv, FieldsTyped
<1>5. StartInv'
  BY <1>1, SamePayload DEF StartInv
<1>6. OutputInv'
  BY <1>1, SamePayload DEF OutputInv, SamplesInPlace
<1>7. MovingInv'
  <2>1. stream_lock \notin Seekers
    BY <1>1, SeekersAssumption
  <2>. QED BY <1>1, <2>1, SamePayload DEF MovingInv, Moving, At
<1>8. HeardInv'
  BY <1>1, SamePayload DEF HeardInv, InStep, Begins, Moving
<1>9. SeqnumInv'
  BY <1>1, SamePayload DEF SeqnumInv, At
<1>10. SegmentInv'
  BY <1>1, SamePayload DEF SegmentInv, Moving, At, NoFaults
<1>. QED BY <1>0, <1>2, <1>3, <1>4, <1>5, <1>6, <1>7, <1>8, <1>9, <1>10

-------------------------------------------------------------------------------
(***************************************************************************)
(* The invariant, and what follows from it.                                *)
(***************************************************************************)

LEMMA InitPlaybackInv == Init => PlaybackInv
<1>. SUFFICES ASSUME Init PROVE PlaybackInv
  OBVIOUS
<1>1. PullInv
  BY InitPullInv
<1>2. /\ payload \in Payloads /\ parse_stage = "ScanningInfo" /\ flushing = FALSE
      /\ segment = NoSegment /\ current_seqnum = NoSeqnum /\ next_buffer_is_discont = TRUE
      /\ current_index = 0 /\ task = "started" /\ stream_lock = "task" /\ pc = "scan"
      /\ downstream = Silent /\ flusher = "idle" /\ num_seeks = 0 /\ num_flushes = 0
      /\ accepted = FirstSeqnum
  BY DEF Init
<1>3. byte_position \in {PayloadPosition, EndOfPayload}
  BY DEF Init
<1>4. \A t \in Seekers : seeker[t].place = "idle" /\ ~seeker[t].moved
  BY DEF Init, NotSeeking
<1>5. Duration \in Nat \ {0} /\ PayloadPosition \in Nat /\ EndOfPayload \in Nat /\ PayloadPosition <= EndOfPayload
      /\ TotalNumIndices \in Nat
  BY <1>2, PayloadSizes
<1>6. FieldsTyped
  <2>1. segment \in [start : -1 .. Duration, position : -1 .. Duration, stop : NoStop .. Duration]
    BY <1>2, <1>5 DEF NoSegment, NoStop
  <2>2. num_seeks \in 0 .. MaxSeeks /\ num_flushes \in Nat
    BY <1>2, SizesAssumption
  <2>. QED BY <1>2, <2>1, <2>2 DEF FieldsTyped
<1>7. HeardTyped
  BY <1>2, <1>5 DEF HeardTyped, Silent, NoSeqnum, NoStop, NoIndex
<1>8. PositionInv
  BY <1>2, <1>3, <1>5 DEF PositionInv
<1>9. StartInv
  BY <1>2 DEF StartInv, Silent
<1>10. OutputInv
  BY <1>2 DEF OutputInv
<1>11. MovingInv
  BY <1>4 DEF MovingInv, Moving
<1>12. HeardInv
  BY <1>2 DEF HeardInv, Silent
<1>13. SeqnumInv
  BY <1>2, <1>4 DEF SeqnumInv, At, FirstSeqnum
<1>14. SegmentInv
  BY <1>2, <1>4 DEF SegmentInv, At
<1>. QED BY <1>1, <1>6, <1>7, <1>8, <1>9, <1>10, <1>11, <1>12, <1>13, <1>14 DEF PlaybackInv

LEMMA StutterKeepsPlaybackInv == ASSUME PlaybackInv, UNCHANGED vars PROVE PlaybackInv'
<1>. USE DEF PlaybackInv
<1>0. PullInv'
  BY StutterKeepsInv
<1>1. UNCHANGED <<payload, parse_stage, flushing, segment, current_seqnum, next_buffer_is_discont,
                  byte_position, current_index, task, stream_lock, pc, output_buffer, downstream,
                  seeker, num_seeks, accepted, flusher, num_flushes>>
  BY DEF vars, stream_vars, loop_vars, peer_vars, seek_vars, flush_vars
<1>2. FieldsTyped' /\ HeardTyped' /\ PositionInv' /\ StartInv'
  BY <1>1, SamePayload DEF FieldsTyped, HeardTyped, PositionInv, StartInv
<1>3. OutputInv'
  BY <1>1, SamePayload DEF OutputInv, SamplesInPlace
<1>4. MovingInv' /\ HeardInv'
  BY <1>1, SamePayload DEF MovingInv, HeardInv, InStep, Begins, Moving, At
<1>5. SeqnumInv' /\ SegmentInv'
  BY <1>1 DEF SeqnumInv, SegmentInv, Moving, At
<1>. QED BY <1>0, <1>2, <1>3, <1>4, <1>5

LEMMA StepKeepsPlaybackInv == ASSUME PlaybackInv, [Next]_vars PROVE PlaybackInv'
<1>1. CASE Task
  BY <1>1, ScanningFinishedKeepsPlaybackInv, StartStreamingKeepsPlaybackInv, ResumeTaskKeepsPlaybackInv,
     YieldLockKeepsPlaybackInv, StartIterationKeepsPlaybackInv, ProduceOutputKeepsPlaybackInv,
     PullFlushedKeepsPlaybackInv, ReachEosKeepsPlaybackInv, PushFlushedKeepsPlaybackInv DEF Task
<1>2. CASE PushAccepted \/ PushEnded
  BY <1>2, PushAcceptedKeepsPlaybackInv, PushEndedKeepsPlaybackInv
<1>3. CASE \E t \in Seekers : CheckSeek(t) \/ Seek(t)
  BY <1>3, CheckSeekKeepsPlaybackInv, FlushStartUpstreamKeepsPlaybackInv, FlushStartDownstreamKeepsPlaybackInv,
     StopLoopKeepsPlaybackInv, TakeStreamLockKeepsPlaybackInv, PerformSeekKeepsPlaybackInv,
     RefuseSeekKeepsPlaybackInv, FlushStopUpstreamKeepsPlaybackInv, FlushStopDownstreamKeepsPlaybackInv,
     PushSeekSegmentKeepsPlaybackInv, RestartLoopKeepsPlaybackInv DEF Seek
<1>4. CASE FlushStartEvent \/ Flush
  BY <1>4, FlushStartEventKeepsPlaybackInv, ForwardFlushStartKeepsPlaybackInv, FlushStopEventKeepsPlaybackInv,
     EndFlushingKeepsPlaybackInv, RepeatSegmentKeepsPlaybackInv, ForwardFlushStopKeepsPlaybackInv DEF Flush
<1>. QED BY <1>1, <1>2, <1>3, <1>4, StutterKeepsPlaybackInv DEF Next

\* The invariant holds throughout.
THEOREM PlaybackInvHolds == Spec => []PlaybackInv
<1>1. PlaybackInv /\ [Next]_vars => PlaybackInv'
  BY StepKeepsPlaybackInv
<1>. QED BY InitPlaybackInv, <1>1, PTL DEF Spec

\* Position, index and segment stay inside the payload (gstdsdmediaparse.cpp:1574, :2587), and
\* no seek is performed that was not let in.
THEOREM FieldsStayTyped == Spec => []TypeOK
<1>1. PlaybackInv => TypeOK
  <2>. SUFFICES ASSUME PlaybackInv PROVE TypeOK
    OBVIOUS
  <2>1. FieldsTyped /\ PositionInv /\ SeqnumInv
    BY DEF PlaybackInv
  <2>2. accepted \in 0 .. MaxSeeks
    BY <2>1, SizesAssumption DEF FieldsTyped, SeqnumInv
  <2>. QED BY <2>1, <2>2 DEF FieldsTyped, PositionInv, TypeOK
<1>. QED BY PlaybackInvHolds, <1>1, PTL

\* gst_dsfparse_produce_output(): every byte of a buffer that the task pushes is the sample of
\* its channel that the buffer's index stands for, and silence past the last sample.
THEOREM SamplesStayInPlace == Spec => []SamplesInPlace
<1>1. PlaybackInv => SamplesInPlace
  BY DEF PlaybackInv, OutputInv, SamplesInPlace
<1>. QED BY PlaybackInvHolds, <1>1, PTL

\* When downstream may take a buffer, nobody is about to tell it of another segment.
LEMMA NobodyMovesInPush ==
  ASSUME PlaybackInv, pc = "push"
  PROVE  \A t \in Seekers : ~Moving(t)
BY SeekersAssumption DEF PlaybackInv, PullInv, LockOwned, MovingInv, Moving

LEMMA BufferFollows ==
  ASSUME PlaybackInv, PushAccepted, downstream.seqnum # NoSeqnum
  PROVE  IF downstream.next = NoIndex
         THEN /\ output_buffer.discont
              /\ num_flushes = 0 => TimeOf(output_buffer.index) <= downstream.start
              /\ downstream.start <= TimeOf(output_buffer.index + 1)
         ELSE ~output_buffer.discont /\ output_buffer.index = downstream.next
<1>1. InStep /\ pc = "push"
  BY NobodyMovesInPush DEF PushAccepted, PlaybackInv, HeardInv
<1>. QED BY <1>1 DEF InStep, Begins

\* The first buffer of a segment is a discontinuity at its start, and each further one continues
\* the one before it, through whatever seeks and flushes come in between
\* (gstdsdmediaparse.cpp:1590, :2594).
THEOREM BuffersAlwaysFollowSegment == Spec => BuffersFollowSegment
<1>1. PlaybackInv /\ [Next]_vars =>
        [PushAccepted /\ downstream.seqnum # NoSeqnum =>
           IF downstream.next = NoIndex
           THEN /\ output_buffer.discont
                /\ num_flushes = 0 => TimeOf(output_buffer.index) <= downstream.start
                /\ downstream.start <= TimeOf(output_buffer.index + 1)
           ELSE ~output_buffer.discont /\ output_buffer.index = downstream.next]_vars
  BY BufferFollows
<1>. QED BY PlaybackInvHolds, <1>1, PTL DEF Spec, BuffersFollowSegment

\* The block groups before a stop are those before an index that lies there.
LEMMA GroupsBound ==
  ASSUME payload \in Payloads, NEW stop \in Int
  PROVE  /\ GroupsBefore(stop) \in 0 .. WholeGroups
         /\ \A i \in Nat : stop # NoStop /\ TimeOf(i) >= stop => GroupsBefore(stop) <= i
<1>. DEFINE Groups == {group \in 0 .. WholeGroups - 1 : TimeOf(group) < stop}
<1>1. WholeGroups \in Nat
  BY PayloadSizes
<1>2. \A n \in Nat : IsFiniteSet(0 .. n - 1) /\ Cardinality(0 .. n - 1) = n
  <2>. SUFFICES ASSUME NEW n \in Nat PROVE IsFiniteSet(0 .. n - 1) /\ Cardinality(0 .. n - 1) = n
    OBVIOUS
  <2>. QED BY FS_Interval
<1>3. \A n \in Nat : Groups \subseteq 0 .. n - 1 => Cardinality(Groups) \in 0 .. n
  <2>. SUFFICES ASSUME NEW n \in Nat, Groups \subseteq 0 .. n - 1 PROVE Cardinality(Groups) \in 0 .. n
    OBVIOUS
  <2>1. IsFiniteSet(Groups) /\ Cardinality(Groups) <= Cardinality(0 .. n - 1)
    BY <1>2, FS_Subset
  <2>2. Cardinality(Groups) \in Nat
    BY <2>1, FS_CardinalityType
  <2>. QED BY <1>2, <2>1, <2>2
<1>4. ASSUME NEW i \in Nat, stop # NoStop, TimeOf(i) >= stop PROVE GroupsBefore(stop) <= i
  <2>1. ASSUME NEW group \in Groups PROVE group < i
    <3>1. group \in Nat /\ TimeOf(group) < stop
      BY <1>1
    <3>2. ~(i <= group)
      <4>1. TimeOf(i) \in Int /\ TimeOf(group) \in Int
        BY <3>1, TimeOfTyped, PayloadSizes
      <4>. QED BY <1>4, <3>1, <4>1, TimeOfMonotone
    <3>. QED BY <3>1, <3>2
  <2>2. Groups \subseteq 0 .. i - 1
    BY <1>1, <2>1
  <2>. QED BY <1>3, <1>4, <2>2 DEF GroupsBefore
<1>5. GroupsBefore(stop) \in 0 .. WholeGroups
  <2>1. Groups \subseteq 0 .. WholeGroups - 1
    OBVIOUS
  <2>. QED BY <1>1, <1>3, <2>1 DEF GroupsBefore
<1>. QED BY <1>4, <1>5

LEMMA EosAfterAll ==
  ASSUME PlaybackInv, Next, downstream'.eos, ~downstream.eos, downstream.seqnum # NoSeqnum
  PROVE  IF downstream.next = NoIndex
         THEN num_flushes = 0 => downstream.start >= TimeOf(GroupsBefore(downstream.stop))
         ELSE downstream.next \in GroupsBefore(downstream.stop) .. WholeGroups
<1>. USE DEF PlaybackInv
<1>1. ReachEos \/ PushEnded
  <2>1. DOMAIN downstream = DOMAIN Silent
    BY DEF PullInv, PartiesTyped
  <2>2. ~(downstream'.eos = downstream.eos) /\ downstream' # Silent
    <3>1. Silent.eos = FALSE
      BY DEF Silent
    <3>2. downstream'.eos /\ ~downstream.eos
      OBVIOUS
    <3>3. ASSUME downstream' = Silent PROVE FALSE
      <4>1. downstream'.eos = FALSE
        BY <3>1, <3>3
      <4>. QED BY <3>2, <4>1
    <3>4. ASSUME downstream'.eos = downstream.eos PROVE FALSE
      BY ONLY <3>2, <3>4, Zenon
    <3>. QED BY <3>3, <3>4
  <2>3. CASE Task
    BY <2>1, <2>2, <2>3 DEF Task, ScanningFinished, StartStreaming, ResumeTask, YieldLock, StartIteration,
       ProduceOutput, PullFlushed, PushFlushed, ShowSegment, Silent, peer_vars
  <2>4. CASE PushAccepted
    BY <2>1, <2>2, <2>4 DEF PushAccepted, Silent
  <2>5. CASE \E t \in Seekers : CheckSeek(t) \/ Seek(t)
    <3>1. PICK t \in Seekers : CheckSeek(t) \/ Seek(t)
      BY <2>5
    <3>2. CASE FlushStartDownstream(t)
      BY <2>1, <2>2, <3>2 DEF FlushStartDownstream, Silent
    <3>3. CASE FlushStopDownstream(t)
      BY <2>2, <3>3 DEF FlushStopDownstream
    <3>4. CASE PushSeekSegment(t)
      BY <2>1, <2>2, <3>4 DEF PushSeekSegment, ShowSegment, Silent
    <3>5. CASE \E request \in Requests : PerformSeek(t, request)
      BY <2>2, <3>5 DEF PerformSeek, peer_vars
    <3>. QED BY <2>2, <3>1, <3>2, <3>3, <3>4, <3>5 DEF Seek, CheckSeek, FlushStartUpstream, StopLoop,
             TakeStreamLock, RefuseSeek, FlushStopUpstream, RestartLoop, peer_vars
  <2>6. CASE FlushStartEvent \/ Flush
    BY <2>1, <2>2, <2>6 DEF Flush, FlushStartEvent, ForwardFlushStart, FlushStopEvent, EndFlushing,
       RepeatSegment, ForwardFlushStop, ShowSegment, Silent, peer_vars
  <2>. QED BY <2>3, <2>4, <2>5, <2>6 DEF Next
<1>2. ~downstream.flushing /\ pc \in {"produce", "push"}
  BY <1>1 DEF ReachEos, PushEnded, PullInv, PartiesTyped, Silent
<1>3. InStep
  <2>1. \A t \in Seekers : ~Moving(t)
    BY <1>2, SeekersAssumption DEF PullInv, LockOwned, MovingInv, Moving
  <2>. QED BY <1>2, <2>1 DEF HeardInv
<1>. DEFINE index == IF pc = "push" THEN output_buffer.index ELSE current_index
<1>4. payload \in Payloads /\ downstream.stop \in Int /\ index \in Nat /\ WholeGroups \in Nat
  <2>1. payload \in Payloads
    BY DEF FieldsTyped
  <2>. QED BY <2>1, PayloadSizes DEF HeardTyped, OutputInv, PositionInv, NoStop
<1>5. GroupsBefore(downstream.stop) \in 0 .. WholeGroups /\ GroupsBefore(downstream.stop) <= index
  <2>1. CASE ReachEos
    <3>1. payload.size - BytesOf(current_index) < Alignment
      BY <1>4, <2>1, PayloadSizes, BytesOfIndex DEF ReachEos, NumAvailablePayloadBytes, EndOfPayload, PositionInv
    <3>2. WholeGroups <= index
      BY <1>4, <2>1, <3>1, BytesOfIndex DEF ReachEos
    <3>. QED BY <1>4, <3>2, GroupsBound
  <2>2. CASE PushEnded
    BY <1>4, <2>2, GroupsBound DEF PushEnded
  <2>. QED BY <1>1, <2>1, <2>2
<1>6. CASE downstream.next = NoIndex
  <2>1. Begins(index)
    BY <1>3, <1>6 DEF InStep
  <2>2. /\ TimeOf(GroupsBefore(downstream.stop)) <= TimeOf(index)
        /\ TimeOf(GroupsBefore(downstream.stop)) \in Int /\ TimeOf(index) \in Int /\ downstream.start \in Int
    BY <1>4, <1>5, TimeOfMonotone, TimeOfTyped, PayloadSizes DEF HeardTyped
  <2>. QED BY <1>6, <2>1, <2>2 DEF Begins
<1>7. CASE downstream.next # NoIndex
  <2>1. downstream.next = index
    BY <1>3, <1>7 DEF InStep
  <2>2. downstream.next \in 1 .. WholeGroups
    BY <1>7 DEF HeardTyped
  <2>. QED BY <1>4, <1>5, <1>7, <2>1, <2>2
<1>. QED BY <1>6, <1>7

\* gst_dsfparse_produce_output() and the EOS case of the loop (gstdsdmediaparse.cpp:1632): the end
\* is announced when all block groups from the segment's start to its stop have been pushed.
THEOREM EosOnlyAfterAll == Spec => EosMeansAllPlayed
<1>1. PlaybackInv /\ [Next]_vars =>
        [downstream'.eos /\ ~downstream.eos /\ downstream.seqnum # NoSeqnum =>
           IF downstream.next = NoIndex
           THEN num_flushes = 0 => downstream.start >= TimeOf(GroupsBefore(downstream.stop))
           ELSE downstream.next \in GroupsBefore(downstream.stop) .. WholeGroups]_vars
  BY EosAfterAll
<1>. QED BY PlaybackInvHolds, <1>1, PTL DEF Spec, EosMeansAllPlayed

LEMMA SeekSpansBytes ==
  ASSUME PlaybackInv, NEW t \in Seekers, NEW request \in Requests, PerformSeek(t, request),
         request.format = "BYTES", NEW group \in 0 .. WholeGroups - 1
  PROVE  /\ request.start # Here /\ request.start < (group + 1) * Alignment =>
              segment'.start <= TimeOf(group)
         /\ request.stop >= 0 /\ group * Alignment < request.stop =>
              segment'.stop >= TimeOf(group + 1)
<1>1. payload \in Payloads /\ pc # "scan" /\ FieldsTyped /\ PositionInv
  BY SeekersAssumption DEF PlaybackInv, FieldsTyped, PullInv, LockOwned, PerformSeek
<1>2. /\ Alignment \in Nat \ {0} /\ payload.size \in Nat /\ TotalNumIndices \in Nat /\ group \in Nat
      /\ WholeGroups \in Nat /\ WholeGroups = payload.size \div Alignment
  BY <1>1, PayloadSizes
<1>3. /\ segment'.start = SegmentStart(request) /\ segment'.stop = SegmentStop(request)
  BY DEF PerformSeek
<1>4. (group + 1) * Alignment <= payload.size
  <2>1. group + 1 \in Nat /\ group + 1 <= WholeGroups
    BY <1>2
  <2>. QED BY <1>2, <2>1, DivAtLeast
<1>5. /\ request.start = Here \/ request.start \in Nat
      /\ request.stop = KeepStop \/ request.stop = NoStop \/ request.stop \in Nat
  BY SizesAssumption DEF Requests
<1>6. ASSUME request.start # Here, request.start < (group + 1) * Alignment
      PROVE  SegmentStart(request) <= TimeOf(group)
  <2>1. StartFormat(request) = "BYTES" /\ request.start \in Nat
    BY <1>5, <1>6 DEF StartFormat
  <2>2. Clamped("BYTES", request.start) \in Nat /\ Clamped("BYTES", request.start) < (group + 1) * Alignment
    BY <1>2, <1>6, <2>1 DEF Clamped, Least
  <2>3. SeekIndex(request) = ToIndex("BYTES", Clamped("BYTES", request.start))
    BY <1>6, <2>1 DEF SeekIndex, NormalizedStart, StartFormat
  <2>4. SeekIndex(request) \in Nat /\ SeekIndex(request) <= group
    BY <1>1, <1>2, <2>2, <2>3, BytesToIndex
  <2>5. SegmentStart(request) = TimeOf(SeekIndex(request))
    BY <2>1 DEF SegmentStart
  <2>. QED BY <1>1, <1>2, <2>4, <2>5, TimeOfMonotone
<1>7. ASSUME request.stop >= 0, group * Alignment < request.stop
      PROVE  SegmentStop(request) >= TimeOf(group + 1)
  <2>1. request.stop \in Nat
    BY <1>5, <1>7 DEF KeepStop, NoStop
  <2>2. group * Alignment < payload.size
    BY <1>2, <1>4
  <2>3. Clamped("BYTES", request.stop) \in Nat /\ group * Alignment < Clamped("BYTES", request.stop)
    BY <1>2, <1>7, <2>1, <2>2 DEF Clamped, Least
  <2>4. /\ ToIndexRoundingUp(Clamped("BYTES", request.stop)) \in Nat
        /\ group + 1 <= ToIndexRoundingUp(Clamped("BYTES", request.stop))
    BY <1>1, <1>2, <2>3, BytesToIndex
  <2>5. SegmentStop(request) = TimeOf(ToIndexRoundingUp(Clamped("BYTES", request.stop)))
    BY <2>1 DEF SegmentStop, KeepStop, NoStop
  <2>6. /\ TimeOf(group + 1) <= SegmentStop(request)
        /\ TimeOf(group + 1) \in Int /\ SegmentStop(request) \in Int
    BY <1>1, <1>2, <2>4, <2>5, TimeOfMonotone, TimeOfTyped, PayloadSizes
  <2>. QED BY <2>6
<1>. QED BY <1>3, <1>6, <1>7

\* common_seek_procedures() (gstdsdmediaparse.cpp:2349, :2434): neither rounding takes a block
\* group from a segment that was asked for in bytes.
THEOREM SegmentsSpanBytes == Spec => SegmentSpansBytes
<1>1. PlaybackInv /\ [Next]_vars =>
        [\A t \in Seekers, request \in Requests :
           PerformSeek(t, request) /\ request.format = "BYTES" =>
             \A group \in 0 .. WholeGroups - 1 :
               /\ request.start # Here /\ request.start < (group + 1) * Alignment =>
                    segment'.start <= TimeOf(group)
               /\ request.stop >= 0 /\ group * Alignment < request.stop =>
                    segment'.stop >= TimeOf(group + 1)]_vars
  BY SeekSpansBytes
<1>. QED BY PlaybackInvHolds, <1>1, PTL DEF Spec, SegmentSpansBytes

-------------------------------------------------------------------------------
(***************************************************************************)
(* Every step of the element is a step of SeekContract, or changes nothing *)
(* of what it speaks of, when nothing but seeks disturbs the stream.       *)
(***************************************************************************)

\* A pad only takes a buffer, or an end, after a segment.
LEMMA SegmentIsHeard ==
  ASSUME PlaybackInv, NoFaults, pc \in {"produce", "push"}, ~downstream.flushing
  PROVE  downstream.seqnum # NoSeqnum
<1>1. \A t \in Seekers : ~Moving(t)
  BY SeekersAssumption DEF PlaybackInv, PullInv, LockOwned, MovingInv, Moving
<1>. QED BY <1>1 DEF PlaybackInv, SegmentInv

\* gst_dsd_media_parse_handle_src_seek_event(): a seek pushes its segment before it lets the loop
\* go on (gstdsdmediaparse.cpp:2255), so that no buffer comes without one.
THEOREM SegmentAlwaysComesFirst == ASSUME NoFaults PROVE Spec => SegmentComesFirst
<1>1. PlaybackInv /\ [Next]_vars => [PushAccepted => downstream.seqnum # NoSeqnum]_vars
  BY SegmentIsHeard DEF PushAccepted
<1>. QED BY PlaybackInvHolds, <1>1, PTL DEF Spec, SegmentComesFirst

LEMMA SameGroups ==
  ASSUME payload' = payload
  PROVE  /\ WholeGroups' = WholeGroups
         /\ GroupsBefore(downstream.stop)' = GroupsBefore(downstream'.stop)
BY DEF GroupsBefore, WholeGroups, TimeOf, Duration, TotalNumIndices, Least, Alignment

LEMMA NothingHeard == GroupsBefore(NoStop) = WholeGroups
BY DEF GroupsBefore

LEMMA ContractUnchanged ==
  ASSUME payload' = payload, accepted' = accepted, current_seqnum' = current_seqnum,
         parse_stage' = parse_stage, downstream'.seqnum = downstream.seqnum,
         downstream'.first = downstream.first, downstream'.next = downstream.next,
         downstream'.stop = downstream.stop, downstream'.eos = downstream.eos
  PROVE  UNCHANGED Contract!vars
BY SameGroups DEF Contract!vars

LEMMA InitContract == ASSUME Init PROVE Contract!Init
<1>1. payload \in Payloads
  BY DEF Init
<1>2. WholeGroups \in Nat
  BY <1>1, PayloadSizes
<1>. QED BY <1>2, NothingHeard DEF Init, Contract!Init, Contract!Nothing, Contract!None, Silent, NoSeqnum,
     FirstSeqnum, NoIndex

LEMMA ContractScanningFinished ==
  ASSUME PlaybackInv, ScanningFinished
  PROVE  Contract!Serve
<1>1. accepted = FirstSeqnum /\ parse_stage = "ScanningInfo"
  BY DEF ScanningFinished, PlaybackInv, StartInv, PositionInv
<1>2. UNCHANGED <<payload, downstream, accepted>> /\ current_seqnum' = accepted /\ parse_stage' = "Streaming"
  BY <1>1 DEF ScanningFinished, peer_vars, seek_vars
<1>. QED BY <1>1, <1>2, SameGroups DEF Contract!Serve

\* A segment is announced, with the seqnum that the element works for.
LEMMA ContractAnnounce ==
  ASSUME PlaybackInv, ShowSegment(current_seqnum), current_seqnum # NoSeqnum,
         UNCHANGED <<payload, accepted, current_seqnum, parse_stage>>
  PROVE  Contract!Announce
<1>1. /\ downstream'.seqnum = current_seqnum /\ downstream'.stop = segment.stop
      /\ downstream'.first = NoIndex /\ downstream'.next = NoIndex /\ downstream'.eos = downstream.eos
  BY ShowSegmentEffect DEF PlaybackInv, PullInv
<1>2. GroupsBefore(segment.stop) \in 0 .. WholeGroups
  <2>1. payload \in Payloads /\ segment.stop \in Int
    BY PayloadSizes DEF PlaybackInv, FieldsTyped, NoStop
  <2>. QED BY <2>1, GroupsBound
<1>. DEFINE Heard(last) == [seqnum |-> current_seqnum, first |-> NoIndex, next |-> NoIndex, last |-> last]
<1>3. \A last : [Contract!Nothing EXCEPT !.seqnum = current_seqnum, !.last = last] = Heard(last)
  <2>1. Contract!Nothing = [seqnum |-> NoIndex, first |-> NoIndex, next |-> NoIndex, last |-> WholeGroups]
    BY DEF Contract!Nothing, Contract!None, NoIndex
  <2>2. ASSUME NEW last, NEW old, NEW new,
               old = [seqnum |-> NoIndex, first |-> NoIndex, next |-> NoIndex, last |-> WholeGroups],
               new = [old EXCEPT !.seqnum = current_seqnum, !.last = last]
        PROVE  new = Heard(last)
    BY ONLY <2>2
  <2>3. ASSUME NEW last
        PROVE  [Contract!Nothing EXCEPT !.seqnum = current_seqnum, !.last = last] = Heard(last)
    <3>. DEFINE new == [Contract!Nothing EXCEPT !.seqnum = current_seqnum, !.last = last]
    <3>. HIDE DEF new
    <3>1. new = [Contract!Nothing EXCEPT !.seqnum = current_seqnum, !.last = last]
      BY DEF new
    <3>2. new = Heard(last)
      BY ONLY <2>1, <2>2, <3>1
    <3>. QED BY <3>1, <3>2, Zenon
  <2>. QED BY <2>3
<1>4. [seqnum |-> downstream.seqnum, first |-> downstream.first, next |-> downstream.next,
       last |-> GroupsBefore(downstream.stop)]' = Heard(GroupsBefore(segment.stop))
  BY <1>1, SameGroups
<1>5. \E last \in 0 .. WholeGroups :
        [seqnum |-> downstream.seqnum, first |-> downstream.first, next |-> downstream.next,
         last |-> GroupsBefore(downstream.stop)]' = [Contract!Nothing EXCEPT !.seqnum = current_seqnum, !.last = last]
  BY ONLY <1>2, <1>3, <1>4, Zenon
<1>6. /\ UNCHANGED <<WholeGroups, accepted, current_seqnum>> /\ downstream'.eos = downstream.eos
      /\ (parse_stage = "StreamFailure")' = (parse_stage = "StreamFailure")
      /\ current_seqnum # Contract!None
  BY <1>1, SameGroups DEF Contract!None, NoSeqnum
<1>. QED BY <1>5, <1>6, Zenon DEF Contract!Announce

LEMMA ContractStartStreaming ==
  ASSUME PlaybackInv, StartStreaming
  PROVE  Contract!Next \/ UNCHANGED Contract!vars
<1>1. pc = "announce" /\ UNCHANGED <<payload, current_seqnum, accepted>>
  BY DEF StartStreaming, stream_vars, seek_vars
<1>2. CASE ShowSegment(current_seqnum) /\ UNCHANGED parse_stage
  <2>1. current_seqnum # NoSeqnum
    BY <1>1 DEF PlaybackInv, PositionInv, StartInv, FirstSeqnum, NoSeqnum
  <2>. QED BY <1>1, <1>2, <2>1, ContractAnnounce DEF Contract!Next
<1>3. CASE UNCHANGED <<parse_stage, downstream>>
  BY <1>1, <1>3, ContractUnchanged
<1>4. CASE parse_stage' = "StreamFailure" /\ UNCHANGED downstream
  BY <1>1, <1>4, SameGroups DEF Contract!Fail, Contract!Next
<1>. QED BY <1>2, <1>3, <1>4 DEF StartStreaming

LEMMA ContractPushAccepted ==
  ASSUME PlaybackInv, NoFaults, PushAccepted
  PROVE  Contract!Play
<1>1. /\ pc = "push" /\ ~downstream.flushing /\ ~downstream.eos
      /\ UNCHANGED <<payload, accepted, current_seqnum, parse_stage>>
  BY DEF PushAccepted, stream_vars, seek_vars
<1>2. /\ downstream'.seqnum = downstream.seqnum /\ downstream'.stop = downstream.stop
      /\ downstream'.eos = downstream.eos
      /\ downstream'.first = output_buffer.index /\ downstream'.next = output_buffer.index + 1
  BY DEF PushAccepted, PlaybackInv, PullInv, PartiesTyped, Silent
<1>3. downstream.seqnum # NoSeqnum
  BY <1>1, SegmentIsHeard
<1>4. downstream.next \in {NoIndex, output_buffer.index}
  BY <1>3, BufferFollows
<1>5. output_buffer.index \in 0 .. WholeGroups /\ output_buffer.index + 1 \in 0 .. WholeGroups
  <2>1. payload \in Payloads
    BY DEF PlaybackInv, FieldsTyped
  <2>2. WholeGroups \in Nat
    BY <2>1, PayloadSizes
  <2>. QED BY <1>1, <2>2 DEF PlaybackInv, OutputInv
<1>6. output_buffer.index < output_buffer.index + 1
  BY <1>5
<1>. DEFINE heard == [seqnum |-> downstream.seqnum, first |-> downstream.first, next |-> downstream.next,
                     last |-> GroupsBefore(downstream.stop)]
<1>7. heard' = [heard EXCEPT !.first = output_buffer.index, !.next = output_buffer.index + 1]
  <2>1. heard' = [seqnum |-> downstream.seqnum, first |-> output_buffer.index, next |-> output_buffer.index + 1,
                  last |-> GroupsBefore(downstream.stop)]
    BY <1>1, <1>2, SameGroups
  <2>. DEFINE new == [heard EXCEPT !.first = output_buffer.index, !.next = output_buffer.index + 1]
  <2>. HIDE DEF new
  <2>2. new = [heard EXCEPT !.first = output_buffer.index, !.next = output_buffer.index + 1]
    BY DEF new
  <2>3. new = [seqnum |-> downstream.seqnum, first |-> output_buffer.index, next |-> output_buffer.index + 1,
               last |-> GroupsBefore(downstream.stop)]
    BY ONLY <2>2
  <2>. QED BY <2>1, <2>2, <2>3, Zenon
<1>8. heard.seqnum # Contract!None /\ heard.next \in {Contract!None, output_buffer.index}
  BY <1>3, <1>4 DEF Contract!None, NoSeqnum, NoIndex
<1>9. \E first, next \in 0 .. WholeGroups :
        /\ heard.next \in {Contract!None, first} /\ first < next
        /\ heard' = [heard EXCEPT !.first = first, !.next = next]
  BY ONLY <1>5, <1>6, <1>7, <1>8, Zenon
<1>10. /\ UNCHANGED <<WholeGroups, accepted, current_seqnum>> /\ downstream'.eos = downstream.eos
       /\ (parse_stage = "StreamFailure")' = (parse_stage = "StreamFailure")
  BY <1>1, <1>2, SameGroups
<1>. QED BY <1>1, <1>8, <1>9, <1>10, Zenon DEF Contract!Play

LEMMA ContractEnd ==
  ASSUME PlaybackInv, NoFaults, Next, ReachEos \/ PushEnded
  PROVE  Contract!End \/ UNCHANGED Contract!vars
<1>1. pc \in {"produce", "push"} /\ UNCHANGED <<payload, accepted, current_seqnum, parse_stage>>
  BY DEF ReachEos, PushEnded, stream_vars, seek_vars
<1>2. /\ downstream'.seqnum = downstream.seqnum /\ downstream'.stop = downstream.stop
      /\ downstream'.first = downstream.first /\ downstream'.next = downstream.next
  BY DEF ReachEos, PushEnded, PlaybackInv, PullInv, PartiesTyped, Silent
<1>3. \/ downstream'.eos = downstream.eos
      \/ downstream'.eos = TRUE /\ downstream.eos = FALSE /\ ~downstream.flushing
  BY DEF ReachEos, PushEnded, PlaybackInv, PullInv, PartiesTyped, Silent
<1>4. CASE downstream'.eos = TRUE /\ downstream.eos = FALSE /\ ~downstream.flushing
  <2>1. downstream.seqnum # NoSeqnum
    BY <1>1, <1>4, SegmentIsHeard
  <2>2. downstream.next = NoIndex \/ downstream.next \in GroupsBefore(downstream.stop) .. WholeGroups
    BY <1>4, <2>1, EosAfterAll
  <2>. QED BY <1>1, <1>2, <1>4, <2>1, <2>2, SameGroups DEF Contract!End, Contract!None, NoSeqnum, NoIndex
<1>. QED BY <1>1, <1>2, <1>3, <1>4, ContractUnchanged

LEMMA ContractPerformSeek ==
  ASSUME PlaybackInv, NEW t \in Seekers, NEW request \in Requests, PerformSeek(t, request)
  PROVE  Contract!Ask
<1>1. /\ UNCHANGED <<payload, parse_stage, downstream>> /\ At(t, "locked")
      /\ accepted' = seeker[t].seqnum /\ current_seqnum' = seeker[t].seqnum
  BY DEF PerformSeek, peer_vars
<1>2. seeker[t].seqnum \in 1 .. MaxSeeks /\ seeker[t].seqnum # accepted
  BY <1>1, SizesAssumption DEF PlaybackInv, FieldsTyped, SeqnumInv, At
<1>. QED BY <1>1, <1>2, SameGroups DEF Contract!Ask, Contract!Seeks

LEMMA ContractFlushStop ==
  ASSUME PlaybackInv, NEW t \in Seekers, FlushStopDownstream(t)
  PROVE  Contract!Silence \/ UNCHANGED Contract!vars
<1>1. UNCHANGED <<payload, accepted, current_seqnum, parse_stage>>
  BY DEF FlushStopDownstream, stream_vars
<1>2. CASE downstream' = Silent
  BY <1>1, <1>2, SameGroups, NothingHeard
  DEF Contract!Silence, Contract!Nothing, Contract!None, Silent, NoSeqnum, NoIndex
<1>3. CASE downstream' = downstream
  BY <1>1, <1>3, ContractUnchanged
<1>. QED BY <1>2, <1>3 DEF FlushStopDownstream

LEMMA ContractPushSegment ==
  ASSUME PlaybackInv, NEW t \in Seekers, PushSeekSegment(t)
  PROVE  Contract!Announce \/ UNCHANGED Contract!vars
<1>1. UNCHANGED <<payload, accepted, current_seqnum, parse_stage>> /\ At(t, "segment")
  BY DEF PushSeekSegment, stream_vars
<1>2. CASE seeker[t].moved /\ ShowSegment(seeker[t].seqnum)
  <2>1. current_seqnum = seeker[t].seqnum
    BY <1>1, <1>2 DEF PlaybackInv, MovingInv, Moving, At
  <2>2. seeker[t].seqnum # NoSeqnum
    BY <1>1 DEF PlaybackInv, FieldsTyped, SeqnumInv, At, NoSeqnum
  <2>. QED BY <1>1, <1>2, <2>1, <2>2, ContractAnnounce
<1>3. CASE downstream' = downstream
  BY <1>1, <1>3, ContractUnchanged
<1>. QED BY <1>2, <1>3 DEF PushSeekSegment

LEMMA ContractOtherSeekSteps ==
  ASSUME PlaybackInv, NEW t \in Seekers,
         \/ CheckSeek(t) \/ FlushStartUpstream(t) \/ FlushStartDownstream(t) \/ StopLoop(t)
         \/ TakeStreamLock(t) \/ RefuseSeek(t) \/ FlushStopUpstream(t) \/ RestartLoop(t)
  PROVE  UNCHANGED Contract!vars
<1>1. UNCHANGED <<payload, accepted, current_seqnum, parse_stage>>
  BY DEF CheckSeek, FlushStartUpstream, FlushStartDownstream, StopLoop, TakeStreamLock, RefuseSeek,
     FlushStopUpstream, RestartLoop, stream_vars
<1>2. /\ downstream'.seqnum = downstream.seqnum /\ downstream'.stop = downstream.stop
      /\ downstream'.first = downstream.first /\ downstream'.next = downstream.next
      /\ downstream'.eos = downstream.eos
  <2>1. CASE FlushStartDownstream(t)
    <3>1. PICK taken \in Outcomes : downstream' = [downstream EXCEPT !.flushing = @ \/ taken]
      BY <2>1 DEF FlushStartDownstream
    <3>. QED BY <3>1 DEF PlaybackInv, PullInv, PartiesTyped, Silent
  <2>. QED BY <2>1 DEF CheckSeek, FlushStartUpstream, StopLoop, TakeStreamLock, RefuseSeek,
       FlushStopUpstream, RestartLoop, peer_vars
<1>. QED BY <1>1, <1>2, ContractUnchanged

LEMMA ContractOtherTaskSteps ==
  ASSUME ResumeTask \/ YieldLock \/ StartIteration \/ ProduceOutput \/ PullFlushed \/ PushFlushed
  PROVE  UNCHANGED Contract!vars
<1>1. UNCHANGED <<payload, accepted, current_seqnum, parse_stage, downstream>>
  BY DEF ResumeTask, YieldLock, StartIteration, ProduceOutput, PullFlushed, PushFlushed, stream_vars,
     peer_vars, seek_vars
<1>. QED BY <1>1, ContractUnchanged

\* Nobody but those who seek flushes.
LEMMA NobodyFlushes ==
  ASSUME PlaybackInv, NoFaults
  PROVE  ~FlushStartEvent /\ ~Flush
BY DEF PlaybackInv, FieldsTyped, SegmentInv, NoFaults, FlushStartEvent, Flush, ForwardFlushStart,
   FlushStopEvent, EndFlushing, RepeatSegment, ForwardFlushStop

LEMMA ContractStep ==
  ASSUME PlaybackInv, NoFaults, [Next]_vars
  PROVE  [Contract!Next]_(Contract!vars)
<1>1. CASE Task
  BY <1>1, ContractScanningFinished, ContractStartStreaming, ContractOtherTaskSteps, ContractEnd
  DEF Task, Next, Contract!Next
<1>2. CASE PushAccepted \/ PushEnded
  BY <1>2, ContractPushAccepted, ContractEnd DEF Next, Contract!Next
<1>3. CASE \E t \in Seekers : CheckSeek(t) \/ Seek(t)
  <2>1. PICK t \in Seekers : CheckSeek(t) \/ Seek(t)
    BY <1>3
  <2>2. CASE \E request \in Requests : PerformSeek(t, request)
    BY <2>2, ContractPerformSeek DEF Contract!Next
  <2>3. CASE FlushStopDownstream(t) \/ PushSeekSegment(t)
    BY <2>3, ContractFlushStop, ContractPushSegment DEF Contract!Next
  <2>. QED BY <2>1, <2>2, <2>3, ContractOtherSeekSteps DEF Seek
<1>4. CASE UNCHANGED vars
  BY <1>4, ContractUnchanged DEF vars, stream_vars, peer_vars, seek_vars
<1>. QED BY <1>1, <1>2, <1>3, <1>4, NobodyFlushes DEF Next

\* The safety half of ImplementsSeekContract: downstream hears a segment first and that of the
\* seek performed last, the buffers of a segment without a gap, and an end only after them.
THEOREM KeepsSeekContract ==
  ASSUME NoFaults PROVE Spec => Contract!Init /\ [][Contract!Next]_(Contract!vars)
<1>1. PlaybackInv /\ [Next]_vars => [Contract!Next]_(Contract!vars)
  BY ContractStep
<1>. QED BY PlaybackInvHolds, InitContract, <1>1, PTL DEF Spec

===============================================================================
