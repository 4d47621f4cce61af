# gst-dsd-media-parsers in TLA+

A verification project for the GStreamer elements `dffparse` and `dsfparse`:
TLA+ modules translated from `src/src/`, the TLC configurations that check them
on small media, and theorems that TLAPS proves for every medium.

Throughout, `MP` is `src/src/gstdsdmediaparse.cpp`, `CP` is
`src/src/gstdsdchunkparse.cpp`, `CS` is `src/src/chunk_stack.cpp`, `DF` is
`src/src/gstdffparse.cpp` and `DS` is `src/src/gstdsfparse.cpp`.

## 1. Inventory

### 1.1 The system

An element of this plugin sits between an upstream that holds a DSD medium (a
file, an HTTP source) and a downstream that plays DSD.  It scans the medium
until it knows the audio format and where the payload is, then streams the
payload and handles seeks, in two scheduling modes: in *push* mode upstream's
thread calls the chain function with buffers and events; in *pull* mode a task
of the element reads upstream with `gst_pad_pull_range()`.

| component | state | operations | correct when |
|---|---|---|---|
| `ChunkStack` | the entered, unfinished chunks, each with its bounds and the subchunks seen in it | `push_chunk()`, `pop_finished_chunks()`, `has_missing_required_subchunks()`, `verify_advance()` | chunks lie inside each other, leave innermost first, at their end, with their required subchunks |
| `GstDsdChunkParse` (subclass of the next) | the chunk parse stage, the stack | `scan_info()`, recovery from a corrupted structure | every call advances, waits, or ends the scan; content is only parsed when there is a chunk |
| `GstDsdMediaParse`, Scanning Info | byte position, input adapter, parse stage, payload range | chain function and pull loop; read, skip, seek for subclasses; `report_payload_found()`, `scanning_finished()`; segments; EOS | the position is that of the adapter's first byte; playback starts at the payload; every scan ends |
| `GstDsdMediaParse`, Streaming | as above; pending seek (`pending_*`), `expecting_upstream_segment`, current index, segments, sequence numbers, the flushing flag | chain function and pull loop, flush, segment, EOS, seek events, state changes | every accepted seek is answered by one segment; stages change only along the protocol; no data from before a seek is played after it |
| `GstDFFParse` | `PropData` (format fields, text lengths), block sizes | parse functions per chunk, `finish_chunk_frm8()`, `finish_chunk_prop()`, index conversions, `produce_output()` | the format is complete before the payload is played |
| `GstDSFParse` | format fields, block geometry, ID3v2 position | header, fmt and data parsers, index conversions, `produce_output()` with deinterleaving | the ID3v2 excursion comes back to where it left, inside the medium; payload and indices agree with header, sample count and medium; the padding of the last blocks is silence |
| `MappedBuffer`, `ScopeGuard`, plugin | – | RAII helpers, registration | – |

### 1.2 How the parts interact

The base class calls its subclass through virtual methods (`scan_info`,
`produce_output`, `to_index`, ...); a subclass calls back into the base class
for data and for `report_payload_found()` and `scanning_finished()`, which change
the parse stage *underneath* the caller: after such a call the subclass has to
look at the stage again.  `GstDsdChunkParse` sits between the two and calls the
parse and finish functions of a table of chunk descriptions.  The finish
function of the outermost chunk ends the scan from within the loop of
`pop_finished_chunks()`, three calls below `scan_info()`.

Upstream answers a seek by a segment event.  It can come synchronously, on the
stack of the seek call (a file source that is not a live task), or later on the
streaming thread, so the handler of the segment and the caller of the seek write
the same fields in either order.  The application's threads seek, flush, query
and change states at any time.

In pull mode nobody answers: the seeking thread itself flushes up- and downstream,
pauses the task, takes the stream lock, moves the loop's fields, and undoes all of it
in a scope guard.  An element downstream can flush at the same time, and does the same
for its own flush.

### 1.3 Hard behaviours

* **Nesting against trusted sizes.**  Chunk sizes come from the medium, are padded
  to even, and are compared and subtracted in 64-bit unsigned arithmetic.
* **Partial input.**  Every read can find too little in the adapter; the call
  returns and is made again with more, so each place where a parse function can
  stop must be one it can resume at (chunk stages, text lengths in the element).
* **Skips that are seeks.**  Beyond a threshold, a skip in push mode is a flushing
  seek of upstream; the adapter must be dropped, the position set before the call
  and corrected by the segment, which may lie before it when the medium is short.
* **Errors that are not.**  A broken structure *past* the payload concludes the scan
  successfully; before it, it is fatal.
* **Progress.**  Both loops call `scan_info()` until it waits, fails or the stage
  changes; a call that returns OK without having advanced is an internal error,
  and one that claims there was nothing to read must have changed the chunk stage.
* **Excursions.**  The DSF header chunk points to an ID3v2 tag at the end of the medium.  Its
  parse function seeks there, reads the tag in as many calls as it takes, and seeks back:
  the bounds of the chunk do not apply meanwhile, and each seek has a segment that may come late.
* **Flushes during a scan.**  Somebody else flushes while the stack, the texts and the payload
  of a scan are half known; upstream goes on wherever the flush took it.
* **Restarts.**  READY and NULL reset different fields of the three classes.
* **The paused task.**  In pull mode seeks and flushes pause and start the task, take the
  stream lock, and may find it blocked up- or downstream, or failed; every way out has to
  leave it running.
* **Streaming against seeks.**  The streaming thread, seeking threads and flushes of
  upstream share the parse stage (an atomic), the pending seek and the flushing flags
  (a mutex), and downstream's pad.  The stage is read, and acted on later; a buffer,
  an EOS event or a segment can be under way while a seek changes it.

`PROJECT.json` lists every hazard with its line and the properties that would catch it going wrong.
Seven have none, because the code itself goes wrong there, and what it does keep says nothing
about them; section 6 describes each: a payload chunk inside an unfinished PROP (`DF:1521`), the end of a pull
mode medium between payload and metadata (`MP:1655`), damaged metadata past the payload
(`DF:1684`), and in push mode the race of two seeks (`MP:2632`), EOS before a seek's segment
(`MP:624`), a segment of somebody else's flush (`MP:1967`), and a buffer from before a
deferred seek (`MP:672`).

## 2. Plan

In the order of importance; steps 1 to 8 are done.

1. **A scan of a chunk based medium**: `ChunkStack`, `MediaScan`, `ChunkParse`, with
   the inductive invariant (`ChunkParseInvariant`), its proofs
   (`ChunkParseLemmas`, `ChunkParseProofs`) and `MCChunkParse`.
2. **`DsdMediaPush`**: streaming and seeking in push mode.
3. **`DsdMediaPull`**: the pull mode task, the seeks under the stream lock, and flushes from
   downstream, with `GstDSFParse`'s output; its invariant (`DsdMediaPullInvariant`) and
   proofs (`DsdMediaPullProofs`).
4. **`SeekContract`**: what both promise to those who seek and play, and the refinement
   mappings with which `DsdMediaPush` and `DsdMediaPull` implement it.
5. **`DsfScan`**: the scan of a DSF medium with its ID3v2 excursion, and a restart from READY.
6. **`ScanFlush`**: a scan that somebody else flushes, with its invariant, and its proofs
   (`ScanFlushProofs`).
7. **More theorems**: the outcome of a scan (`ScanOutcomeInvariant`, `ScanOutcomeProofs`), from an
   extension of `ScanInv`; and playback in pull mode with the safety half of its refinement of
   the contract (`PlaybackInvariant`, `PlaybackProofs`), from an extension of `PullInv`; the same
   for push mode (`DsdMediaPushInvariant`, `DsdMediaPushProofs`).
8. **The excursion of `DsfScan`** (`ExcursionReturns`, `ExcursionStaysInMedium`,
   `PayloadInsideMedium`, `IndicesCoverPayload`, `PlaybackStartsAtData`), from an invariant of its
   own (`DsfScanInvariant`, `DsfScanProofs`).
9. **What is left of the code**: a DSF scan that is flushed, the queries, and stop values in
   push mode.

## 3. Modules and code

`ChunkStack` <- `MediaScan` <- `ChunkParse` <- `ChunkParseInvariant` <- `ScanOutcomeInvariant`
extend each other, bottom up, as the classes call each other.  `MCChunkParse` extends the last
for TLC, `ChunkParseLemmas`, `ChunkParseProofs` and `ScanOutcomeProofs` for TLAPS.  In the same
way `MCDsdMediaPull` stands on `DsdMediaPull` <- `DsdMediaPullInvariant` <- `PlaybackInvariant`,
and `DsdMediaPullProofs` and `PlaybackProofs` prove about them; in push mode TLC checks
`DsdMediaPushInvariant`, which extends `DsdMediaPush`, itself, and `DsdMediaPushProofs` proves it.  `DsfScan` and `ScanFlush`
extend the scan by another subclass and by another thread; `MCDsfScan` checks
`DsfScanInvariant`, which extends `DsfScan`, and `DsfScanProofs` proves it with the lemmas of
`ChunkParseLemmas`, as `ScanFlushProofs` proves `ScanFlush`, which `MCScanFlush` checks.  `DsdMediaPush` and `DsdMediaPull`
take over where a scan has found the payload, and instantiate `SeekContract`.

* **`ChunkStack`**: `m_stack` is the vector of chunks, its head the front.
  `PushReturnCode` and `PushChunk` are `push_chunk()` (the known chunk is recorded in
  its parent *before* the bounds are compared, as in the code).  The first pass of
  `pop_finished_chunks()`, which looks for missing subchunks, is
  `FinishableChunkIsIncomplete`; its second pass erases one element at a time
  because finish functions run between the elements.
* **`MediaScan`**: what a subclass sees of the base class while scanning.  `Read`,
  `Skip`, `ReportPayloadFound` and `ScanningFinished` relate arguments, returned
  flow and effect.  `byte_position`, `parse_stage`, `payload` are the code's;
  `available` is the number of bytes in the adapter (their values never matter);
  `upstream_position` and `pending_segment_start` are upstream's.  A synchronous
  segment is handled inside the seek, a deferred one by `HandleSinkSegment`.
* **`ChunkParse`**: `scan_info()` and its callers as a machine whose `pc` is the place
  in the code.  One action is one call of a parse function, one pass through
  `scan_info()`'s second half, one element of the pop walk, or one turn of the loop.
  A parse function is described by what distinguishes it (`ParseKinds`): `Leaf`
  (FVER, FS, LSCO), `Form` (FRM8), `Properties` (PROP), `Container` (DIIN), `Text`
  (DIAR, DITI, CMPR, and CHNL), `Payload` (DSD); the finish functions by `FinishKinds`.
  A list of channel IDs (`IdLists`: CHNL) is a text that differs in three ways: its length
  is a number of IDs of `IdSize` bytes, which is compared with the chunk's size where it is
  read (`IdListLengths`) and not where the text is; it has at least one; and no ID is refused.

What a header or a text length says is chosen when it is read, from the sets
`RawSizes` and `TextLengths`: the medium has arbitrary contents, and no property
relies on them being well formed.  All 64-bit quantities are in `0 .. MaxUInt64`
and additions wrap (`Wrap`), except where the code checks first.

Abstractions: a byte has no value; the two custom size errors are one; all error
flows are `ERROR`; tags, caps and logging are left out.  A flushing seek leaves no
buffer from before it in flight (the streaming thread is in the element when it
seeks); upstream plays a medium from start to end.  These modules stop at the change to
the Streaming stage.

* **`DsfScan`** uses all of `ChunkParse` that is not DFF's, through the same chunk table: the
  chunk ends, the pop walk, the loop (`ChunkParseStep`).  Its own actions are the calls of the
  parse functions of `GstDSFParse`; the header's is cut at its two seeks (`header_read`,
  `id3v2`, `seek_back`), because a segment can come in between.  `SeekDuringScan` of
  `MediaScan` is the base class's function.  An ID3v2 tag is its size.  `Restart` is the change
  from PAUSED to READY and back, which resets the base class's fields only.
* **`ScanFlush`** adds the flags and the thread of a flush to a DFF scan: `FlushStart` at any
  moment, `FlushStop` under the stream lock, and the three places where the streaming thread
  looks at the flag (`RefuseBuffer`, `AbortScan`, `AbortPayloadSkip`).  After the flush,
  upstream goes on at the start, where the parser was, or where upstream was
  (`FlushPositions`).  A segment other than the awaited one fails the stream
  (`RefuseSegment`).

* **`DsdMediaPush`** goes on from there, on its own: it begins where the scan has found
  the payload, with a seekable upstream before `scanning_finished()` and with an
  unseekable one before the first segment goes downstream.  The variables are the
  fields of the element; `pending` is the record of its `pending_*` fields.

| process | actions | code |
|---|---|---|
| streaming thread, `pc` | `EnterChain`, `AcceptBuffer`, `StartIteration`, `Dispatch`, `Produce`, `PushAccepted`, `PushFlushed` | `gst_dsd_media_parse_sink_chain()` with `gst_dffparse_produce_output()` and `read_data_during_streaming()` |
| | `HandleSinkSegment`, then `AdoptSegment`, `ResumeStreaming`, `AnnounceSegment` or `AdoptOwnSegment`, `AnnounceSegment` | the handler of a segment, which has a critical section, a call of the subclass, the store of the stage, and a push in this order |
| | `SendEos`, `ScanningFinished`, `InternalSeekReturns` | EOS, and the seek back to the payload |
| a seek or flush upstream, `job` | `FlushStart`, `ForwardFlushStart`, `FlushStop`, `ExternalFlush` | flush-start is handled outside of the stream lock, flush-stop and segment inside |
| seeking threads, `seeker` | `CheckSeek`, `PrepareSeek`, `PushSeek` | the two critical sections of the seek handler, and the seek of upstream |

  A byte is its position in the medium, so the adapter and an output buffer are
  sequences of positions and a buffer can be compared with its timestamps.  Times are
  integers that round as the nanoseconds of the code do: `SampleRate` indices last
  `Second` units and one does not divide the other.  Upstream performs one seek or
  flush at a time, goes where it was told (a deviated position fails the stream: no
  subclass implements `resync_deviated_upstream_seek()`), and answers an end or an
  error of the chain function with EOS.  Here a seek has a start only (stop
  values are in `DsdMediaPull`); a flush resets the running time.

* **`DsdMediaPull`** begins there too, in pull mode and with DSF's `produce_output()`.

| process | actions | code |
|---|---|---|
| task, `pc` | `ScanningFinished`, `StartStreaming`, `StartIteration`, `ProduceOutput`, `PullFlushed`, `ReachEos`, `PushAccepted`, `PushEnded`, `PushFlushed`; `ResumeTask`, `YieldLock` | `gst_dsd_media_parse_pull_mode_loop()` and what ends the scan; GstTask's handling of the stream lock |
| seeking threads, `seeker` | `CheckSeek`, `FlushStartUpstream`, `FlushStartDownstream`, `StopLoop`, `TakeStreamLock`, `PerformSeek` or `RefuseSeek`, then the scope guard: `FlushStopUpstream`, `FlushStopDownstream`, `PushSeekSegment`, `RestartLoop` | `gst_dsd_media_parse_handle_src_seek_event()` |
| an element downstream, `flusher` | `FlushStartEvent`, `ForwardFlushStart`, `FlushStopEvent`, `EndFlushing`, `RepeatSegment`, `ForwardFlushStop` | `gst_dsd_media_parse_src_event()` |

  `stream_lock` names its owner.  A byte is its position, so `SamplesInPlace` compares each
  sample of an output buffer, channel by channel, with where the medium interleaves it.
  A seek (`Requests`) has a format, a start (or none: `Here`), a stop (or none, or the old one)
  and the flag ACCURATE; `SeekIndex`, `SegmentStart` and `SegmentStop` are what
  `common_seek_procedures()` makes of them, in order, with the start rounded down and the stop
  up.  The parser itself never looks at the stop: downstream takes the buffers up to it, and
  *may* answer one past it with EOS (`PushEnded`), which ends the loop as the payload's end does.
  Once it has ended it takes no buffer until it is flushed, as a pad of GStreamer.

* **`SeekContract`** knows nothing of threads, locks, flushes and positions: seeks by their
  seqnum (`asked`, `current`), what downstream has heard (its segment's seqnum, the last index,
  the next one, and the index from which on the stream may end), end and failure.  Downstream hears a segment first, then buffers without a gap
  up to the segment's stop or the end; a seek that was performed is heard, overtaken by another, or the stream has
  failed (`Answered`).  In both refinement mappings `total` is the number of indices,
  `asked` a history variable (`accepted`), `failed` the failure stage.

## 4. Runs

| run | what is explored | shows |
|---|---|---|
| `scan` | push and pull mode; media of 46 bytes (whole, seekable) and 41 (cut off; in push mode not seekable); buffers of 5 or 46 bytes, `MaxUInt64` = 63, eight chunk IDs with one or two sizes each, texts of 0 or 2 bytes, one channel, immediate and late segments | the inductive invariant of a scan and its outcome (`ScanOutcomeInv`), and what follows from it; the action properties; `ScanEnds` |
| `dsf_scan` | push and pull mode; media of 36, 27 and 20 bytes; a tag at five places (one where its header ends exactly with the medium, one where it does not fit) and of five sizes (none, one that runs out of the medium, one whose end overflows); sample counts below, at and beyond the chunk | the inductive invariant of a DSF scan (`DsfInv`); the excursion returns and stays inside the medium; payload, indices and start of playback are right; `ScanEnds` |
| `scan_flush` | push and pull mode; a medium of 30 bytes; one flush at any time, to three places | the inductive invariant of a flushed scan (`FlushInv`: among others, input and position stay in step), playback starts in place, the scan comes to a verdict |
| `push_streaming` | a payload of 7 bytes (three frames of 2 and a residual byte) at 1 in a medium of 9; one thread with two seeks in time or bytes to 0, 3 or 8 (past the end); buffers of 3 and 9 bytes; the seek back to the payload may be deferred | the inductive invariant of push mode (`PushInv`), timestamps, position, segments, end of stream, and the refinement of `SeekContract` |
| `push_flush` | the same with one seek and one flush of upstream's own | the flush ends, the seek is answered, internal flushes stay internal |
| `pull_streaming` | three DSF payloads (whole, cut off, shorter than its sample count), two channels, blocks of 2; two threads with a seek each, in time or bytes, to 9 (past the end) or without a start, with the stop 5, none, or the old one | the inductive invariant of playback (`PlaybackInv`), samples and padding in place, end of stream, seeks end though downstream blocks, and the refinement of `SeekContract` |
| `pull_faults` | the same payloads; one thread with two seeks (the start 5 or none, the stop 3 or 5, none, or the old one) that can be refused at any step, and a flush from downstream | the loop is still while its fields move, is never left behind, no lock is kept, and a segment that is asked for in bytes covers them |
| `payload_twice`, `buffers_in_flight`, `restart`, `refused_tag_seek`, `pull_seek_refused` | as small as shows it | the disagreements 1 to 5 of section 6, each a violated property |

Why these bounds are enough to be interesting, for the scans: buffers of 5 bytes end
one further on in each header, prefix and text, so every read meets "not enough data" and every
multi-part chunk is resumed; buffers of 46 hold the whole medium, so the scan runs without waiting and
`report_payload_found()` can skip inside the adapter; the seek threshold of 4 lies
between them, so skips consume, skip partially, or seek.  Sizes include odd ones
(padding), a payload longer than the medium, an unknown chunk whose padded size
wraps around 64 (`JUNK` of 63 bytes), a form without room for a subchunk, one larger than a truncated medium, and
chunks that overrun their parent.  Every chunk can follow every other, so required
chunks are missing, repeated, or in the wrong parent.  In `scan_flush` a flush back to the
start makes for a second scan inside the stack of the first, with contents that differ; one
buffer size that ends inside chunks, one size for each chunk and one chunk ID less keep that
product small.

The whole medium of `scan` is `FRM8 { PROP { FS CHNL } DSD DIIN { DIAR } }`, 46 bytes, so that every
kind of chunk can follow the others.

For the streaming half: an output buffer of push mode is two frames, so the payload is one full
and one short buffer and a residue; buffers of 3 end inside a frame; a seek can land on
the payload's start, inside it, and at its end; the second seek can come at every point
of the first one's answer, and in every state of the thread.  `push_flush` leaves
`BytePositionIsTrue`, `BuffersMatchTimestamps` and the contract out: the code violates them
under flushes (section 6).  In pull mode two threads contend for the stream lock in
`pull_streaming`; in `pull_faults` a thread contends with the flush, and seeks again on what a
refused seek has left.  Which properties hold in which run follows from section 6: refused seeks
leave downstream without a segment, and two seeks can take each other's flush back (`SeekEnds`
says "unless").

`CHECK_DEADLOCK FALSE` because these systems really stop: a scan with a verdict, which
`ScanEnds` and `FlushedScanEnds` name, and a stream at its end or with a failure.

Every property is preceded by its statement in words, and each is violated by a mutant of the
code (the operators commented *Mutant of*).

**Fairness.**  `FairSpec` has weak fairness of the streaming thread: its steps are
plain code that nothing blocks while it holds data.  And of upstream: a source that
is playing pushes the next buffer, the segment that it owes, or EOS at its end.
Without the latter a scan waits for ever, which is no fault of the parser.

`DsdMediaPush` has weak fairness of each thread: the element's code (`Element`),
upstream's streaming thread (`Upstream`), whoever performs a seek or flush (`Job`) and
each seeking thread (`Seek`).  None of it holds a lock while it waits, except the stream
lock, and that is what `FlushEnds` and `SeekAnswered` are about.  *Not* fair is
`PushAccepted`: a paused sink blocks the streaming thread for as long as it likes.
Nobody has to seek (`CheckSeek`) or flush (`ExternalFlush`).

`ScanFlush` adds that a flush that was started is stopped (`FlushStop`): its sender owes that to
the pipeline.  `DsdMediaPull` has weak fairness of the task's own steps, of a flush that has
begun, and of each seeking thread, one by one: they are threads of their own that wait only for
the stream lock.  It is weak although the lock can be free and taken again, because a seek pauses
the task first.  *Not* fair are `PushAccepted` and `PushEnded`, again; `LocksAreReleased`, which is about a
downstream that does take buffers, has its fairness as a hypothesis, and `SeekEnds` does
without.

## 5. Proofs

Assumptions: the constants' types (`WidthAssumption`, `DescriptionsAssumption`,
`MediaAssumption`: the pull mode medium is seekable, `BufferSizesAssumption`,
`SeekThresholdAssumption`: above 1, so that a pad byte is never skipped by a seek,
`HeaderAssumption`: among others a frame has bytes, as `DF:1214` demands of the number of
channels).  Of the chunk table, `TableAssumption` says what is true of that of `DF:328`: a part of
fixed size is not empty; the fields that `validate()` demands come from chunks without subchunks;
and the chunk that is validated requires them.  Nothing is assumed about the contents of a
medium, its size, or the width of the integers.

`StackNested` is not inductive.  That a skip stays inside its chunk depends on the
stage (`ContentInv`: the payload is reported at its first byte, `SizesFit`: padding
does not wrap); that a *segment* leaves the position inside every chunk depends on
where upstream was sent (`InputInv`: a pending segment starts no later than the
position and no earlier than the begin of every chunk, and no content is being
parsed while it is due); that a popped chunk is the innermost one depends on the
order of the stack's ends and on how far the walk has come (`StackSorted`,
`PopInv`).  `ScanInv` is their conjunction.  `ChunkParseLemmas` has the facts about
pushing and erasing (`PushKeepsStack` and others) and those that
several actions share (reads, skips, seeks, the end of a scan), `ChunkParseProofs`
one lemma per action and the theorems:

* `ScanInvHolds`: `Spec => []ScanInv`, from `InitInv` and `ScanInvIsInductive`;
* `TypeCorrectness`, `StackStaysNested`, `ContentAlwaysHasChunk`: invariants that
  `ScanInv` implies;
* `PopsAreInnermostFirst`: the action property, from `ScanInv` before the step;
* `UnseekableStreamsAtOnceHolds`: inductive with `TypeOK`, proved beside it.

The outcome of a scan needs more (`ScanOutcomeInvariant`, `ScanOutcomeProofs`).  `OutcomeInv`,
inductive together with `ScanInv`, says at each place of `scan_info()` what it can return there
and how far it has come (`ProgressInv`, `FlowInv`), that a chunk whose content is parsed has some
left (`ContentLeftInv`), that only a pad byte that has not arrived makes a chunk wait to be
finished (`RetryInv`), where a segment that is due will start (`PendingInv`, `StreamInv`), that
the scan goes on behind the first byte of the payload (`PayloadInv`), and that a chunk which its
parent has seen has been parsed, is being parsed, or ends the scan (`FieldsInv`, `ObservedInv`).

* `ScanOutcomeInvHolds`; from it
* `InputStaysAligned`: the adapter holds what lies at the byte position, in all stages;
* `NoInternalErrorOccurs`: what the loops take for an internal error of a subclass (`MP:730`) does not
  happen.  This is where an empty chunk, an empty text and a frame without bytes matter, and why
  `HeaderAssumption` and `TableAssumption` exclude what the code excludes;
* `PropAlwaysEndsComplete`: a required subchunk that was seen has also given its field, although
  the parent notes it before it is parsed;
* `PlaybackAlwaysStartsAtPayload`, an action property: each of the three ways into the Streaming
  stage begins at the payload.

For pull mode, for any number of seeking threads, seeks and flushes
(`DsdMediaPullInvariant`, `DsdMediaPullProofs`; assumptions `SizesAssumption` and
`SeekersAssumption`, that a seeking thread is not the task or the flusher):

* `LoopIsStillHolds`.  That the thread which moves the loop's fields has the stream lock is
  nearly its guard; that the loop is then between two iterations follows only if the task has
  the lock wherever it is in one (`LockOwned`).
* `QuietLoopRunsHolds`.  A paused loop with nobody around who restarts it has ended or failed
  (`PausedForReason`).  The loop also pauses itself, when it finds a flush up- or downstream or
  its own flag; that this is followed by a restart needs that whatever flushes has an owner
  who will end the flush and then start the task (`FlushesHaveOwner`), through every
  interleaving of seeks that flush only one side, are refused, or take back what another has
  flushed.

What downstream plays in pull mode is about the same interleavings, and about roundings
(`PlaybackInvariant`, `PlaybackProofs`), for any block size, number of channels, sample rate,
payload and start and stop values, whether seeks are refused or not.  `PayloadsAssumption` is what the
parser of the data chunk ensures (`DS:1196`–`DS:1238`): the payload has no more block groups than the
sample count has indices.  First come lemmas about the conversions: the times of indices are
monotone (`TimeOfMonotone`), a time lies in the index that it is converted to (`TimeInItsIndex`),
as does a byte (`BytesToIndex`), and `SeekTarget` for what a seek makes of its request.
`PlaybackInv` extends `PullInv`.  What downstream expects next is what the task has in its hands
or produces next (`InStep`), but only when downstream has a segment, is not flushed, has not ended,
and no thread is between moving the fields and telling downstream (`HeardInv`).  That this
exception is safe needs that a thread moves the fields only with the lock and with both sides
flushed (`MovingInv`), that position and index move together and the segment's start is at most an
index ahead (`PositionInv`), that the discontinuity flag is still set where the first buffer is
produced (`OutputInv`, `StartInv`), and that seqnums are not shared (`SeqnumInv`).

* `FieldsStayTyped` (`TypeOK`), `SamplesStayInPlace`, `BuffersAlwaysFollowSegment`,
  `EosOnlyAfterAll`, `SegmentsSpanBytes`: properties of the runs;
* `SegmentAlwaysComesFirst`, under `NoFaults` (nobody else flushes, nothing is refused): what `MP:959`
  asks for holds then; `pull_seek_refused` shows that it does not otherwise;
* `KeepsSeekContract`, under `NoFaults`: the safety half of `ImplementsSeekContract`.  There is a lemma
  for each action: `ScanningFinished` is `Serve`, `PerformSeek` is `Ask`, `FlushStopDownstream` is
  `Silence`, a segment is `Announce`, `PushAccepted` is `Play`, the end is `End`; the others leave what
  the contract speaks of alone, or are a `Fail`.

Push mode has no lock around seek, flush and streaming, so what can be said depends on who else
is there, and `PushInv` (`DsdMediaPushInvariant`, `DsdMediaPushProofs`) has three layers, for any
payload, frame and buffer sizes, numbers of seeks and flushes:

* Whoever seeks and flushes: the ranges (`FieldsTyped`, `PartiesTyped`), where the threads can be
  in which stage (`PlacesInv`), that the adapter holds what upstream sent last unless it refuses
  buffers (`AdapterInv`), and that the seek which ends the scan runs before any other can
  (`InternalSeekInv`).
* `SingleSeeker`, at most one seeking thread: position and index, which are set one after the other, in
  two classes, belong together (`SyncInv`).  Without it a second seek can write the `pending_*`
  fields after the first one was accepted (section 6), and the index is not that of the position.
* `Undisturbed`, a single seeker and no flush of others (`MaxFlushes = 0`): upstream, adapter and position
  are in step (`StreamInv`), what is announced is what was asked for (`SegmentInv`), what
  downstream expects next is in the thread's hand or produced next (`HeardInv`, `InStep`), and
  the thread waits for input only when there is too little, or at the payload's end (`EndInv`).
  With flushes, the code violates these (section 6).

The layers are implications inside one invariant, as each needs the one above it in the same step.
One lemma per action (`ProduceKeepsPushInv` and so on) has one step per part.  The hard ones are
`Produce`, which rests on a lemma about its buffer (`ProduceEffect`), on `WholeFrames` and
`IndicesLeft`; `HandleSinkSegment`, where a late segment must meet the seek that was accepted; and
`FlushStop`, which clears the adapter while the thread is outside of an iteration.

* `PushInvHolds`; from it
* `InternalSeekIsInternal`, for any number of threads, seeks and flushes;
* `PushFieldsStayTyped` (`TypeOK` of `DsdMediaPush`), with `SingleSeeker`;
* `BuffersAlwaysMatchTimestamps`, `BytePositionStaysTrue`, `BuffersAlwaysFollowSegment`,
  `EosOnlyAfterAll` and `KeepsSeekContract`, with `Undisturbed`: the invariants and action
  properties of `push_streaming`, and the safety half of its refinement.  Here `AdoptSegment` is
  `Serve`, `PrepareSeek` is `Ask`, a flush-stop is `Silence`, `AnnounceSegment` is `Announce`,
  `PushAccepted` is `Play` and `SendEos` is `End`.

`SingleSeeker` and `Undisturbed` are about the environment, not about the constants' types: both are
hypotheses of those theorems and not assumed by the module, and hold in `push_streaming`.

A DSF scan has an invariant of its own, `DsfInv` (`DsfScanInvariant`, `DsfScanProofs`), for any
medium, tag, sizes and width of the integers.  Beside the assumptions of the scan there are
`DsfAssumption` (types, and a smallest medium that has room for a tag's header) and
`DsfTableAssumption`: the header chunk has the exact size that its parse function reads, and that is
even, as in the table of `DS:268`–`DS:310`.  From `ScanInv`'s argument only
the lemmas about reads, skips and stack remain: a header chunk that has just been parsed may have
a position outside of its bounds, which `ScanInv` forbids.  Instead

* no chunk is entered inside another one (`FlatStack`), and a known chunk's content is parsed
  from its first byte, which the medium has (`ContentBegins`), in one call, except for the
  header's, which is finished at its end in the call that ends the excursion (`HeaderFinished`);
* during the excursion the position that it goes back to is the header's end, and the next read is
  inside the medium (`ExcursionInside`): that the tag's size was compared with what is left of
  the medium *after* its header was read, and the header's end with the medium before the seek;
* each call of the parse function during the excursion advances or lacks data (`ExcursionProgress`,
  `Starved`); otherwise the end of the medium, a flow of upstream, or the internal error of
  `MP:730` could end a scan that could have given the tag up;
* upstream is where the adapter ends, or will be where its segment starts (`DsfInput`, `DsfStream`),
  except after a refused seek to the tag (section 6);
* what the format chunk announced is untouched until the payload is reported, and that ends
  the scan (`PayloadReported`), so the bounds that `DS:1182`–`DS:1238` compute are those of the
  payload that is played.

The conversions between samples, blocks and bytes rest on lemmas about integer division
(`DivBounds`, `DivMonotone`, `DivAtLeast`).  There is a lemma for each parse function's call and
for each action of `ChunkParse` that a DSF scan takes.

* `DsfInvHolds`; from it
* `ExcursionAlwaysReturns`, `ExcursionAlwaysStaysInMedium`, `PayloadAlwaysInsideMedium`,
  `IndicesAlwaysCoverPayload`, `PlaybackAlwaysStartsAtData`: all safety properties of `dsf_scan`.

A scan that is flushed (`ScanFlushProofs`) is about any medium, table of chunks, width of the
integers and number of flushes (`FlushAssumption`: it is a number), in both scheduling modes.
`ScanInv` does not survive a flush: upstream may go on at the start, and the scan then enters the
chunks of the medium again, inside those that are on its stack from the first time, with
positions before all of them.  Nothing can be said of where chunks lie, and with that of how far
skips and the pop walk go.  What remains is `FlushInv`:

* what a flush can interrupt has not failed, and content is parsed only inside a chunk that
  has some, wherever a flush comes between the parts of a text or of the pop walk
  (`FlushControl`);
* upstream is inside the medium, and position and adapter are in step whenever no segment is due
  (`FlushInput`);
* while the element awaits its segment, the payload is known and a segment is due, though not
  always its own, because that of a flush may have replaced it; and upstream can go to where the
  payload begins (`FlushPayload`).

What a read, a skip and the end of the scan do (`FlushReadEffect`, `FlushSkipEffect`,
`FlushScanningFinished`) is proved without knowing how far they go; about the stack
`ChunkParseLemmas` says enough.  Then there is a lemma for each action, those of the scan and those
of the flush.

* `FlushInvHolds`; from it
* `InputStaysAlignedThroughFlushes`: `InputAligned`, as for a scan that nobody flushes;
* `PlaybackAlwaysStartsInPlace`, an action property: of the segment of the parser's own seek and
  that of a flush either may come last, and only one that starts at the payload starts playback.

Only model-checked: what is temporal in more than a step.  These are `ScanEnds`, `FlushedScanEnds`,
`SeekAnswered`, `FlushEnds`, `SeekEnds`, `LocksAreReleased`, and `Answered` of the contract, with the
fairness that `ImplementsSeekContract` includes; liveness and the `ENABLED` in fairness are beyond the
prover.  Every other property of the runs that pass is a theorem.

## 6. Where the code and its comments disagree

Each of these has a run that shows it:

1. `MP:3647` asserts that the payload is reported once, but the chunk stack forbids a
   second DSD chunk per parent only: one inside another chunk aborts the process
   (`payload_twice`).
2. `MP:860` says that buffers in flight during a seek are ignored.  They are when the
   chain function dispatches on the stage; when the seek comes after that,
   `read_data_during_streaming()` (`MP:3394`) returns an error, and upstream stops
   (`buffers_in_flight`).
3. `gstdsdchunkparse.hpp:54`: a scan begins with a chunk header.  PAUSED to READY resets the base
   class (`MP:1464`), but the stack, the chunk parse stage and the subclass only on the way to
   NULL: a restart from READY continues at byte 0 in the middle of a chunk (`restart`).
4. `DS:755` lets the scan go on when the seek to the tag is refused.  `MP:3575` has emptied the
   adapter by then, so the position is no longer that of the next byte (`refused_tag_seek`).
5. `MP:959` wants a segment after every flush in pull mode.  A seek that `gst_segment_do_seek()`
   refuses after its flushes (`MP:2591`) restarts the loop without one (`pull_seek_refused`).

Met while modelling, and in the models as the code has it, without a run of their own.  During a
scan:

* `MP:600` says that EOS during the scan is not fatal once the payload was located; the pull mode
  loop (`MP:1655`) posts an error all the same.
* `DF:1516` wants a complete PROP chunk before the DSD chunk; the check (`DF:1521`) holds as
  soon as the fields are set, so a DSD chunk *inside* PROP is accepted before the output format
  is computed.
* `MP:3296` says that a scan resumes after a flush.  The report of the payload stores the
  payload before its skip; a flush that interrupts the skip makes the resumed scan report it
  again, which fails the assertion of `MP:3647` (a place of `ScanFlush`, reached by
  `scan_flush`; `MP:3665` calls flushes during a scan not well-defined).
* `gstdsdmediaparse.hpp:592` calls all that is left to scan past the payload
  optional; a DIAR or DITI text longer than its chunk (`DF:1684`, `DF:1777`) fails the
  scan there.
* `chunk_stack.hpp:370` calls missing required subchunks non-recoverable; past the
  payload they end the scan successfully (`CP:655`).
* `DF:1236` compares the number of channels with the size of its chunk where it is read.  The
  number stays (`DF:1199`): a second CHNL chunk, in another PROP, takes its IDs by the first one's
  number without that check, and begins with the two bytes of its own number.
* A metadata position inside or just behind the DSF header leaves the excursion without progress,
  so `scan_info()` returns OK without having advanced: an internal error (`MP:730`).
* In push mode, of an ID3v2 tag whose header ends exactly with the medium (`DS:775`), the scan waits
  for bytes that do not come: nothing calls the parse function again, which would give up the
  tag, and EOS ends the scan (`ExcursionStaysInMedium` states the exception).
* The DSF table (`DS:277`) allows its chunks once; at the top level, where they are, nothing
  checks it.  A data chunk without a header chunk computes its available bytes from an unknown
  size, which wraps around; and a sample count larger than the data chunk gives a duration and a
  number of indices beyond the payload.

While streaming:

* `MP:619` takes EOS outside of the Streaming stage for a medium without payload.  EOS
  can also come between an accepted seek and its flush, in the AwaitingSegment stage;
  the stream fails although the seek would have revived it.
* `MP:101`: `byte_position` is where the parser is.  After a flush and a segment of
  upstream's own the adapter's bytes are gone, but neither the position nor the
  subclass' index follow (`MP:1967`): `BytePositionIsTrue` does not hold with flushes.
* `gstdsdmediaparse.hpp:414`: `current_index_after_seek()` reports the actual index.  A
  concurrent seek that fails its compare-and-swap has already written the `pending_*`
  fields (`MP:2619`), so with two push mode seekers the accepted seek is timestamped from the
  wrong index.
* `MP:168` lets upstream defer a seek to another thread.  After `scanning_finished()` a
  buffer pushed before the deferred flush is refused with an error (`MP:672`), where the
  AwaitingSegment case would drop it.
* `MP:3671`: a FLUSHING flow must not be reported as an error.  The stage becomes Streaming
  (`MP:1940`) before the segment is pushed downstream (`MP:1951`), so the next seek can
  flush in between and the push fails the stream.
* `MP:2627` guards a seek against overwriting StreamFailure; the handler of an awaited
  segment stores Streaming without that guard (`MP:1940`), and revives a stream that has failed
  since it tested the stage.
* In pull mode two seeks, or a seek and a flush from downstream, can each take back what the other
  has flushed; the one that waits for the stream lock then waits for a downstream that may have
  blocked again.  A flush from downstream that starts and ends between the output and its push
  lets that buffer through.  A seek that arrives between the change of the stage and the initial
  segment fails the stream.  After a downstream flush the old segment is pushed again, from a start
  that has been played, with base 0.
* In pull mode a seek whose flush-start is refused downstream, after the loop has ended, restarts
  the loop (`MP:2558`) although downstream is at EOS: it produces one more buffer, which
  `gst_pad_push()` answers with EOS.
* In pull mode a flow error from downstream other than EOS and FLUSHING pauses the loop; no
  error message is posted and no EOS event follows.  (The models' downstream has no such error.)
* The index conversions of DSF are proportional although `gstdsdmediaparse.hpp:102` describes
  indices of equal duration; both conversions round down, so `to_index(from_index(i))` can be
  `i - 1`.
* A truncated DSF payload's last partial block group counts as an index, but is never output
  (`WholeGroups`, which end of stream and contract use in its place).

## 7. Not modelled

* **Queries** (`MP:1024`–`1245`: position, duration, convert, seeking): they read fields under
  the mutex and change nothing.
* **Stop values in push mode**: the procedures are those that `DsdMediaPull` has, and
  `DsdMediaPush` is about the protocol between the seek, upstream and the segment.  The rounding
  up of DFF's conversion (`DF:500`) differs from DSF's in that it is not proportional.
* **The negotiation of the scheduling mode** and of seekability, and the other state changes:
  choices at the beginning here (`Media`).
* Tags, caps, and the values of samples and of bytes: data without influence on control.
* A DSF scan that is flushed (`ScanFlush` is about DFF), and sequences of several flushes.
* `MappedBuffer`, `ScopeGuard` (its effect is in `DsdMediaPull`), the plugin registration and the
  build files have no behaviour that a model would show.
