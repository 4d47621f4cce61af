\* Two seeks of one thread that may be refused anywhere, and a flush from downstream.
SPECIFICATION Spec
CONSTANTS
  NumChannels = 2
  BlockSize = 2
  SampleRate = 2
  Second = 5
  PayloadPosition = 1
  Payloads <- SmallPayloads
  SeekValues = {5}
  StopValues = {3, 5}
  Seekers = {t1}
  MaxSeeks = 2
  MaxFlushes = 1
  SeeksMayFail = TRUE
  FlushesMayFail = TRUE
INVARIANTS LoopIsStill QuietLoopRuns
PROPERTIES BuffersFollowSegment LocksAreReleased SegmentSpansBytes
CHECK_DEADLOCK FALSE
