SPECIFICATION Spec
CONSTANTS
  FrameSize = 2
  SampleRate = 2
  Second = 5
  OutputBufferSize = 4
  PayloadPosition = 1
  PayloadSize = 7
  MediumSize = 9
  BufferSizes = {3, 9}
  SeekValues = {0, 3}
  Seekers = {t1}
  MaxSeeks = 1
  MaxFlushes = 1
  MayDefer = TRUE
INVARIANT InternalSeekStaysInternal
PROPERTY SeekAnswered
PROPERTY FlushEnds
CHECK_DEADLOCK FALSE
