SPECIFICATION Spec
CONSTANTS
  FrameSize = 2
  SampleRate = 2
  Second = 5
  OutputBufferSize = 4
  PayloadPosition = 1
  PayloadSize = 7
  MediumSize = 9
  BufferSizes = {3, 9}
  SeekValues = {0, 3, 8}
  Seekers = {t1}
  MaxSeeks = 2
  MaxFlushes = 0
  MayDefer = TRUE
INVARIANTS PushInv BuffersMatchTimestamps BytePositionIsTrue
PROPERTIES BuffersFollowSegment EosMeansAllPlayed ImplementsSeekContract
CHECK_DEADLOCK FALSE
