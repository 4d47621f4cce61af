SPECIFICATION Spec
CONSTANTS
  FrameSize = 2
  SampleRate = 2
  Second = 5
  OutputBufferSize = 4
  PayloadPosition = 1
  PayloadSize = 7
  MediumSize = 9
  BufferSizes = {9}
  SeekValues = {3}
  Seekers = {t1}
  MaxSeeks = 1
  MaxFlushes = 0
  MayDefer = FALSE
PROPERTY BuffersInFlightAreIgnored
CHECK_DEADLOCK FALSE
