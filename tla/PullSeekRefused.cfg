\* One seek that may be refused.
SPECIFICATION Spec
CONSTANTS
  NumChannels = 2
  BlockSize = 2
  SampleRate = 2
  Second = 5
  PayloadPosition = 1
  Payloads <- SmallPayloads
  SeekValues = {5}
  StopValues = {4}
  Seekers = {t1}
  MaxSeeks = 1
  MaxFlushes = 0
  SeeksMayFail = TRUE
  FlushesMayFail = FALSE
PROPERTIES SegmentComesFirst
CHECK_DEADLOCK FALSE
