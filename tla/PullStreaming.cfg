\* Two threads seek while the task plays; nothing is refused.
SPECIFICATION Spec
CONSTANTS
  NumChannels = 2
  BlockSize = 2
  SampleRate = 2
  Second = 5
  PayloadPosition = 1
  Payloads <- SmallPayloads
  SeekValues = {9}
  StopValues = {5}
  Seekers = {t1, t2}
  MaxSeeks = 2
  MaxFlushes = 0
  SeeksMayFail = FALSE
  FlushesMayFail = FALSE
INVARIANTS PlaybackInv SamplesInPlace
PROPERTIES EosMeansAllPlayed SeekEnds ImplementsSeekContract
CHECK_DEADLOCK FALSE
