\* A scan that is flushed once, at any time, in push and pull mode.
CONSTANTS
  FRM8 = FRM8
  PROP = PROP
  FS = FS
  CHNL = CHNL
  DSD = DSD
  DIIN = DIIN
  DIAR = DIAR
  JUNK = JUNK
  MaxUInt64 = 63
  Fourccs <- FlushFourccs
  Descriptions <- FlushDescriptions
  BufferSizes = {12}
  SeekThreshold = 4
  HeaderSize = 4
  SizeIncludesHeader = FALSE
  TextLengths = {2}
  IdLists = {CHNL}
  IdSize = 2
  RequiredFields = {CHNL}
  FrameSize = 2
  Media <- FlushMedia
  RawSizes <- FlushSizes
  MaxFlushes = 1
SPECIFICATION FlushSpec
INVARIANT FlushInv
PROPERTIES PlaybackStartsInPlace FlushedScanEnds
CHECK_DEADLOCK FALSE
