\* Both modes: a second payload chunk, in another parent.
CONSTANTS
  FRM8 = FRM8
  PROP = PROP
  FS = FS
  CHNL = CHNL
  DSD = DSD
  DIIN = DIIN
  DIAR = DIAR
  JUNK = JUNK
  MaxUInt64 = 63
  Fourccs <- DffFourccs
  Descriptions <- DffDescriptions
  Media <- DffMedia
  BufferSizes = {40}
  SeekThreshold = 4
  HeaderSize = 4
  SizeIncludesHeader = FALSE
  RawSizes <- DffSizes
  TextLengths = {0, 1, 2}
  IdLists = {CHNL}
  IdSize = 2
  RequiredFields = {FS, CHNL}
  FrameSize = 2
SPECIFICATION Spec
INVARIANT PayloadReportedOnce
CHECK_DEADLOCK FALSE
