\* Both modes: media up to the whole of FRM8 { PROP { FS CHNL } DSD DIIN { DIAR } }.
CONSTANTS
  FRM8 = FRM8
  PROP = PROP
  FS = FS
  CHNL = CHNL
  DSD = DSD
  DIIN = DIIN
  DIAR = DIAR
  JUNK = JUNK
  MaxUInt64 = 63
  Fourccs <- DffFourccs
  Descriptions <- DffDescriptions
  Media <- DffMedia
  BufferSizes = {5, 46}
  SeekThreshold = 4
  HeaderSize = 4
  SizeIncludesHeader = FALSE
  RawSizes <- DffSizes
  TextLengths = {0, 2}
  IdLists = {CHNL}
  IdSize = 2
  RequiredFields = {FS, CHNL}
  FrameSize = 2
SPECIFICATION FairSpec
INVARIANTS TypeOK ScanOutcomeInv StackNested InputAligned NoInternalError ContentHasChunk PropEndsComplete UnseekableStreamsAtOnce
PROPERTIES PopsInnermostFirst PlaybackStartsAtPayload ScanEnds
CHECK_DEADLOCK FALSE
