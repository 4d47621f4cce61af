\* A seek to the tag that upstream refuses.
CONSTANTS
  HEADER = HEADER
  FMT = FMT
  DATA = DATA
  JUNK = JUNK
  MaxUInt64 = 63
  Fourccs <- DsfFourccs
  Descriptions <- DsfDescriptions
  Media <- DsfMedia
  BufferSizes = {5, 40}
  SeekThreshold = 4
  HeaderSize = 4
  SizeIncludesHeader = TRUE
  RawSizes <- DsfSizes
  TextLengths = {}
  IdLists = {}
  IdSize = 1
  RequiredFields = {}
  FrameSize = 1
  MinimumSize = 22
  Id3v2HeaderSize = 2
  MetadataPositions = {0, 14, 30, 35}
  Id3v2Sizes = {0, 2, 6, 9, 60}
  NumChannels = 2
  BlockSize = 2
  ByteCounts = {1, 3, 60}
SPECIFICATION DsfSpec

PROPERTIES RefusedSeekIsHarmless
CHECK_DEADLOCK FALSE
