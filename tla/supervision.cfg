CONSTANTS
  west = west
  east = east
  north = north
  far = far
  src1 = src1
  src2 = src2
  NoSource = NoSource
  Off = Off
  Systems = {1}
  P25 = {1}
  Frequencies <- MCFrequencies
  Sources = {src1, src2}
  Covers <- MCCovers
  FirstSource <- MCFirstSource
  Band <- MCBand
  Configured <- MCConfigured
  RetuneLimit = 3
  Talkgroups = {1, 2}
  Supergroups = {1}
  StaleAge = 3
  CheckEvery = 2
  Rate = 2
SPECIFICATION Spec
CHECK_DEADLOCK FALSE
INVARIANTS
  TypeOK
  ReceiverFollowsList
  GivesUpLast
  PatchesAreAsAnnounced
  SupergroupOutlives
PROPERTIES
  FindsControlChannel
