CONSTANTS
  c1 = c1
  c2 = c2
  Calls = {c1, c2}
  NoCall = NoCall
  Recorders = {"p25", "fm"}
  NoRecorder = NoRecorder
  Analog = {"fm"}
  AuxRecorders = {"debug", "sigmf"}
  Sources = {"rtl"}
  NoSource = NoSource
  SourceOf <- MCSourceOf
  KindOf <- MCKindOf
  Channels = {"f1", "outside"}
  Phase2 = {"f1"}
  FirstSource <- MCFirstSource
  Systems = {"county"}
  Talkgroups = {"fire", "police", "works"}
  Known = {"fire", "police"}
  AnalogMode = {"works"}
  EncryptedMode = {}
  RecordUnknown = {"county"}
  Priority <- MCPriority
  PatchedWith <- MCPatchedWith
  P25 = {}
  MultiSite = {}
  SystemName <- MCNoName
  SystemNumber <- MCNoNumber
  Wacn <- MCWacn
  Nac <- MCSite
  Site <- MCSite
  PreferredNAC <- MCNoPreference
  Timeout = 1
  MaxClosed = 1

SPECIFICATION LiveSpec

INVARIANTS
  TypeOK
  RecorderIsExclusive
  ActiveIffLent
  AuxIsExclusive
  NothingLost

PROPERTIES
  ConcludedOnce
  SinksKeepLifecycle
  QuietChannelsAreReleased
