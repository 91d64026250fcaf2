CONSTANTS
  c1 = c1
  c2 = c2
  c3 = c3
  Calls = {c1, c2, c3}
  NoCall = NoCall
  Recorders = {"p25", "p25b", "p25c"}
  NoRecorder = NoRecorder
  Analog = {}
  AuxRecorders = {}
  Sources = {"rtl"}
  NoSource = NoSource
  SourceOf <- MCSourceOf
  KindOf <- MCKindOf
  Channels = {"f1"}
  Phase2 = {}
  FirstSource <- MCFirstSource
  Systems = {"south", "east", "north"}
  Talkgroups = {"fire"}
  Known = {"fire"}
  AnalogMode = {}
  EncryptedMode = {}
  RecordUnknown = {}
  Priority <- MCPriority
  PatchedWith <- MCPatchedWith
  P25 = {"south", "north"}
  MultiSite = {"south", "east", "north"}
  SystemName <- MCName
  SystemNumber <- MCNumber
  Wacn <- MCWacn
  Nac <- MCSite
  Site <- MCSite
  PreferredNAC <- MCPreferNorth
  Timeout = 0
  MaxClosed = 0

SPECIFICATION Spec
SYMMETRY CallSymmetry

INVARIANT RecorderIsExclusive

PROPERTY OneSiteRecords
