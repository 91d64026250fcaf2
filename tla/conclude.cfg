CONSTANTS
  Calls = {"c1", "c2"}
  Names = {"t1", "t2", "t3"}
  Recordings <- MCRecordings
  PluginCount = 3
  Broken = {2}
  Results = {0, 1}
  audio_archive = TRUE
  transmission_archive = TRUE
  compress_wav = TRUE
  min_tx_duration = 1
  min_duration = 1
  Jitter = {9}
  ExitSignal = TRUE

SPECIFICATION LiveSpec
CHECK_DEADLOCK FALSE

INVARIANTS
  OneJobPerCall
  TriesAreBounded
  ArchiveKeepsAudio

PROPERTIES
  RemovalFollowsUpload
  ImplementsDelivery
  EveryCallIsSettled
