CONSTANTS
  c1 = c1
  Calls = {c1}
  Names = {"t1", "t2"}
  Recordings <- MCOneRecording
  PluginCount = 1
  Broken = {}
  Results = {0, 1}
  audio_archive = FALSE
  transmission_archive = FALSE
  compress_wav = TRUE
  min_tx_duration = 1
  min_duration = 1
  Jitter = {0, 9}
  ExitSignal = TRUE

SPECIFICATION Spec
CHECK_DEADLOCK FALSE

INVARIANT RemovedAfterUpload
