CONSTANTS
  Channels <- MCChannels
  Slots = {0, 1}
  SlotsOf <- MCSlotsOf
  Analog <- MCAnalog
  Timeout = 1
  MaxDuration = 1
  MaxBegun = 2
  MaxLength = 2
SPECIFICATION Spec
CHECK_DEADLOCK FALSE
PROPERTY EveryLongCallIsSplit
