CONSTANTS
  Systems = {1, 2}
  Talkgroups = {11, 12}
  Unused = Unused
  Plan <- MCPlan
  Uses <- MCUses
SPECIFICATION Spec
INVARIANTS
  OwnChannels
  CallsAreReported
