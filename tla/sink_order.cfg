CONSTANTS
  Calls = {"phase1", "phase2", "conventional"}
  NoCall = NoCall
  Talkgroups = {"fire", "police"}
  TalkgroupOf <- MCTalkgroupOf
  SlotOf <- MCSlotOf
  Conventional = {"conventional"}
  UnitIds = {1}
  Outcomes = {"ok", "open_fails", "header_fails"}
  NoFile = NoFile
  MaxTime = 1
  MaxItems = 1
  MaxTags = 2
  MaxSamples = 2
  MaxClosed = 2

SPECIFICATION Spec

INVARIANTS
  ForeignIsDropped
