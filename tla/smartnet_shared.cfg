CONSTANTS
  Systems = {"county", "city"}
  Setups = {{"county", "city"}}
  Plan <- MCPlan
  Messages <- MCMessages
  Words <- MCWords
  NoWord = NoWord
  NoMessage = NoMessage

SPECIFICATION ChannelSpec

INVARIANT OwnSystem
