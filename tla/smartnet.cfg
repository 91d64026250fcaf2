CONSTANTS
  Systems = {"county", "obt"}
  Setups = {{"county"}, {"obt"}}
  Plan <- MCPlan
  Messages <- MCMessages
  Words <- MCWords
  NoWord = NoWord
  NoMessage = NoMessage

SPECIFICATION ChannelSpec

INVARIANTS
  TypeOK
  CallsAreReported
  MessagesAreReported

PROPERTY ImplementsWordStream
