SPECIFICATION Spec
CONSTANTS
  VoiceCap = 2
  Hold = 2
  TimeMod = 6
  NoPrompt = NoPrompt
  Messages <- MCMessages
  Outcomes = {"failed", "notReady"}
  MinToken = 2
  TokenCap = 3
  LastCap = 2
  LineCap = 5
  BufferCap = 7
  Global = 1
  Same = 3
  ShortGap = 1
  LongGap = 3
  PlatformPrompts <- MCPlatformPrompts
  MaxSwipes = 2
INVARIANTS
  ReaderTypeOK
  EverySwipeFound
  NothingWholeLeft
PROPERTIES
  EventsPaced
  PromptsInTurn
