CONSTANTS
  l = l
  p1 = p1
  p2 = p2
  None = None
  NoList = NoList
  Listener = l
  Pushers <- MCPushers
  Sections <- MCSections
  MaxTurns <- MCMaxTurns
  Base = 128
  MinSize = 32
  Sizes <- MCSizes
  BlockSize = 40
  Chars <- MCChars
  Depth = 3
SPECIFICATION Spec
INVARIANTS  ChunksInside SectionSafe StartsEmpty Whole TextReceived  TextFits
CHECK_DEADLOCK FALSE
