CONSTANTS
  me = me
  u1 = u1
  u2 = u2
  Null = Null
  Self = me
  Others <- MCOthers
  Listed <- MCListed
  MaxStarts = 2
  MaxMoves = 2
  MaxSends = 1
  MaxTimeouts = 1
SPECIFICATION Spec
INVARIANTS OwnUnlock ListenerFed ViewCurrent CacheComplete
PROPERTY RequestEnds
CHECK_DEADLOCK FALSE
