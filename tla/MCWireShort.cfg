CONSTANTS
  Messages <- MCMessages
  BlockSize = 3
  BlockMax = 3
  MaxMsgs = 2
  SplitPaged = TRUE
SPECIFICATION Spec
INVARIANT BlocksIntact
CHECK_DEADLOCK FALSE
