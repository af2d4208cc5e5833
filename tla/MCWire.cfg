CONSTANTS
  Messages <- MCMessages
  BlockSize = 3
  BlockMax = 3
  MaxMsgs = 2
  SplitPaged = FALSE
SPECIFICATION FairSpec
INVARIANTS TypeOK Paged  
PROPERTIES Delivered
CHECK_DEADLOCK FALSE
