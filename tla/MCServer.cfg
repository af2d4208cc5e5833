CONSTANTS
  Threads = {1, 2, 3}
  Limit = 0
  Asking = {1, 3}
  Word = 16
  Fds = {4, 5}
  None = None
  b1 = b1
  b2 = b2
  b3 = b3
  Blocks <- MCBlocks
SPECIFICATION Spec
INVARIANTS CountExact FdOwner BlocksSound
PROPERTY Ends
CHECK_DEADLOCK FALSE
