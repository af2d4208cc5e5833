CONSTANTS
  c1 = c1
  c2 = c2
  c3 = c3
  c4 = c4
  b1 = b1
  b2 = b2
  b3 = b3
  b4 = b4
  Absent = Absent
  Null = Null
  NoUser = NoUser
  NoReq = NoReq
  Conns <- Two
  Blocks <- TwoBlocks
  Users <- OneTwo
  Requests <- SendFirst
  Closing <- Nobody
  SerialLogin = TRUE
  ToLoggedIn = FALSE
  MaxReqs = 2
SPECIFICATION Spec
INVARIANTS Alive
CHECK_DEADLOCK FALSE
