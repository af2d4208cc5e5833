CONSTANTS
  c1 = c1
  c2 = c2
  c3 = c3
  c4 = c4
  b1 = b1
  b2 = b2
  b3 = b3
  b4 = b4
  Absent = Absent
  Null = Null
  NoUser = NoUser
  NoReq = NoReq
  Conns <- Three
  Blocks <- ThreeBlocks
  Users <- OneTwoThree
  Requests <- SendUp
  Closing <- Third
  SerialLogin = FALSE
  ToLoggedIn = TRUE
  MaxReqs = 2
SPECIFICATION FairSpec
INVARIANTS TypeOK Registered NoEarlyPush Addressed
PROPERTIES Answered Released
CHECK_DEADLOCK FALSE
