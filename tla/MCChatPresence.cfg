CONSTANTS
  c1 = c1
  c2 = c2
  c3 = c3
  c4 = c4
  b1 = b1
  b2 = b2
  b3 = b3
  b4 = b4
  Absent = Absent
  Null = Null
  NoUser = NoUser
  NoReq = NoReq
  Conns <- Three
  Blocks <- ThreeBlocks
  Users <- OneTwoThree
  Requests <- AskThree
  Closing <- LastTwo
  SerialLogin = TRUE
  ToLoggedIn = TRUE
  MaxReqs = 2
SPECIFICATION Spec
INVARIANTS OneIsTold ViewExact ListComplete
CHECK_DEADLOCK FALSE
