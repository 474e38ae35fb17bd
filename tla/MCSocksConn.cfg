SPECIFICATION FairSpec
CONSTANTS
  Apps <- MCApps
  Users <- MCUsers
  Responses <- MCResponses
  Clocks = {"int", "float"}
INVARIANTS TypeOK HandshakeWhole DataInOrder
PROPERTIES Answered FinAnswered
CHECK_DEADLOCK FALSE
