SPECIFICATION Spec
CONSTANTS
  s1 = s1
  s2 = s2
  s3 = s3
  e1 = e1
  e2 = e2
  Sid = {s1, s2}
  Endpoint = {e1}
  WorkersPerEndpoint = 1
  HeaderLen = 1
  TargetLen = 0
  MaxPayload = 2
  MaxFramePayload = 3
  BatchSizeMin = 1
  BatchSizeMax = 3
  BatchSizeDefault = 2
  MaxConsecutiveFailures = 1
  Outcome = {"ok", "garbled", "blank", "throttled", "error", "late"}
  Shutdown = TRUE
  Payloads = {2}
  MaxWrites = 1
  MaxResponse = 1
  MaxRx = 1
  MaxRecvd = 3
SYMMETRY SidSymmetry
INVARIANTS InOrder QueuesAccounted QueueIsTail
CHECK_DEADLOCK FALSE
