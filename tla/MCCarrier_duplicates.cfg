SPECIFICATION Spec
CONSTANTS
  s1 = s1
  s2 = s2
  s3 = s3
  e1 = e1
  e2 = e2
  Sid = {s1}
  Endpoint = {e1}
  WorkersPerEndpoint = 2
  HeaderLen = 1
  TargetLen = 0
  MaxPayload = 2
  MaxFramePayload = 3
  BatchSizeMin = 1
  BatchSizeMax = 2
  BatchSizeDefault = 2
  MaxConsecutiveFailures = 1
  Outcome = {"ok"}
  Shutdown = FALSE
  Payloads = {2}
  MaxWrites = 1
  MaxResponse = 0
  MaxRx = 1
  MaxRecvd = 4
INVARIANT NoDuplicates
CHECK_DEADLOCK FALSE
