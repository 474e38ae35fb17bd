SPECIFICATION Spec
CONSTANTS
  s1 = s1
  s2 = s2
  s3 = s3
  e1 = e1
  e2 = e2
  Sid = {s1}
  Endpoint = {e1}
  WorkersPerEndpoint = 2
  HeaderLen = 1
  TargetLen = 0
  MaxPayload = 1
  MaxFramePayload = 8
  BatchSizeMin = 1
  BatchSizeMax = 3
  BatchSizeDefault = 2
  MaxConsecutiveFailures = 1
  Outcome = {"ok", "garbled"}
  Shutdown = FALSE
  Payloads = {1}
  MaxWrites = 0
  MaxResponse = 0
  MaxRx = 1
  MaxRecvd = 9
INVARIANT WorkersSurvive
CHECK_DEADLOCK FALSE
