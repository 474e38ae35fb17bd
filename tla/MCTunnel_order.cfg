SPECIFICATION Spec
CONSTANTS
  s1 = s1
  e1 = e1
  e2 = e2
  h1 = h1
  h2 = h2
  Sid = {s1}
  Endpoint = {e1, e2}
  WorkersPerEndpoint = 1
  HeaderLen = 1
  TargetLen = 0
  MaxPayload = 1
  MaxFramePayload = 8
  BatchSizeMin = 1
  BatchSizeMax = 2
  BatchSizeDefault = 2
  MaxConsecutiveFailures = 1
  Outcome = {"ok", "garbled", "error", "late"}
  Payloads = {1}
  MaxWrites = 2
  MaxResponse = 2
  MaxRx = 1
  MaxRecvd = 3
  Handler = {h1, h2}
  LongPollWindow = 1
  GcInterval = 3
  DialOutcome = {"connected", "refused", "raised"}
  MaxAccepted = 3
  MaxConn = 1
  MaxReads = 1
SYMMETRY Symmetry
INVARIANTS SendsSegments UploadsInOrder DownloadsInOrder
CHECK_DEADLOCK FALSE
