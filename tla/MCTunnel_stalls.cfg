SPECIFICATION FairSpec
CONSTANTS
  s1 = s1
  e1 = e1
  e2 = e2
  h1 = h1
  h2 = h2
  Sid = {s1}
  Endpoint = {e1}
  WorkersPerEndpoint = 1
  HeaderLen = 1
  TargetLen = 0
  MaxPayload = 1
  MaxFramePayload = 8
  BatchSizeMin = 1
  BatchSizeMax = 2
  BatchSizeDefault = 2
  MaxConsecutiveFailures = 5
  Outcome = {"ok", "garbled"}
  Payloads = {1}
  MaxWrites = 0
  MaxResponse = 2
  MaxRx = 1
  MaxRecvd = 4
  Handler = {h1}
  LongPollWindow = 1
  GcInterval = 3
  DialOutcome = {"connected", "refused", "raised"}
  MaxAccepted = 4
  MaxConn = 1
  MaxReads = 2
PROPERTY DownloadsArrive
CHECK_DEADLOCK FALSE
