SPECIFICATION FairSpec
CONSTANTS
  s1 = s1
  s2 = s2
  h1 = h1
  h2 = h2
  Sid = {s1}
  Handler = {h1, h2}
  MaxPayload = 1
  HeaderLen = 1
  TargetLen = 0
  MaxDrain = 1
  LongPollWindow = 1
  GcInterval = 3
  MaxConcurrentUpstream = 256
  DialOutcome = {"connected", "refused", "raised"}
  MaxWrites = 2
  MaxAccepted = 4
  MaxConn = 1
  MaxReads = 1
INVARIANTS TypeOK WritesInOrder NoLostWakeup EndsOnce
PROPERTIES ServesStream ClosesPropagate
CHECK_DEADLOCK FALSE
