SPECIFICATION Spec
CONSTANTS
  Base = 4
  SessionIDLen = 1
  ClientIDLen = 2
  SeqWidth = 1
  CountWidth = 1
  SizeWidth = 2
  Chars <- MCChars
  ClientId <- MCClientId
  Batches <- MCBatches
  CompressMinSize = 14
  SkipCompressionAfter = 3
  RecheckAfter = 10
INVARIANTS TypeOK RoundTrip EncodesUnless SkippingBounded
