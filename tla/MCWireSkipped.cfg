SPECIFICATION Spec
CONSTANTS
  MaxFields = 2
  MaxReason = 2
  MaxValue = 2
  Streams <- SkippingStreams
  RelayRequestId <- MCRelayRequestId
INVARIANT SkippedWithoutError
