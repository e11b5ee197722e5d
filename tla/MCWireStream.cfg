SPECIFICATION Spec
CONSTANTS
  MaxFields = 2
  MaxReason = 2
  MaxValue = 2
  Streams <- MCStreams
  RelayRequestId <- MCRelayRequestId
INVARIANTS TypeOK ReadAsWritten ParametersSurvive NothingRefused EndsComplete
