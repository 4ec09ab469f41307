SPECIFICATION ImportSpec
CONSTANTS
  ChatSource = {"chat"}
  SpanSource = {"spans"}
  Contents <- ChatAndSpans
  MaxPasses = 2
  MaxEdits = 1
  MaxMishaps = 1
  Payloads <- SmallPayloads
CHECK_DEADLOCK FALSE
INVARIANTS ReimportIsIdempotent
