SPECIFICATION Spec
CONSTANTS
  p1 = p1
  p2 = p2
  pj = pj
  c1 = c1
  c2 = c2
  Callers = {c1, c2}
  Providers = {p1, p2, pj}
  NoProvider = NoProvider
  NoInstance = NoInstance
  NoBucket = NoBucket
  Primary = p1
  Dedicated <- MCDedicated
  Fallbacks <- MCFallbacks
  Structured = {pj}
  Streaming = {p1}
  Reasons = {p1, pj}
  InstanceID <- MCInstanceID
  Requests <- MCRequests
  Total = 4
  DefaultCap = 1
  MaxRetries = 1
INVARIANTS SlotsMatchAttempts ShownIsTheAnswer CanceledStops OpaqueStateStaysHome
PROPERTY CallsReturn
