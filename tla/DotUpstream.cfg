\* Two callers, two endpoints that keep one idle stream each.
SPECIFICATION Spec
CONSTANTS
  Queries = {q1, q2}
  Streams = {s1, s2, s3}
  E = 2
  DOT_MAX_IDLE_PER_ENDPOINT = 1
  DOT_IDLE_MAX_AGE = 1
  EndpointTimeout = 1
  MaxTime = 2
  NoStream = NoStream
SYMMETRY Symmetry
INVARIANTS TypeOK OwnAnswer StaleCostsNoEndpoint
