\* Two concurrent queries over two upstreams, each sidelined by two failures.
SPECIFICATION Spec
CONSTANTS
  N = 2
  Queries = {q1, q2}
  RoundRobin = TRUE
  HEALTH_FAILURE_THRESHOLD = 2
  HEALTH_COOLDOWN = 2
  MaxTime = 3
SYMMETRY Symmetry
INVARIANTS TypeOK FallbackComplete
