\* A plain, a DoT and a DoH upstream, any of which may answer, fail or be silent.
SPECIFICATION QueryFairSpec
CONSTANTS
  Pool <- MixedPool
  Alive = {}
  PLAIN_UDP_TIMEOUT_CAP = 2
  PENDING_FOLLOWER_TIMEOUT = 10
INVARIANTS QueryTypeOK TimeBounded
PROPERTIES QueryEnds
