\* Two silent resolvers in front of one that answers at once.
SPECIFICATION QuerySpec
CONSTANTS
  Pool <- FallbackPool
  Alive = {3}
  PLAIN_UDP_TIMEOUT_CAP = 2
  PENDING_FOLLOWER_TIMEOUT = 10
INVARIANTS FallbackReached
