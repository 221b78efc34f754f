\* Two DoH requests for one question, and a DoT request for it on the other map: a
\* leader, a follower, a second flight while the first outcome is still being sent,
\* and both servers asking the pool at once.
SPECIFICATION FairSpec
CONSTANTS
  Requests = {d1, h1, h2}
  DohRequests = {h1, h2}
  Questions = {q1}
  Channels = {c1, c2}
  Outcomes = {o1, o2}
  MaxDrops = 1
  NoKey = NoKey
  NoChannel = NoChannel
  NoOutcome = NoOutcome
  TimedOut = TimedOut
INVARIANTS TypeOK OneCallPerKey NoOrphanWaiter GaugesExact
PROPERTIES SingleFlightSpec EntriesDrain WaitersServed
