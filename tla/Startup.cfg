\* Settings one or two away from the default, lists of up to two lines, two hosts
\* to resolve through two servers.
SPECIFICATION FairSpec
CONSTANTS
  Hosts = {h1, h2, Mangled}
  Servers = {s1, s2}
  None = None
  NoHost = NoHost
  Chars = {"a", "A", "b", ".", "*"}
  Lower <- LowerDef
  Ids = {1, 2}
  AddressesOf <- AddressesOfDef
  Deadline = 2
  Inputs <- InputsDef
  Mangled = Mangled
  Literal <- LiteralDef
  h1 = h1
  h2 = h2
  s1 = s1
  s2 = s2
CHECK_DEADLOCK FALSE
INVARIANTS TypeOK ServesSound EndpointsOfHost VerdictsMeetReference
PROPERTIES StartEnds
