\* Four connections, three permits, and a registry for one of two clients.
SPECIFICATION FairSpec
CONSTANTS
  Listeners = {l1}
  Conns = {c1, c2, c3, c4}
  Ips = {a, b}
  IpOf <- IpOfDef
  MAX_CONCURRENT_CONNECTIONS = 3
  client_capacity = 1
  Modulus = 8
  NoConn = NoConn
  NoStats = NoStats
  c1 = c1
  c2 = c2
  c3 = c3
  c4 = c4
  a = a
  b = b
INVARIANTS TypeOK PermitsConserved OpenCountsExact
PROPERTIES PermitsReturn
