\* Three keys compete for two places.
SPECIFICATION Spec
CONSTANTS
  Keys = {a, b, c}
  Messages <- MessagesDef
  Capacity = 2
  MinTtl = NoLimit
  MaxTtl = 3
  TicksPerSecond = 2
  MaxTime = 4
  MaxEvictions = 2
  NoLimit = NoLimit
  NoEntry = NoEntry
  NoReply = NoReply
SYMMETRY Symmetry
INVARIANTS TypeOK CapacityRespected ServedFresh NeverOutlivesARecord
