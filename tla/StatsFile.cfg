\* The names, a spare file, and a counter that passes three values.
SPECIFICATION StatsSpec
CONSTANTS
  Files = {f1, f2, f3}
  MaxCount = 3
  NoFile = NoFile
  NoValue = NoValue
  Garbage = Garbage
SYMMETRY Symmetry
INVARIANTS StatsTypeOK CountersNeverFallBack
