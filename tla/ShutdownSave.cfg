\* The final save beside a periodic one.
SPECIFICATION StatsSpec
CONSTANTS
  Files = {f1, f2, f3}
  MaxCount = 2
  NoFile = NoFile
  NoValue = NoValue
  Garbage = Garbage
INVARIANTS ShutdownSaveSurvives
