\* A DoT and two DoH handlers and three queries, of which two share a subnet under some
\* of the three settings of the client subnet option, in a cache for one entry.
SPECIFICATION FairSpec
CONSTANTS
  Requests = {d, h1, h2}
  DohRequests = {h1, h2}
  Width <- WidthDef
  Private <- PrivateDef
  NoEcs = NoEcs
  Arrivals <- ArrivalsDef
  EdnsConfigs <- EdnsConfigsDef
  Questions <- QuestionsDef
  Keys <- KeysDef
  RuleSets <- RuleSetsDef
  Answers <- AnswersDef
  Blocked <- BlockedDef
  Capacity = 1
  MinTtl = NoLimit
  MaxTtl = NoLimit
  TicksPerSecond = 1
  MaxTime = 1
  MaxEvictions = 2
  MaxQueries = 2
  MaxReloads = 1
  NoLimit = NoLimit
  NoEntry = NoEntry
  NoReply = NoReply
  NoKey = NoKey
  NoOutcome = NoOutcome
  TimedOut = TimedOut
  UpstreamError = UpstreamError
  NoAnswer = NoAnswer
  n1 = n1
  n2 = n2
INVARIANTS TypeOK Attributed ContradictionsComeFromOldRules
PROPERTIES QueriesAnswered
