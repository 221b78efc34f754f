\* A command and a peer that writes two lines, beside the periodic refresh; a block
\* list and an allow list.
SPECIFICATION FairSpec
CONSTANTS
  Clis = {cli}
  Peers = {peer}
  Asked = {"clients", "cache_flush", "blocklist_reload"}
  Lines = {"blank", "invalid", "blocklist_reload"}
  MaxLines = 2
  Timers = {periodic}
  Startup = Startup
  Block = 1
  Allow = 1
  MaxRefreshes = 2
  NoOne = NoOne
INVARIANTS TypeOK EngineOfOneRefresh
PROPERTIES EngineNeverGoesBack AcknowledgedIsDone RepliesInOrder CommandsEnd
