CONSTANTS
  None = None
  Failure = Failure
  Auth = Auth
  Select = Select
  Users = {u1}
  Workers = {w1}
  Detached = {d1}
  Cmds = {c1}
  Ops = {"send", "sync"}
  HasPassword = FALSE
  HasDatabase = FALSE
  MaxReconnects = 0
  ReconnectInterval = 0
  StartConnected = TRUE
  Quiet = TRUE
  MaxDrops = 1
  MaxRefusals = 0
  MaxMalformed = 0
SPECIFICATION FairSpec
PROPERTIES SyncTerminates
CHECK_DEADLOCK FALSE
