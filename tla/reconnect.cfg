CONSTANTS
  None = None
  Failure = Failure
  Auth = Auth
  Select = Select
  Users = {u1}
  Workers = {w1}
  Detached = {d1, d2}
  Cmds = {c1, c2}
  Ops = {"send", "commit", "sync", "cancel", "timed"}
  HasPassword = FALSE
  HasDatabase = FALSE
  MaxReconnects = 2
  ReconnectInterval = 1
  StartConnected = TRUE
  Quiet = TRUE
  MaxDrops = 2
  MaxRefusals = 2
  MaxMalformed = 1
SPECIFICATION Spec
INVARIANTS QueuesAgree ReconnectingHandled
PROPERTIES NotifyOrder Implements
\* A thread in sync_commit can sleep forever (run lost_wakeup).
CHECK_DEADLOCK FALSE
