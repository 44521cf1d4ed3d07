CONSTANTS
  None = None
  Failure = Failure
  Auth = Auth
  Select = Select
  Users = {u1, u2}
  Workers = {w1}
  Detached = {d1}
  Cmds = {c1, c2}
  Ops = {"send", "commit", "sync"}
  HasPassword = FALSE
  HasDatabase = FALSE
  MaxReconnects <- Unlimited
  ReconnectInterval = 1
  StartConnected = TRUE
  Quiet = TRUE
  MaxDrops = 2
  MaxRefusals = 2
  MaxMalformed = 0
SPECIFICATION FairSpec
INVARIANTS QueuesAgree ReplyMatches SyncComplete
PROPERTIES SyncTerminates CallbackCalled
\* A call that never returns is what SyncTerminates excludes; an application
\* that makes no further call is no error.
CHECK_DEADLOCK FALSE
