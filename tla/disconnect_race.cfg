CONSTANTS
  None = None
  Failure = Failure
  Auth = Auth
  Select = Select
  Users = {u1}
  Workers = {w1, w2}
  Detached = {d1, d2, d3}
  Cmds = {c1, c2}
  Ops = {"send", "commit", "connect", "disconnect", "disconnect_wait"}
  HasPassword = FALSE
  HasDatabase = FALSE
  MaxReconnects = 1
  ReconnectInterval = 0
  StartConnected = FALSE
  Quiet = FALSE
  MaxDrops = 1
  MaxRefusals = 0
  MaxMalformed = 0
SPECIFICATION Spec
SYMMETRY Symmetry
INVARIANTS TypeOK MutexOwner FrontDefined OnePlace RunningCount
