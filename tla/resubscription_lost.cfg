CONSTANTS
  None = None
  Users = {u1}
  Workers = {w1, w2}
  Names = {"n1"}
  Ops = {"subscribe"}
  NeedsAuth = FALSE
  MaxReconnects <- Unlimited
  Quiet = FALSE
  MaxCalls = 1
  MaxMessages = 0
  MaxDrops = 2
  MaxRefusals = 0
SPECIFICATION Spec
INVARIANTS InSync
\* The application makes no further call.
CHECK_DEADLOCK FALSE
