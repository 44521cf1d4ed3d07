CONSTANTS
  None = None
  Users = {u1}
  Workers = {w1}
  Names = {"n1"}
  Ops = {"subscribe", "unsubscribe", "auth", "disconnect", "connect", "cancel"}
  NeedsAuth = TRUE
  MaxReconnects <- Unlimited
  Quiet = FALSE
  MaxCalls = 2
  MaxMessages = 2
  MaxDrops = 1
  MaxRefusals = 1
SPECIFICATION FairSpec
INVARIANTS TypeOK MutexOwner CallbackSubscribed AuthDefined InOrder InSync
PROPERTIES Resubscribed Handled
\* The application makes no further call.
CHECK_DEADLOCK FALSE
