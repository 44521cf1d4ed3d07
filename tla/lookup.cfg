CONSTANTS
  None = None
  Users = {u1}
  Workers = {w1, w2}
  Cmds = {c1}
  NbSentinels = 2
  Ops = {"send", "sync", "timed", "connect", "disconnect", "lookup", "client", "cancel"}
  Quiet = TRUE
  Orderly = TRUE
  MaxLookups = 1
  MaxDrops = 1
  MaxRefusals = 1
  MaxUnknown = 1
  MaxClientDrops = 1
SPECIFICATION FairSpec
INVARIANTS TypeOK CallbackInScope OwnReply FreshAddress
PROPERTIES LookupReturns Recovers
\* The application makes no further call.
CHECK_DEADLOCK FALSE
