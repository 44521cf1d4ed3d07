CONSTANTS
  Passwords = {"right"}
  Indexes = {1}
  Databases = 2
  Protected = {FALSE, TRUE}
  Orderly = TRUE
  Quiet = TRUE
  MaxCalls = 5
  MaxDrops = 2
SPECIFICATION Spec
INVARIANTS RightDatabase Authenticated ExecWhole Settled
CHECK_DEADLOCK FALSE
