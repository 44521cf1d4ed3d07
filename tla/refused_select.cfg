CONSTANTS
  Passwords = {}
  Indexes = {1, 2}
  Databases = 2
  Protected = {FALSE}
  Orderly = TRUE
  Quiet = TRUE
  MaxCalls = 4
  MaxDrops = 1
SPECIFICATION Spec
INVARIANTS DatabaseKept
CHECK_DEADLOCK FALSE
