SPECIFICATION FairSpec
CONSTANTS
  Width = 8
  ReuseAfterLoss = FALSE
  MaxConnections = 2
  Scripts <- MCScripts
CHECK_DEADLOCK FALSE
INVARIANTS TypeOK SameReplies Prompt ThrowsOnlyOnInvalid NoticesInvalid
PROPERTY Returns
