SPECIFICATION Spec
CONSTANTS
  MaxCalls = 2
  Calls <- MCCalls
  Pipelined <- MCPipelined
  StoreKeys <- Empty
INVARIANTS SameRequests OneMeaning
\* The application makes no further call.
CHECK_DEADLOCK FALSE
