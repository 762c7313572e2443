SPECIFICATION RpcFairSpec
CONSTANTS
  HTTP_QUEUE_SIZE = 1
  MaxRpcs = 2
  MaxTelemetry = 1
CHECK_DEADLOCK FALSE
INVARIANT ForwardedOnce
INVARIANT GuardHasCause
PROPERTY RightAnswer
PROPERTY CommandsServed
