SPECIFICATION SafeSpec
CONSTANTS
  MaxAttempts = 1
  MaxPings = 2
  Retrying = TRUE
  KeepAlive = FALSE
  QuickTimeout = FALSE
  CallbacksRaise = FALSE
  MaxCancels = 0
INVARIANT DisconnectCallbacksAreCalled
CHECK_DEADLOCK FALSE
