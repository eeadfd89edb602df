SPECIFICATION Spec
CONSTANTS
  MaxAttempts = 2
  MaxPings = 2
  Retrying = TRUE
  KeepAlive = TRUE
  QuickTimeout = TRUE
  CallbacksRaise = TRUE
  MaxCancels = 2
INVARIANTS
  TypeOK
  OldAttemptsAreDead
  NothingIsLeftBehind
PROPERTIES
  NotifiedJustOnce
  DropClosesChannel
  JoinReturns
CHECK_DEADLOCK FALSE
