SPECIFICATION Spec
CONSTANTS
  c1 = c1
  c2 = c2
  Conns <- MCConns
  Syncing <- MCConns
  Timed <- MCHard
  Suspending <- MCHard
  Foreign <- MCHard
  Waiters <- MCWaiters
INVARIANTS
  TypeOK
  KnownIdIsTheOthers
  WaitersGetTheId
PROPERTIES
  SyncTaskEnds
  WaitersLearn
CHECK_DEADLOCK FALSE
