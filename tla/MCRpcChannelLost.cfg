SPECIFICATION SafeSpec
CONSTANTS
  c1 = c1
  c2 = c2
  d1 = d1
  r1 = r1
  r2 = r2
  Calls <- MCCalls
  Detached <- MCDetached
  Timed <- MCTimed
  Cancellable <- MCCancellable
  Results <- MCResults
  Anonymous = Anonymous
  NoResponse = NoResponse
  Suspending <- MCSuspending
INVARIANT NoAnswerLost
CHECK_DEADLOCK FALSE
