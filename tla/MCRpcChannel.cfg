SPECIFICATION Spec
CONSTANTS
  c1 = c1
  c2 = c2
  d1 = d1
  r1 = r1
  r2 = r2
  Calls <- MCCalls
  Detached <- MCDetached
  Timed <- MCTimed
  Cancellable <- MCCancellable
  Results <- MCResults
  Anonymous = Anonymous
  NoResponse = NoResponse
  Suspending <- MCSuspending
INVARIANTS
  TypeOK
  ResponsesArePending
  ReturnedIsForgotten
  PromptCallsAreAnswered
PROPERTIES
  TimedCallEnds
  CloseReleasesCallers
  ImplementsRpcCall
CHECK_DEADLOCK FALSE
