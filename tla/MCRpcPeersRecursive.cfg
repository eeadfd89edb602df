SPECIFICATION Spec
CONSTANTS
  Rec = Rec
  Nested1 = Nested1
  Nested2 = Nested2
  Back = Back
  Detached1 = Detached1
  Fetch = Fetch
  Calls <- MCCallsRecursive
  caller <- MCcaller
  kind <- MCkind
  child <- MCchild
  Timed <- MCNone
  HighWater = 1
  Anonymous = Anonymous
  NoResponse = NoResponse
  NoCall = NoCall
PROPERTY RecursiveCallsEnd
CHECK_DEADLOCK FALSE
