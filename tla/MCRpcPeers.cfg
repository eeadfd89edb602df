SPECIFICATION Spec
CONSTANTS
  Rec = Rec
  Nested1 = Nested1
  Nested2 = Nested2
  Back = Back
  Detached1 = Detached1
  Fetch = Fetch
  Calls <- MCCalls
  caller <- MCcaller
  kind <- MCkind
  child <- MCchild
  Timed <- MCTimed
  HighWater = 1
  Anonymous = Anonymous
  NoResponse = NoResponse
  NoCall = NoCall
INVARIANTS
  TypeOK
  NothingVanishes
PROPERTIES
  AnswersInOrder
  ImplementsChannels
  CallsEnd
  DropReleasesCallers
CHECK_DEADLOCK FALSE
