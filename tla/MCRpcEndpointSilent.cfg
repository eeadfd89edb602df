SPECIFICATION SafeSpec
CONSTANTS
  w1 = w1
  w2 = w2
  w3 = w3
  Conns <- MCTwo
  CallingBack <- MCNone
  Raising <- MCNone
  Cancellable <- MCNone
  Portless <- MCNone
INVARIANT DisconnectionsAreNotified
CHECK_DEADLOCK FALSE
