SPECIFICATION Spec
CONSTANTS
  w1 = w1
  w2 = w2
  w3 = w3
  Conns <- MCConns
  CallingBack <- MCOne
  Raising <- MCConns
  Cancellable <- MCConns
  Portless <- MCPortless
INVARIANTS
  TypeOK
  ManagerTracksServed
  FarewellComesLast
PROPERTY LostConnectionEnds
CHECK_DEADLOCK FALSE
