SPECIFICATION Spec
CONSTANTS
  Addr = {a1, a2}
  Req = {r1}
  QueueMax = 1
  SocketMax = 1
  MaxBackoff = 2
INVARIANTS
  TypeOK
  NoLostChange
PROPERTIES
  AddReachesProvider
  RemoveReachesProvider
