SPECIFICATION FairSpec
CONSTANTS
  Rooms = {r1, r2}
  Clients = {c1}
  Publishers = {p1, p2}
  NoRoom = noRoom
  Cap = 2
  MaxChanges = 3
CHECK_DEADLOCK FALSE
INVARIANTS
  TypeOK
  OpenWhileRegistered
  EveryBroadcastInOrder
  CurrentWhenSettled
PROPERTY DroppedIsEnded
