SPECIFICATION Spec
CONSTANTS
  c1 = c1
  c2 = c2
  u1 = u1
  i1 = i1
  Clients = {c1, c2}
  Users = {u1}
  Items = {i1}
  Null = Null
  NoBidder = NoBidder
  TicksPerMinute = 1
  Stored <- MCStored
  AppWrites <- MCAppWrites
  MaxWrites = 3
  MaxLosses = 2
  MaxListens = 1
  MaxInAll = 3
  MaxInbox = 0
SYMMETRY Alike
CHECK_DEADLOCK FALSE
INVARIANTS
  TypeOK
  AnsweredIsKnown
  QuietClientAgrees
  NewestPutIsLast
  RealtimeInv
PROPERTY ImplementsSync
