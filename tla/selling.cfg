SPECIFICATION Spec
CONSTANTS
  c1 = c1
  c2 = c2
  u1 = u1
  u2 = u2
  u3 = u3
  i1 = i1
  i2 = i2
  Clients = {c1, c2}
  Users = {u1, u2, u3}
  Items = {i1}
  Null = Null
  NoBidder = NoBidder
  TicksPerMinute = 2
  SignedIn_UserName <- MCUserName
  OpenedBefore <- NoAuction
  Amounts = {1}
  MaxTime = 1
  MaxBids = 1
  MaxDeletes = 1
  MaxFaults = 0
  MaxInbox = 1
CHECK_DEADLOCK FALSE
PROPERTY ImplementsAuctionHouse
INVARIANTS
  ListsMirrorView
  LeaderInv
  MirrorInv
