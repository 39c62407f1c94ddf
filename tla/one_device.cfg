SPECIFICATION Spec
CONSTANTS
  c1 = c1
  c2 = c2
  u1 = u1
  u2 = u2
  u3 = u3
  i1 = i1
  i2 = i2
  Clients = {c1}
  Users = {u1, u2, u3}
  Items = {i1, i2}
  Null = Null
  NoBidder = NoBidder
  TicksPerMinute = 1
  SignedIn_UserName <- MCOneUserName
  OpenedBefore <- TwoAuctions
  Amounts = {1, 2, 3}
  MaxTime = 0
  MaxBids = 3
  MaxDeletes = 1
  MaxFaults = 0
  MaxInbox = 2
CHECK_DEADLOCK FALSE
INVARIANTS
  TypeOK
  AuctionInv
  BidsRespectStartingPrice
  OpenerNeverLeads
  ListsMirrorView
