SPECIFICATION Spec
CONSTANTS
  c1 = c1
  c2 = c2
  n1 = n1
  n2 = n2
  k1 = k1
  k2 = k2
  Clients = {c1, c2}
  Keys = {k1, k2}
  Names = {n1, n2}
  Null = Null
  StoredNames = {n1, n2, Null}
  Others = {"AuctionsWon"}
  MaxUses = 2
  MaxLogins = 2
  MaxLosses = 1
  MaxInAll = 5
  MaxWaiting = 2
SYMMETRY Alike
CHECK_DEADLOCK FALSE
INVARIANTS
  TypeOK
  NothingCountedTwice
  UnhurriedCountsAreRight
  NamesUniqueUnlessMet
  SignedInHaveAccounts
  AccountsInv
