CONSTANTS
  a9 = a9
  a10 = a10
  a11 = a11
  q = q
  p9 = p9
  p10 = p10
  Callers = {w1, w2}
  Ids = {a9, a10, a11}
  Passwords = {p9, p10, q}
  Nicks = {n1, n2}
  Cut10 <- MCCut10
  Cut9 <- MCCut9
  MaxDate = 1
  None = None
SYMMETRY Symmetry
CONSTRAINT Few
SPECIFICATION AccountsSpec
INVARIANTS
  AccountsStay
  FriendsAsTold
  LastLoginIsLogged
  StoredWasCreated
