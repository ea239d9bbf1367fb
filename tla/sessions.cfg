CONSTANTS
  Users = {u1}
  Sids = {s1}
  Requests = {r1, r2}
  AccessLife = 1
  RefreshLife = 2
  MsPerSecond = 1000
  MaxNow = 3
  MaxCounter = 3
  NoPair = NoPair
SPECIFICATION Spec
SYMMETRY Symmetry
INVARIANTS
  TypeOK
  OneLivePair
  LogoutIsFinal
  CounterOutlivesTokens
PROPERTIES
  NoRefreshAfterLogout
  CounterNeverFallsBack
  DeletedUserStaysOut
  TokensRotate
CHECK_DEADLOCK FALSE
