CONSTANTS
  Requests = {r1}
  Users = {u1, u2}
  Admins = {u2}
  Ids = {x, y}
  MaxRows = 3
  NoRow = NoRow
  NoCall = NoCall
  Nobody = Nobody
SPECIFICATION Spec
SYMMETRY Symmetry
INVARIANT ScopesAreKept
CHECK_DEADLOCK FALSE
