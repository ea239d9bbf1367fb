CONSTANTS
  Requests = {r1, r2}
  Users = {u1, u2}
  Admins = {u2}
  Ids = {x, y}
  MaxRows = 4
  NoRow = NoRow
  NoCall = NoCall
  Nobody = Nobody
SPECIFICATION Spec
SYMMETRY Symmetry
INVARIANTS
  TypeOK
  ReferentialIntegrity
  StatementsAreEntitled
PROPERTIES
  ContentNeverChangesHands
CHECK_DEADLOCK FALSE
