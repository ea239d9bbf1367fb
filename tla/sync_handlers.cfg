CONSTANTS
  u1 = u1
  u2 = u2
  s1 = s1
  s2 = s2
  NoTicket = NoTicket
  NoConn = NoConn
  Nobody = Nobody
  Users = {u1, u2}
  Sids = {s1}
  Vaults = {v1, v2}
  Tickets = {t1, t2}
  Conns = {c1, c2}
  UserOf <- TwoUsers
  FrameDelivery = "object"
  MaxHandlers = 1
  MaxPending = 1
SPECIFICATION Spec
SYMMETRY Symmetry
INVARIANTS
  RoomsAndSocketsAgree
  RoomsAreAuthorised
  OpenSocketIsTracked
CHECK_DEADLOCK FALSE
