CONSTANTS
  u1 = u1
  u2 = u2
  s1 = s1
  s2 = s2
  NoTicket = NoTicket
  NoConn = NoConn
  Nobody = Nobody
  Users = {u1}
  Sids = {s1, s2}
  Vaults = {v1}
  Tickets = {t1, t2}
  Conns = {c1, c2, c3}
  UserOf <- OneUser
  FrameDelivery = "buffer"
  MaxHandlers = 0
  MaxPending = 2
SPECIFICATION Spec
SYMMETRY Symmetry
INVARIANTS
  TypeOK
  RoomsAndSocketsAgree
  OpenSocketIsTracked
  UserEventsReachEveryDevice
PROPERTIES
  SessionsHaveOneLine
CHECK_DEADLOCK FALSE
