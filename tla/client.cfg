CONSTANTS
  Calls = {c1, c2, c3}
SPECIFICATION Spec
INVARIANTS
  TypeOK
  LoginLasts
  LogoutLasts
PROPERTIES
  CallsSettle
  CallsAdvance
CHECK_DEADLOCK FALSE
