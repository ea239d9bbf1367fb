CONSTANTS
  Requests = {r1, r2}
  Accounts = {a1, a2}
  Emails = {e1, e2, e3}
  MaxChanges = 3
  MaxClock = 3
  NoRow = NoRow
  NoCall = NoCall
  NoEmail = NoEmail
  OldEmail = OldEmail
SPECIFICATION Spec
SYMMETRY Symmetry
INVARIANTS
  TypeOK
  VerificationFollowsMail
  VerificationComesFirst
  FirstVerificationIsFirst
  NewTokensAreCurrent
PROPERTIES
  ChangesAreAuthorised
CHECK_DEADLOCK FALSE
