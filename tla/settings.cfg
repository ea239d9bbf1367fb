CONSTANTS
  Requests = {r1, r2, r3}
  MaxClock = 4
  NoRow = NoRow
SPECIFICATION Spec
SYMMETRY Symmetry
INVARIANTS
  TypeOK
  StaleSettingsAreGone
  RegistrationNeedsAdministrator
PROPERTIES
  SettingsStay
  SettingsAreRegular
CHECK_DEADLOCK FALSE
