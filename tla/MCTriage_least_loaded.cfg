SPECIFICATION Spec
CONSTANTS
  Staff = {e1, e2}
  Tickets = {t1, t2}
  Labels <- MCOne
  Nobody = Nobody
  NoLabel = NoLabel
  Calls = {c1}
  MaxTriages = 3
PROPERTIES
  NewOwnerIsLeastLoaded
CHECK_DEADLOCK FALSE
