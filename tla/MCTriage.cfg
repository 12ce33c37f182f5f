SPECIFICATION Spec
CONSTANTS
  Staff = {e1, e2}
  Tickets = {t1, t2}
  Labels <- MCLabels
  Nobody = Nobody
  NoLabel = NoLabel
  Calls = {c1, c2}
  MaxTriages = 3
SYMMETRY Symmetry
INVARIANTS
  TypeOK
  LostIncrementsCrossed
  SequentialIsFair
  TicketReadsAsReported
CHECK_DEADLOCK FALSE
