SPECIFICATION RSpec
CONSTANTS
  Orders = {o1, o2, o3}
  NoOrder = NoOrder
  Amounts = {1, 3}
  Callers = {c1}
  Scale = 1
  MaxChanges = 3
INVARIANTS
  RTypeOK
  UntouchedJudgedRight
  MissingWasMissing
  FullRateIsClean
SYMMETRY Symmetry
CHECK_DEADLOCK FALSE
