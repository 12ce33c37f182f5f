SPECIFICATION Spec
CONSTANTS
  jin = jin
  kim = kim
  soo = soo
  min = min
  acme = acme
  bolt = bolt
  lamp = lamp
  memo = memo
  chair = chair
  Sessions = {s1, s2}
  Employees = {jin, kim, soo, min}
  RoleOf <- MCRoleOf
  Customers = {acme, bolt}
  OwnerOf <- MCOwnerOf
  Tickets = {chair, lamp}
  CustomerOf <- MCCustomerOf
  Memos = {memo}
  Authored <- MCAuthored
  Ledger = memo
  NoOne = NoOne
  Plain = Plain
INVARIANTS
  CaptureWidensNothing
