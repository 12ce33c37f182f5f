SPECIFICATION Spec
CONSTANTS
  Drafts = {a1, a2}
  People = {ann, bob}
  Nobody = Nobody
  Requests = {r1, r2}
  MaxLog = 5
INVARIANTS
  TypeOK
  SentWasSignedOff
  RowsMatchLog
  PendingAwaitsPerson
PROPERTIES
  KeepsGateContract
CHECK_DEADLOCK FALSE
