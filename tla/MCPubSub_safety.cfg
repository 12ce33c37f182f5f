SPECIFICATION PSpec
CONSTANTS
  d1 = d1
  d2 = d2
  p1 = p1
  p2 = p2
  mOpened = mOpened
  mSolved = mSolved
  mStray = mStray
  mGarbled = mGarbled
  mNoKind = mNoKind
  mNull = mNull
  Pushers = {p1, p2}
  Drains = {p1, p2}
  MaxId = 3
  Limit = 3
  MaxFaults = 1
  Events <- MCEvents
  Poison <- MCNone
  Flaky <- MCFlaky
  NoEvent = NoEvent
  NoMsg = NoMsg
  Msgs = {mOpened, mSolved, mGarbled, mNoKind}
  Carries <- MCCarries
  Unparseable <- MCUnparseable
  Unstorable <- MCUnstorable
  MaxDeliveries = 2
SYMMETRY Symmetry
INVARIANTS
  PTypeOK
  AckedIsRecorded
  AckedIsDispatched
  EffectsPerDelivery
CHECK_DEADLOCK FALSE
