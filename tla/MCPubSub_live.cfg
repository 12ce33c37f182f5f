SPECIFICATION PLiveSpec
CONSTANTS
  d1 = d1
  d2 = d2
  p1 = p1
  p2 = p2
  mOpened = mOpened
  mSolved = mSolved
  mStray = mStray
  mGarbled = mGarbled
  mNoKind = mNoKind
  mNull = mNull
  Pushers = {p1}
  Drains = {p1, d1}
  MaxId = 4
  Limit = 4
  MaxFaults = 1
  Events <- MCEvents
  Poison <- MCNone
  Flaky <- MCNone
  NoEvent = NoEvent
  NoMsg = NoMsg
  Msgs = {mOpened, mStray, mGarbled, mNoKind}
  Carries <- MCCarries
  Unparseable <- MCUnparseable
  Unstorable <- MCUnstorable
  MaxDeliveries = 2
PROPERTIES
  WellFormedIsHandled
