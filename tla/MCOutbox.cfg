SPECIFICATION LiveSpec
CONSTANTS
  d1 = d1
  d2 = d2
  Drains = {d1, d2}
  MaxId = 3
  Limit = 2
  MaxFaults = 1
  Events <- MCAll
  Poison <- MCPoison
  Flaky <- MCFlaky
  NoEvent = NoEvent
INVARIANTS
  TypeOK
  DispatchedWasHandled
  OnlyCommittedHandled
  RedeliveredOnlyIfLost
  EffectsBounded
PROPERTIES
  KeepsStreamContract
  OnlyBlockedEventsWait
  BuriedForGood
