SPECIFICATION Spec
CONSTANTS
  inject = inject
  subtle = subtle
  contact = contact
  removed = removed
  refusal = refusal
  withheld = withheld
  reply = reply
  Sessions = {s1, s2}
  Runs = {r1, r2}
  Prompts = {inject, subtle}
  Flags <- MCFlags
  Results = {contact}
  Leaks <- MCLeaks
  Notice <- MCNotice
  SavesState = TRUE
  MaxMessages = 3
  MaxCalls = 1
SYMMETRY Symmetry
INVARIANTS
  TypeOK
  InjectionReachesNoModel
  LeakReachesNoModel
  BlockedRunStops
  CleanIsServed
  TrailTellsEffects
CHECK_DEADLOCK FALSE
