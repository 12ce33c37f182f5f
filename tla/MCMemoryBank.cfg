SPECIFICATION BSpec
CONSTANTS
  Instances = {i1, i2}
  Users = {u1, u2}
  Engines = {g1, g2, g3}
  InMemory = InMemory
  Boot = Boot
INVARIANTS
  TypeOK
  RedeployOrphansNothing
  BTypeOK
  ServesSeeded
  RestartOverwritesNothing
  RaceIsLostTwiceAtMost
SYMMETRY Symmetry
