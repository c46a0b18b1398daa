SPECIFICATION FairSpec
CONSTANTS
  Writers = {w1, w2}
  Nobody = Nobody
  Postgres = TRUE
  Retention = 1
  MaxAppends = 3
  MaxTime = 3
  MaxFaults = 2
INVARIANTS
  NoFork
PROPERTIES
  ImplementsHashChain
  AppendsFinish
