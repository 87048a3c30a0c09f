SPECIFICATION Spec
CONSTANTS
  r1 = r1
  r2 = r2
  v1 = v1
  v2 = v2
  slot1 = slot1
  slot2 = slot2
  None = None
  Repos <- MCRepos
  Versions <- MCVersions
  Slots <- MCSlots
  Manners <- MCManners
  MaxActs <- MCMaxActs
  StorageFails = TRUE
INVARIANTS TypeOK DotTellsTruth ViewSettles
PROPERTIES RunsLoseNothing
SYMMETRY Symmetry
CHECK_DEADLOCK FALSE
