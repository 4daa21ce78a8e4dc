SPECIFICATION FairSpec
CONSTANTS
  main = main
  extra = extra
  release = release
  c1 = c1
  c2 = c2
  before = before
  after = after
  IndexFiles <- TwoIndexes
  ReleaseFiles <- NoPath
  Foreign <- ForeignOnly
  FaultyPaths <- NoPath
  Collectors <- Two
  InstalledSets <- NoUpgrade
  MaxGen = 1
  CounterMod = 1
INVARIANTS
  FreshResult
PROPERTIES
  SettledHostServedFromCache
