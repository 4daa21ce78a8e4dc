SPECIFICATION Spec
CONSTANTS
  main = main
  extra = extra
  release = release
  c1 = c1
  c2 = c2
  before = before
  after = after
  IndexFiles <- OneIndex
  ReleaseFiles <- OneRelease
  Foreign <- NoPath
  FaultyPaths <- Faulty
  Collectors <- One
  InstalledSets <- Upgrades
  MaxGen = 2
  CounterMod = 2
INVARIANTS
  TypeOK
  FreshResult
  OwnFilter
