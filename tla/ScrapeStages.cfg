SPECIFICATION Spec
CONSTANTS
  c1 = c1
  c2 = c2
  Scrapers <- One
  Stages = {"index_parse"}
  MaxAttempts = 3
INVARIANTS
  StagesObservedAsRun
