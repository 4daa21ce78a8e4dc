SPECIFICATION Spec
CONSTANTS
  c1 = c1
  c2 = c2
  Scrapers <- Two
  Stages = {"index_parse"}
  MaxAttempts = 3
SYMMETRY Clients
INVARIANTS
  StagesWithinCollections
  ScrapedIsCounted
  ServedIsCountedOnce
  FailuresAreLogged
