SPECIFICATION Spec
CONSTANTS
  VersionTexts <- SomeVersions
  StatusTexts <- SomeStatusTexts
  Inventories <- SomeInventories
  StatusLists <- SomeStatusLists
  IndexTexts <- SomeIndexTexts
  ReleaseFiles <- SomeReleaseFiles
  IndexNames <- SomeIndexNames
INVARIANTS
  VersionsCompareAsDebian
  StatusIsReadByParagraphs
  PresentIsCountedOnce
  StreamSelectsOffers
  ParsersAgree
  RevisionDeterminesFilter
  MostSpecificReleaseGoverns
  ReportedIsOpened
