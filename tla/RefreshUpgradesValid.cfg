SPECIFICATION Spec
CONSTANTS
  StatusFiles <- Statuses
  Malformed <- Unreadable
  InstalledRevision <- RevisionOf
  IndexFiles <- Lists
  ReleaseFiles <- Releases
  Foreign <- Others
  Corrupt <- Torns
  Overlong <- Longs
  ModTime <- Time
  NoFile = NoFile
  StatusStates <- FailingStatus
  ListsStates <- FailingLists
  MarkerStates <- FailingMarker
  CounterMod = 8
  MaxEvents = 3
CONSTRAINT Bounded
INVARIANTS
  UpgradesValidNeedSources
