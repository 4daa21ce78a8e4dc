SPECIFICATION HSpec
CONSTANTS
  StatusFiles <- Statuses
  Malformed <- Unreadable
  InstalledRevision <- RevisionOf
  IndexFiles <- Lists
  ReleaseFiles <- Releases
  Foreign <- Others
  Corrupt <- Torns
  Overlong <- Longs
  ModTime <- Time
  NoFile = NoFile
  StatusStates <- ChangingStatus
  ListsStates <- ChangingLists
  MarkerStates <- ChangingMarker
  CounterMod = 1
  MaxEvents = 0
ACTION_CONSTRAINT ChangesAtReads
VIEW DataView
INVARIANTS
  UpgradesMatchInventory
PROPERTIES
  PublishedIsWhole
  ShowsPackageData
