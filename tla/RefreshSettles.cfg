SPECIFICATION FairSpec
CONSTANTS
  StatusFiles <- Statuses
  Malformed <- Unreadable
  InstalledRevision <- RevisionOf
  IndexFiles <- Lists
  ReleaseFiles <- Releases
  Foreign <- Others
  Corrupt <- Torns
  Overlong <- Longs
  ModTime <- Time
  NoFile = NoFile
  StatusStates <- SettlingStatus
  ListsStates <- SettlingLists
  MarkerStates <- SettlingMarker
  CounterMod = 1
  MaxEvents = 0
ACTION_CONSTRAINT ChangesAtReads
PROPERTIES
  SettledHostIsShown
