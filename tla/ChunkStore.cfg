SPECIFICATION FairSpec
CONSTANTS
  MaxUtterance = 3
  Service = service
  Manual = manual
  None = None
  Budget <- FaultyBudget
INVARIANTS
  TypeOK
  Chronological
  FilesKnown
PROPERTIES
  ImplementsTranscriptStore
  OnlyFaultsKillSpool
  FileGetsRow
CHECK_DEADLOCK FALSE
