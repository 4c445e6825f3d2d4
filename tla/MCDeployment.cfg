SPECIFICATION FairSpec
CONSTANTS
  MaxCalls = 3
  NoJob = NoJob
INVARIANTS
  TypeOK
  RejectedMeansNothing
  JournalNamesTheJob
  CleanCloseIsRecorded
PROPERTIES
  EntryEnds
  CloseEnds
  KeepsPromise
CHECK_DEADLOCK FALSE
