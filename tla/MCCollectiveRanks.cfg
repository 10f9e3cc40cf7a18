CONSTANTS
  Size = 3
  Keys <- MCKeys
  Values <- MCValues
  Commands <- LookupCommands
  Quota <- OneForTheOwner
  Eager = TRUE
  Storage = "RocksDB"
SPECIFICATION FairSpec
CHECK_DEADLOCK FALSE
INVARIANTS
  TypeOK
  ExecutedInOrder
  StoreOpenWhenUsed
  RepliesAwaited
PROPERTIES
  EveryoneLeaves
