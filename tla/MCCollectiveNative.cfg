CONSTANTS
  Size = 2
  Keys <- MCKeys
  Values <- MCValues
  Commands <- BarrierCommands
  Quota <- ThreeForTheClient
  Eager = FALSE
  Storage = "NativeDB"
SPECIFICATION Spec
CHECK_DEADLOCK FALSE
INVARIANTS
  GetSeesOwn
  WriteBarrierCovers
  MetaGetAllOwn
  ClosedComplete
