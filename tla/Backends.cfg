CONSTANTS
  Threads = {app}
  Keys = {k1, k2}
  Sizes = {1, 2, 3}
  MaxBatchSize = 3
  MaxBatchBytes = 3
  MaxWrites = 5
SPECIFICATION BackendsSpec
INVARIANTS
  TypeOK
  BarrierCovers
PROPERTIES
  ImplementsDurableLog
