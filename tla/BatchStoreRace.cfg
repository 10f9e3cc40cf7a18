CONSTANTS
  Threads = {app, server}
  Keys = {k1, k2}
  Sizes = {1}
  MaxBatchSize = 3
  MaxBatchBytes = 9
  MaxWrites = 2
SPECIFICATION Spec
INVARIANTS
  BarrierCovers
