CONSTANTS
    Base = 3
    LenBytes = 2
    RecordKeys <- MCKeys
    RecordValues <- MCValues
    MaxRecords = 3
    PreAllocations = {0, 7, 30}
SPECIFICATION Spec
INVARIANTS
    LookupsMatchSSTable
    CompleteFound
