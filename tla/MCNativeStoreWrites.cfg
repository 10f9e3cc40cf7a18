CONSTANTS
    c1 = c1
    c2 = c2
    k1 = k1
    k2 = k2
    Clients = {c1, c2}
    Readers = {}
    Keys = {k1, k2}
    Deletes = {TRUE, FALSE}
    EntrySize <- MCEntrySize
    MaxBytes = 2
    MaxImmutable = 1
    MaxWrites = 3
    WriteFaults = TRUE
SPECIFICATION Spec
SYMMETRY Symmetry
INVARIANTS
    TypeOK
    WritesInOrder
    BarrieredOnDisk
    ImmutablesBounded
    NoLostWakeup
PROPERTIES
    ImplementsDurableLog
    BarrieredSurvives
