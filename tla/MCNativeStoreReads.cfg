CONSTANTS
    c1 = c1
    c2 = c2
    k1 = k1
    k2 = k2
    Clients = {c1, c2}
    Readers = {c1}
    Keys = {k1, k2}
    Deletes = {FALSE}
    EntrySize <- MCEntrySize
    MaxBytes = 2
    MaxImmutable = 1
    MaxWrites = 3
    WriteFaults = FALSE
SPECIFICATION FairSpec
INVARIANTS
    GetNotBehindBarrier
    ScanExactWhenQuiet
PROPERTIES
    QueuedFlushed
    BarrierReturnsOrWritesGoOn
    PutReturnsOrWritesGoOn
