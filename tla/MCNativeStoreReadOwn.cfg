CONSTANTS
    c1 = c1
    c2 = c2
    k1 = k1
    k2 = k2
    Clients = {c1}
    Readers = {c1}
    Keys = {k1, k2}
    Deletes = {TRUE, FALSE}
    EntrySize <- MCEntrySize
    MaxBytes = 2
    MaxImmutable = 1
    MaxWrites = 2
    WriteFaults = FALSE
SPECIFICATION Spec
INVARIANTS
    ReadYourWrites
