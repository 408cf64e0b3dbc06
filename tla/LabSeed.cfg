\* Three processes, side by side or one after the other, seed two tables in chunks of two rows.
SPECIFICATION FairSpec
CONSTANTS
    Seeders = {p1, p2, p3}
    NTables = 2
    Sessions = 1
    Events = 2
    Rows <- MCRows
    ChunkSize = 2
    Found = {0, 5}
INVARIANTS
    TypeOK
    NoHoles
    LabReady
PROPERTIES
    Implements
    SeedingEnds
