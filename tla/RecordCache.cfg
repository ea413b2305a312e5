\* A reader and a writer, or two writers that overtake each other, with one
\* failing call to Redis or PostgreSQL.
CONSTANTS
    Clients = {c1, c2}
    Ops = {"update", "process", "archive", "delete"}
    MaxWrites = 3
    MaxFaults = 1
SPECIFICATION FairSpec
INVARIANTS
    StalenessHasACause
    GetsCoverAcknowledged
PROPERTIES
    EventuallyFresh
