\* Batches of one size on two dates, ages to just beyond the time to live.
CONSTANTS
    Requests <- MixedRequests
    Kind <- MixedKind
    Rows <- MixedRows
    UserKey <- MixedUserKey
    NoKey = NoKey
    ClientKey = ClientKey
    Runs = {c1, c2}
    Ttl = 1
    MaxDay = 1
SPECIFICATION IngestFairSpec
INVARIANTS
    OverlapOnlyAfterTtl
    DuplicateHasACause
PROPERTIES
    KeysExpire
