CONSTANTS
    Lower <- MCLower
    Rank <- MCRank
    Canon <- MCCanon
    BadData = {}
    RawZones <- NoInputs
    RawRecords <- RaceRecords
    InitStores <- RaceStores
    InitZones = {}
    InitRevision = 1
    Writers = {c1, c2}
    MaxCalls = 30
    Operations = {"UpsertZone", "DeleteZone", "UpsertRecord", "DeleteRecord", "UpsertRRSet", "DeleteRRSet", "DeleteName"}
    RawRRSets <- NoInputs
    RawSeeds <- NoInputs
    MaxOperations = 3
    Batches <- RaceBatches
    MaxBatches = 2
SPECIFICATION ChangesSpec
INVARIANT BatchComplete
