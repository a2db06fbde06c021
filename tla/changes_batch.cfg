CONSTANTS
    Lower <- MCLower
    Rank <- MCRank
    Canon <- MCCanon
    BadData = {}
    RawZones <- NoInputs
    RawRecords <- MCRecords
    InitStores <- MCStores
    InitZones = {}
    InitRevision = 3
    Writers = {c1}
    MaxCalls = 30
    Operations = {"UpsertZone", "DeleteZone", "UpsertRecord", "DeleteRecord", "UpsertRRSet", "DeleteRRSet", "DeleteName"}
    RawRRSets <- NoInputs
    RawSeeds <- NoInputs
    MaxOperations = 3
    Batches <- MCBatches
    MaxBatches = 1
SPECIFICATION ChangesSpec
INVARIANTS AppliedMatchesPreview BatchComplete ManagerTypeOK ZonesValid RRSetAllOrNothing RRSetReplaced RecordsHaveZone
