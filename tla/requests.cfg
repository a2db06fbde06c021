CONSTANTS
    Lower <- MCLower
    Rank <- MCRank
    Canon <- MCCanon
    BadData = {}
    RawZones <- MCZones
    RawRecords <- MCRecords
    InitStores <- MCStores
    InitZones = {}
    InitRevision = 2
    Writers = {g1}
    MaxCalls = 30
    Operations = {"UpsertZone", "DeleteZone", "UpsertRecord", "DeleteRecord", "DeleteRRSet", "DeleteName", "ImportSeedData"}
    RawRRSets <- NoInputs
    RawSeeds <- NoInputs
    MaxOperations = 5
    HTTPRequests <- MCRequests
    MaxRequests = 2
    Messages <- MCMessages
    MaxMessages = 1
SPECIFICATION FrontSpec
INVARIANTS UpdatePrefix StatusTruthful
