CONSTANTS
    Lower <- MCLower
    Rank <- MCRank
    Canon <- MCCanon
    BadData = {}
    RawZones <- DuoZones
    RawRecords <- DuoRecords
    InitStores <- EmptyStore
    InitZones = {}
    InitRevision = 0
    Writers = {c1, c2}
    MaxCalls = 30
    Operations = {"UpsertZone", "DeleteZone", "UpsertRecord", "DeleteRecord", "UpsertRRSet", "DeleteRRSet", "DeleteName", "ImportSeedData"}
    RawRRSets <- DuoRRSets
    RawSeeds <- DuoSeeds
    MaxOperations = 3
SPECIFICATION ManagerFairSpec
INVARIANT SOAPlaced
PROPERTY CallsReturn
