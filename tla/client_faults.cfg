CONSTANTS
    Lower <- MCLower
    Rank <- MCRank
    Canon <- MCCanon
    BadData = {}
    RawZones <- NoInputs
    RawRecords <- MCRecords
    InitStores <- MCStores
    InitZones = {}
    InitRevision = 1
    Writers = {s1, s2}
    MaxCalls = 30
    Operations = {"UpsertRecord", "DeleteRecord", "DeleteRRSet", "DeleteName"}
    RawRRSets <- NoInputs
    RawSeeds <- NoInputs
    MaxOperations = 10
    Messages <- NoInputs
    MaxMessages = 0
    Requests <- MCRequests
    MaxExchanges = 2
SPECIFICATION ClientSpec
INVARIANT AcknowledgedHolds
SYMMETRY ServerSymmetry
