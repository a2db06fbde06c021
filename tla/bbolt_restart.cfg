CONSTANTS
    Lower <- MCLower
    Rank <- MCRank
    Canon <- MCCanon
    BadData = {}
    RawZones <- MCZones
    RawRecords <- MCRecords
    InitStores <- MCStores
    InitZones = {}
    InitRevision = 0
    Writers = {w1, w2}
    Main = w1
    MaxCalls = 2
    Fallible = {"SaveRecord", "DeleteZone"}
    MaxFaults = 1
    Readers = {r1}
    Questions <- MCQuestions
    MaxCNAMEChain = 2
    Capacity = 1
    Shards = 1
    ShardOf <- MCShardOf
    SeedFile <- MCSeed
    MaxCrashes = 2
    MaxReadFaults = 1
SPECIFICATION ServerSpec
INVARIANTS CacheFresh IndexFresh AnswerFresh
PROPERTIES SeedServed BboltImplementsRepository
