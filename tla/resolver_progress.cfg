CONSTANTS
    Lower <- MCLower
    Rank <- MCRank
    Canon <- MCCanon
    BadData <- MCBadData
    RawZones <- NestedZones
    RawRecords <- LoopRecords
    InitStores <- LoopStores
    InitZones = {}
    InitRevision = 3
    Writers = {w1, w2}
    MaxCalls = 2
    Readers = {r1}
    Questions <- NestedQuestions
    MaxCNAMEChain = 2
    Capacity = 1
    Shards = 2
    ShardOf <- MCShardOf
    MaxCacheTTL = 4
    NegativeTTL = 2
SPECIFICATION FairSpec
INVARIANTS TypeOK IndexCurrent CacheCurrent CacheExact
PROPERTIES QueryTerminates MemoryImplementsRepository
