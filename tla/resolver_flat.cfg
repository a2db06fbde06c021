CONSTANTS
    Lower <- MCLower
    Rank <- MCRank
    Canon <- MCCanon
    BadData <- MCBadData
    RawZones <- FlatZones
    RawRecords <- FlatRecords
    InitStores <- FlatStores
    InitZones = {}
    InitRevision = 2
    Writers = {w1}
    MaxCalls = 2
    Readers = {r1, r2}
    Questions <- FlatQuestions
    MaxCNAMEChain = 2
    Capacity = 1
    Shards = 2
    ShardOf <- MCShardOf
    MaxCacheTTL = 4
    NegativeTTL = 2
SPECIFICATION Spec
INVARIANTS IndexCurrent CacheCurrent CacheExact AnswerExact
SYMMETRY ReaderSymmetry
