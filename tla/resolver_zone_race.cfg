CONSTANTS
    Lower <- MCLower
    Rank <- MCRank
    Canon <- MCCanon
    BadData <- MCBadData
    RawZones <- NestedZones
    RawRecords <- NestedRecords
    InitStores <- EmptyStore
    InitZones = {}
    InitRevision = 0
    Writers = {w1}
    MaxCalls = 2
    Readers = {r1}
    Questions <- NestedQuestions
    MaxCNAMEChain = 2
    Capacity = 1
    Shards = 2
    ShardOf <- MCShardOf
    MaxCacheTTL = 4
    NegativeTTL = 2
SPECIFICATION Spec
INVARIANT AnswerExact
